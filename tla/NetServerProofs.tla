--------------------------- MODULE NetServerProofs ---------------------------
(***************************************************************************)
(* Proofs about NetServer, for any clients, group paths and requests: the  *)
(* server's lock counts are those of its connections, the offset a client  *)
(* keeps is the server's, and, for groups of one level, clients of one     *)
(* group exclude each other.                                               *)
(***************************************************************************)
EXTENDS NetServer, FiniteSetTheorems, WellFoundedInduction, TLAPS

-----------------------------------------------------------------------------
(* Files in memory *)

FileType(f) == f \in [buf : Seq(Byte), idx : Nat]

\* A set of numbers that is not empty has a smallest member.
LEMMA SmallestIs ==
  ASSUME NEW S, S \subseteq Nat, S # {}
  PROVE  \E i \in S : \A j \in S : i <= j
<1>1. IsWellFoundedOn(OpToRel(<, Nat), Nat)
  BY NatLessThanWellFounded
<1>2. PICK i \in S : \A j \in S : ~ (<<j, i>> \in OpToRel(<, Nat))
  BY <1>1, WFMin
<1>3. \A j \in S : ~ (j < i)
  BY <1>2 DEF OpToRel
<1> QED BY <1>3

LEMMA BytesOf ==
  ASSUME NEW s \in Seq(Byte), NEW i \in Nat, NEW j \in Nat, i >= 1, j <= Len(s)
  PROVE  SubSeq(s, i, j) \in Seq(Byte) /\ Len(SubSeq(s, i, j)) = IF i <= j THEN j - i + 1 ELSE 0
OBVIOUS

LEMMA BytesAnd ==
  ASSUME NEW s \in Seq(Byte), NEW t \in Seq(Byte)
  PROVE  s \o t \in Seq(Byte) /\ Len(s \o t) = Len(s) + Len(t)
OBVIOUS

LEMMA DoneIs ==
  ASSUME NEW f, FileType(f), NEW i \in Nat, NEW ret
  PROVE  /\ FileType(Done(f, i, ret).f) /\ Done(f, i, ret).f.buf = f.buf /\ Done(f, i, ret).f.idx = i
         /\ Done(f, i, ret).ret = ret /\ Done(f, i, ret).ok
BY DEF Done, FileType

\* A read gives the bytes up to the new position and changes none.
ReadsTo(f, r) ==
  /\ FileType(r.f) /\ r.f.buf = f.buf /\ r.ok
  /\ r.ret \in Seq(Byte) /\ r.f.idx = f.idx + Len(r.ret)

LEMMA ReadsFrom ==
  ASSUME NEW f, FileType(f), NEW i \in Nat, f.idx < i, i <= Len(f.buf)
  PROVE  ReadsTo(f, Done(f, i, SubSeq(f.buf, f.idx + 1, i)))
<1>1. f.buf \in Seq(Byte) /\ f.idx \in Nat
  BY DEF FileType
<1>2. SubSeq(f.buf, f.idx + 1, i) \in Seq(Byte) /\ Len(SubSeq(f.buf, f.idx + 1, i)) = i - f.idx
  BY <1>1, BytesOf
<1> DEFINE r == Done(f, i, SubSeq(f.buf, f.idx + 1, i))
<1>3. /\ FileType(r.f) /\ r.f.buf = f.buf /\ r.f.idx = i
      /\ r.ret = SubSeq(f.buf, f.idx + 1, i) /\ r.ok
  BY DoneIs
<1> HIDE DEF r
<1>4. r.ret \in Seq(Byte) /\ Len(r.ret) = i - f.idx
  BY <1>2, <1>3
<1>5. r.f.idx = f.idx + Len(r.ret)
  BY <1>1, <1>3, <1>4
<1>6. ReadsTo(f, r)
  BY <1>3, <1>4, <1>5 DEF ReadsTo
<1> QED BY <1>6 DEF r

LEMMA ReadsNothing ==
  ASSUME NEW f, FileType(f)
  PROVE  ReadsTo(f, Done(f, f.idx, << >>))
<1>1. f.idx \in Nat
  BY DEF FileType
<1> DEFINE r == Done(f, f.idx, << >>)
<1>2. FileType(r.f) /\ r.f.buf = f.buf /\ r.f.idx = f.idx /\ r.ret = << >> /\ r.ok
  BY <1>1, DoneIs
<1> HIDE DEF r
<1>3. r.ret \in Seq(Byte) /\ Len(r.ret) = 0
  BY <1>2
<1>4. ReadsTo(f, r)
  BY <1>1, <1>2, <1>3 DEF ReadsTo
<1> QED BY <1>4 DEF r

LEMMA ReadEndIs ==
  ASSUME NEW f, FileType(f), NEW n \in Int
  PROVE  ReadEnd(f, n) \in Nat /\ ReadEnd(f, n) <= Len(f.buf)
<1>1. f.buf \in Seq(Byte) /\ f.idx \in Nat
  BY DEF FileType
<1>2. Len(f.buf) \in Nat
  BY <1>1
<1> QED BY <1>1, <1>2 DEF ReadEnd

LEMMA ReadRight ==
  ASSUME NEW f, FileType(f), NEW n \in Int
  PROVE  ReadsTo(f, Read(f, n))
<1>1. f.idx \in Nat
  BY DEF FileType
<1> DEFINE stop == ReadEnd(f, n)
<1>2. stop \in Nat /\ stop <= Len(f.buf)
  BY ReadEndIs
<1>3. Read(f, n) = IF stop <= f.idx THEN Done(f, f.idx, << >>)
                   ELSE Done(f, stop, SubSeq(f.buf, f.idx + 1, stop))
  BY DEF Read
<1> HIDE DEF stop
<1>4. CASE stop <= f.idx
  BY <1>3, <1>4, ReadsNothing
<1>5. CASE ~(stop <= f.idx)
  BY <1>1, <1>2, <1>3, <1>5, ReadsFrom
<1> QED BY <1>4, <1>5

\* The smallest member, as the two definitions choose it.
Smallest(S) == CHOOSE i \in S : \A j \in S : i <= j

LEMMA SmallestOf ==
  ASSUME NEW S, S \subseteq Nat, S # {}
  PROVE  Smallest(S) \in S
BY SmallestIs DEF Smallest

LEMMA ReadLineRight ==
  ASSUME NEW f, FileType(f), NEW n \in Int
  PROVE  ReadsTo(f, ReadLine(f, n))
<1> DEFINE stop == ReadEnd(f, n)
           ends == {i \in (f.idx + 1)..stop : f.buf[i] = EndOfLine}
           next == IF ends = {} THEN stop ELSE Smallest(ends)
<1>1. f.idx \in Nat /\ stop \in Nat /\ stop <= Len(f.buf) /\ Len(f.buf) \in Nat
  BY ReadEndIs DEF FileType
<1>2. ReadLine(f, n) = IF f.idx >= Len(f.buf) THEN Done(f, f.idx, << >>)
                       ELSE Done(f, next, SubSeq(f.buf, f.idx + 1, next))
  BY DEF ReadLine, Smallest
<1>3. CASE f.idx >= Len(f.buf)
  BY <1>2, <1>3, ReadsNothing
<1>4. CASE ~(f.idx >= Len(f.buf)) /\ ends # {}
  <2>1. ends \subseteq Nat /\ \A i \in ends : f.idx < i /\ i <= Len(f.buf)
    BY <1>1
  <2> HIDE DEF ends
  <2>2. next \in ends
    BY <1>4, <2>1, SmallestOf
  <2> HIDE DEF next
  <2> QED BY <1>2, <1>4, <2>1, <2>2, ReadsFrom
<1>5. CASE ~(f.idx >= Len(f.buf)) /\ ends = {}
  <2>1. next = stop
    BY <1>5
  <2> HIDE DEF next, ends
  <2>2. CASE f.idx < stop
    <3> HIDE DEF stop
    <3> QED BY <1>1, <1>2, <1>5, <2>1, <2>2, ReadsFrom
  <2>3. CASE stop <= f.idx
    <3>1. stop = f.idx
      BY <1>1, <1>5, <2>3 DEF ReadEnd
    <3>2. SubSeq(f.buf, f.idx + 1, f.idx) = << >>
      BY <1>1 DEF FileType
    <3> QED BY <1>2, <1>5, <2>1, <3>1, <3>2, ReadsNothing
  <2> QED BY <1>1, <2>2, <2>3
<1> QED BY <1>3, <1>4, <1>5

LEMMA ReadLinesRight ==
  ASSUME NEW f, FileType(f), NEW n \in Int
  PROVE  ReadsTo(f, ReadLines(f, n))
<1> DEFINE last == Len(f.buf)
           ends == {i \in (f.idx + 1)..last : i = last \/ (f.buf[i] = EndOfLine /\ n > 0 /\ i - f.idx > n)}
           next == Smallest(ends)
<1>1. f.idx \in Nat /\ last \in Nat
  BY DEF FileType
<1>2. ReadLines(f, n) = IF f.idx >= last THEN Done(f, f.idx, << >>)
                        ELSE Done(f, next, SubSeq(f.buf, f.idx + 1, next))
  BY DEF ReadLines, Smallest
<1>3. CASE f.idx >= last
  BY <1>2, <1>3, ReadsNothing
<1>4. CASE ~(f.idx >= last)
  <2>1. ends \subseteq Nat /\ (\A i \in ends : f.idx < i /\ i <= last)
    BY <1>1
  <2>2. last \in ends
    BY <1>1, <1>4
  <2> HIDE DEF ends
  <2>3. next \in ends
    BY <2>1, <2>2, SmallestOf
  <2> HIDE DEF next
  <2> QED BY <1>2, <1>4, <2>1, <2>3, ReadsFrom
<1> QED BY <1>3, <1>4

\* What a call on a file object may do: a call that went well leaves the
\* position where the client expects it, another one leaves all as it was.
Works(f, cmd, r) ==
  /\ FileType(r.f) /\ r.ok \in BOOLEAN /\ r.ret \in Int \cup Seq(Byte)
  /\ ~r.ok => r.f.idx = f.idx
  /\ r.ok => \A io : io.offset = f.idx => NextOffset(io, cmd, r.ret) = r.f.idx
  /\ cmd \notin {"write", "truncate"} => r.f.buf = f.buf

LEMMA ReadsWork ==
  ASSUME NEW f, FileType(f), NEW r, ReadsTo(f, r), NEW cmd \in {"read", "readline", "readlines"}
  PROVE  Works(f, cmd, r)
BY DEF ReadsTo, Works, NextOffset

LEMMA FailedWorks ==
  ASSUME NEW f, FileType(f), NEW cmd
  PROVE  Works(f, cmd, Failed(f))
<1> DEFINE r == Failed(f)
<1>1. r.f = f /\ r.ret = << >> /\ ~r.ok /\ r.ok \in BOOLEAN
  BY DEF Failed
<1> HIDE DEF r
<1>2. r.ret \in Seq(Byte)
  BY <1>1
<1>3. Works(f, cmd, r)
  BY <1>1, <1>2 DEF Works
<1> QED BY <1>3 DEF r

LEMMA SeekWorks ==
  ASSUME NEW f, FileType(f), NEW n \in Int, NEW whence \in 0..2
  PROVE  Works(f, "seek", Seek(f, n, whence))
<1> DEFINE next == n + <<0, f.idx, Len(f.buf)>>[whence + 1]
<1>1. f.idx \in Nat /\ f.buf \in Seq(Byte) /\ Len(f.buf) \in Nat
  BY DEF FileType
<1>2. <<0, f.idx, Len(f.buf)>>[whence + 1] \in Int
  <2>1. whence = 0 \/ whence = 1 \/ whence = 2
    OBVIOUS
  <2> QED BY <1>1, <2>1
<1>3. next \in Int
  BY <1>2
<1>4. Seek(f, n, whence) = IF next < 0 THEN Failed(f) ELSE Done(f, next, next)
  BY DEF Seek
<1> HIDE DEF next
<1>5. CASE next < 0
  BY <1>4, <1>5, FailedWorks
<1>6. CASE ~(next < 0)
  <2>1. next \in Nat
    BY <1>3, <1>6
  <2> DEFINE r == Done(f, next, next)
  <2>2. FileType(r.f) /\ r.f.buf = f.buf /\ r.f.idx = next /\ r.ret = next /\ r.ok
    BY <2>1, DoneIs
  <2> HIDE DEF r
  <2>3. Works(f, "seek", r)
    BY <2>1, <2>2 DEF Works, NextOffset
  <2> QED BY <1>4, <1>6, <2>3 DEF r
<1> QED BY <1>5, <1>6

LEMMA TellWorks ==
  ASSUME NEW f, FileType(f)
  PROVE  Works(f, "flush", Tell(f))
<1> DEFINE r == Done(f, f.idx, f.idx)
<1>1. f.idx \in Nat
  BY DEF FileType
<1>2. FileType(r.f) /\ r.f.buf = f.buf /\ r.f.idx = f.idx /\ r.ret = f.idx /\ r.ok
  BY <1>1, DoneIs
<1> HIDE DEF r
<1>3. Works(f, "flush", r)
  BY <1>1, <1>2 DEF Works, NextOffset
<1> QED BY <1>3 DEF r, Tell

LEMMA TruncateWorks ==
  ASSUME NEW f, FileType(f), NEW n \in Int
  PROVE  Works(f, "truncate", Truncate(f, n))
<1> DEFINE size == IF n < Len(f.buf) THEN n ELSE Len(f.buf)
           g == [f EXCEPT !.buf = SubSeq(f.buf, 1, size)]
<1>1. f.idx \in Nat /\ f.buf \in Seq(Byte) /\ Len(f.buf) \in Nat
  BY DEF FileType
<1>2. CASE n < 0
  BY <1>2, FailedWorks DEF Truncate
<1>3. CASE ~(n < 0)
  <2>1. size \in Nat /\ size <= Len(f.buf) /\ n \in Nat
    BY <1>1, <1>3
  <2> HIDE DEF size
  <2>2. SubSeq(f.buf, 1, size) \in Seq(Byte)
    BY <1>1, <2>1, BytesOf
  <2>3. FileType(g) /\ g.idx = f.idx
    BY <2>2 DEF FileType
  <2>4. Truncate(f, n) = Done(g, f.idx, n)
    BY <1>3 DEF Truncate, size
  <2> HIDE DEF g
  <2> DEFINE r == Done(g, f.idx, n)
  <2>5. FileType(r.f) /\ r.f.idx = f.idx /\ r.ret = n /\ r.ok
    BY <1>1, <2>3, DoneIs
  <2> HIDE DEF r
  <2>6. Works(f, "truncate", r)
    BY <1>1, <2>1, <2>5 DEF Works, NextOffset
  <2> QED BY <2>4, <2>6 DEF r
<1> QED BY <1>2, <1>3

LEMMA WriteWorks ==
  ASSUME NEW f, FileType(f), NEW b \in Seq(Byte)
  PROVE  Works(f, "write", Write(f, b))
<1> DEFINE n == IF f.idx > Len(f.buf) THEN f.idx - Len(f.buf) ELSE 0
           gap == [i \in 1..n |-> 0]
           old == f.buf \o gap
           new == SubSeq(old, 1, f.idx) \o b \o SubSeq(old, f.idx + Len(b) + 1, Len(old))
           g == [f EXCEPT !.buf = new]
<1>1. f.idx \in Nat /\ f.buf \in Seq(Byte) /\ Len(f.buf) \in Nat /\ Len(b) \in Nat
  BY DEF FileType
<1>2. n \in Nat
  BY <1>1
<1>3. Write(f, b) = IF b = << >> THEN Done(f, f.idx, 0) ELSE Done(g, f.idx + Len(b), Len(b))
  BY DEF Write
<1> HIDE DEF n
<1>4. gap \in Seq(Byte) /\ Len(gap) = n
  BY <1>2 DEF Byte
<1> HIDE DEF gap
<1>5. old \in Seq(Byte) /\ Len(old) = Len(f.buf) + n
  BY <1>1, <1>4, BytesAnd
<1>6. f.idx <= Len(old)
  BY <1>1, <1>5 DEF n
<1> HIDE DEF old
<1>7. SubSeq(old, 1, f.idx) \in Seq(Byte)
  BY <1>1, <1>5, <1>6, BytesOf
<1>8. SubSeq(old, f.idx + Len(b) + 1, Len(old)) \in Seq(Byte)
  BY <1>1, <1>5, BytesOf
<1>9. new \in Seq(Byte)
  BY <1>7, <1>8, BytesAnd
<1> HIDE DEF new
<1>10. FileType(g)
  BY <1>9 DEF FileType
<1> HIDE DEF g
<1>11. CASE b = << >>
  <2> DEFINE r == Done(f, f.idx, 0)
  <2>1. FileType(r.f) /\ r.f.idx = f.idx /\ r.ret = 0 /\ r.ok
    BY <1>1, DoneIs
  <2> HIDE DEF r
  <2>2. Works(f, "write", r)
    BY <1>1, <2>1 DEF Works, NextOffset
  <2> QED BY <1>3, <1>11, <2>2 DEF r
<1>12. CASE b # << >>
  <2> DEFINE r == Done(g, f.idx + Len(b), Len(b))
  <2>1. FileType(r.f) /\ r.f.idx = f.idx + Len(b) /\ r.ret = Len(b) /\ r.ok
    BY <1>1, <1>10, DoneIs
  <2> HIDE DEF r
  <2>2. Works(f, "write", r)
    BY <1>1, <2>1 DEF Works, NextOffset
  <2> QED BY <1>3, <1>12, <2>2 DEF r
<1> QED BY <1>11, <1>12

-----------------------------------------------------------------------------
(* Requests and the types of the state *)

LockCmds == {"rlock", "wlock"}
FileCmds == {"read", "readline", "readlines", "seek", "truncate", "write", "flush"}
GroupCmds == {"add_group", "unlink_group", "unlink_all"}
Cmds == LockCmds \cup FileCmds \cup GroupCmds \cup {"unlock", "open", "close"}

Request ==
  {NoReq} \cup LockCalls \cup ReadCalls \cup WriteCalls \cup [cmd : {"unlock", "close", "unlink_all"}]
  \cup [cmd : {"open"}, mode : {"rb+", "wb+"}] \cup [cmd : {"add_group", "unlink_group"}, name : Names]
Response == {NoReq} \cup [cmd : Cmds, ok : BOOLEAN, ret : Int \cup Seq(Byte)]

Io == [open : BOOLEAN, found : BOOLEAN, offset : Nat]
Client == [up : BOOLEAN, path : Paths, req : Request, rep : Response, lock : {"un", "r", "w"}, io : Io]
Fp == [open : BOOLEAN, idx : Nat, dirty : {<< >>} \cup (Nat \X Seq(Byte))]
Connection == [st : {"recv", "group", "ending", "done"}, backend : Nat, lockers : 0..1, fp : Fp, fresh : BOOLEAN]
Backend == [key : Seq(Byte), readers : Nat, writer : Clients \cup {Nobody}, wcnt : 0..1, groups : [Names -> Nat]]

\* The backends, whose group tables lead to other backends.
Backends(bs) ==
  /\ bs \in Seq(Backend) /\ Len(bs) >= 1
  /\ \A b \in DOMAIN bs : \A n \in Names : bs[b].groups[n] <= Len(bs)

Typed ==
  /\ cl \in [Clients -> Client] /\ conn \in [Clients -> Connection] /\ Backends(backend)
  /\ files \in [Groups -> 0..Len(backend)] /\ live \in [Groups -> 0..Len(backend)]
  /\ \A c \in Clients : conn[c].backend <= Len(backend)

\* What a request carries.
LEMMA RequestParts ==
  ASSUME NEW r \in Request
  PROVE  /\ r.cmd \in Cmds \cup {"none"}
         /\ r.cmd = "none" <=> r = NoReq
         /\ r.cmd \in {"read", "readline", "readlines", "truncate"} => r.n \in Int
         /\ r.cmd = "seek" => r.n \in Int /\ r.whence \in 0..2
         /\ r.cmd = "write" => r.b \in Seq(Byte)
         /\ r.cmd \in {"add_group", "unlink_group"} => r.name \in Names
<1>1. CASE r \in {NoReq}
  BY <1>1 DEF NoReq
<1>2. CASE r \in LockCalls
  <2>1. r \in [cmd : {"rlock", "wlock"}, block : BOOLEAN]
    BY <1>2, CallsAssumption
  <2>2. r.cmd \in LockCmds
    BY <2>1 DEF LockCmds
  <2> QED BY <2>2 DEF LockCmds, Cmds, NoReq
<1>3. CASE r \in ReadCalls
  <2>1. \/ r \in [cmd : {"read", "readline", "readlines"}, n : Int]
        \/ r \in [cmd : {"seek"}, n : Int, whence : 0..2]
        \/ r \in [cmd : {"flush"}]
    BY <1>3, CallsAssumption
  <2>2. /\ r.cmd \in {"read", "readline", "readlines", "seek", "flush"}
        /\ r.cmd \in {"read", "readline", "readlines"} => r.n \in Int
        /\ r.cmd = "seek" => r.n \in Int /\ r.whence \in 0..2
    BY <2>1
  <2> QED BY <2>2 DEF FileCmds, Cmds, NoReq
<1>4. CASE r \in WriteCalls
  <2>1. r \in [cmd : {"write"}, b : Seq(Byte)] \/ r \in [cmd : {"truncate"}, n : Int]
    BY <1>4, CallsAssumption
  <2>2. /\ r.cmd \in {"write", "truncate"}
        /\ r.cmd = "truncate" => r.n \in Int
        /\ r.cmd = "write" => r.b \in Seq(Byte)
    BY <2>1
  <2> QED BY <2>2 DEF FileCmds, Cmds, NoReq
<1>5. CASE r \in [cmd : {"unlock", "close", "unlink_all"}]
  BY <1>5 DEF GroupCmds, Cmds, NoReq
<1>6. CASE r \in [cmd : {"open"}, mode : {"rb+", "wb+"}]
  BY <1>6 DEF Cmds, NoReq
<1>7. CASE r \in [cmd : {"add_group", "unlink_group"}, name : Names]
  BY <1>7 DEF GroupCmds, Cmds, NoReq
<1> QED BY <1>1, <1>2, <1>3, <1>4, <1>5, <1>6, <1>7 DEF Request

LEMMA ResponseParts ==
  ASSUME NEW r \in Response
  PROVE  /\ r.cmd \in Cmds \cup {"none"}
         /\ r.cmd = "none" <=> r = NoReq
         /\ r # NoReq => r.ok \in BOOLEAN /\ r.ret \in Int \cup Seq(Byte)
<1>1. CASE r = NoReq
  BY <1>1 DEF NoReq
<1>2. CASE r \in [cmd : Cmds, ok : BOOLEAN, ret : Int \cup Seq(Byte)]
  <2>1. "none" \notin Cmds
    BY DEF Cmds, LockCmds, FileCmds, GroupCmds
  <2> QED BY <1>2, <2>1 DEF NoReq
<1> QED BY <1>1, <1>2 DEF Response

LEMMA GroupNames ==
  ASSUME NEW p \in Groups
  PROVE  p \in Paths /\ p \in Seq(STRING) /\ Len(p) \in Nat /\ Len(p) >= 1 /\ p[Len(p)] \in Names
<1>1. p \in Paths /\ p # << >> /\ p \in Seq(STRING)
  BY PathsAssumption DEF Groups
<1>2. Len(p) \in Nat /\ Len(p) # 0
  BY <1>1
<1> QED BY <1>1, <1>2 DEF Names

\* What the file object answers, whatever the request.
LEMMA Executed ==
  ASSUME NEW f, FileType(f), NEW r \in Request, r.cmd \in FileCmds
  PROVE  Works(f, r.cmd, Execute(f, r))
<1>1. CASE r.cmd = "read"
  BY <1>1, RequestParts, ReadRight, ReadsWork DEF Execute
<1>2. CASE r.cmd = "readline"
  BY <1>2, RequestParts, ReadLineRight, ReadsWork DEF Execute
<1>3. CASE r.cmd = "readlines"
  BY <1>3, RequestParts, ReadLinesRight, ReadsWork DEF Execute
<1>4. CASE r.cmd = "seek"
  BY <1>4, RequestParts, SeekWorks DEF Execute
<1>5. CASE r.cmd = "truncate"
  BY <1>5, RequestParts, TruncateWorks DEF Execute
<1>6. CASE r.cmd = "write"
  BY <1>6, RequestParts, WriteWorks DEF Execute
<1>7. CASE r.cmd = "flush"
  BY <1>7, TellWorks DEF Execute
<1> QED BY <1>1, <1>2, <1>3, <1>4, <1>5, <1>6, <1>7 DEF FileCmds

LEMMA FlushedType ==
  ASSUME NEW key \in Seq(Byte), NEW fp \in Fp
  PROVE  /\ Flushed(key, fp) \in Seq(Byte)
         /\ fp.dirty = << >> => Flushed(key, fp) = key
<1>1. CASE fp.dirty = << >>
  BY <1>1 DEF Flushed
<1>2. CASE fp.dirty # << >>
  <2>1. fp.dirty \in Nat \X Seq(Byte)
    BY <1>2 DEF Fp
  <2>2. fp.dirty[1] \in Nat /\ fp.dirty[2] \in Seq(Byte)
    BY <2>1
  <2> DEFINE f == [buf |-> key, idx |-> fp.dirty[1]]
  <2>3. FileType(f)
    BY <2>2 DEF FileType
  <2>4. Flushed(key, fp) = Write(f, fp.dirty[2]).f.buf
    BY <1>2 DEF Flushed
  <2> HIDE DEF f
  <2>5. Works(f, "write", Write(f, fp.dirty[2]))
    BY <2>2, <2>3, WriteWorks
  <2>6. FileType(Write(f, fp.dirty[2]).f)
    BY <2>5 DEF Works
  <2> QED BY <1>2, <2>4, <2>6 DEF FileType
<1> QED BY <1>1, <1>2

-----------------------------------------------------------------------------
(* Groups *)

\* What add_group and get_group_files may do to the backends: new ones, in
\* group tables that named none, and nothing else.
Grown(bs, new) ==
  /\ Backends(new) /\ Len(new) >= Len(bs)
  /\ \A b \in 1..Len(bs) :
        /\ new[b].key = bs[b].key /\ new[b].readers = bs[b].readers
        /\ new[b].writer = bs[b].writer /\ new[b].wcnt = bs[b].wcnt
        /\ \A n \in Names : bs[b].groups[n] # 0 => new[b].groups[n] = bs[b].groups[n]
  /\ \A b \in (Len(bs) + 1)..Len(new) : new[b].readers = 0 /\ new[b].writer = Nobody /\ new[b].wcnt = 0

LEMMA BackendsAre ==
  ASSUME NEW bs, Backends(bs)
  PROVE  /\ Len(bs) \in Nat /\ Len(bs) >= 1 /\ DOMAIN bs = 1..Len(bs)
         /\ \A b \in 1..Len(bs) : bs[b] \in Backend /\ bs[b].groups \in [Names -> 0..Len(bs)]
<1>1. bs \in Seq(Backend) /\ Len(bs) \in Nat /\ DOMAIN bs = 1..Len(bs)
  BY DEF Backends
<1>2. ASSUME NEW b \in 1..Len(bs) PROVE bs[b] \in Backend
  BY <1>1
<1>3. ASSUME NEW b \in 1..Len(bs) PROVE bs[b].groups \in [Names -> 0..Len(bs)]
  <2>1. bs[b].groups \in [Names -> Nat]
    BY <1>2 DEF Backend
  <2>2. \A n \in Names : bs[b].groups[n] <= Len(bs)
    BY <1>1 DEF Backends
  <2> QED BY <1>1, <2>1, <2>2
<1> QED BY <1>1, <1>2, <1>3 DEF Backends

LEMMA NewBackendType == NewBackend \in Backend
<1>1. << >> \in Seq(Byte)
  OBVIOUS
<1>2. [n \in Names |-> 0] \in [Names -> Nat]
  OBVIOUS
<1> QED BY <1>1, <1>2 DEF NewBackend, Backend

LEMMA GrownSame ==
  ASSUME NEW bs, Backends(bs)
  PROVE  Grown(bs, bs)
BY BackendsAre DEF Grown

LEMMA GrownTwice ==
  ASSUME NEW x, NEW y, NEW z, Backends(x), Grown(x, y), Grown(y, z)
  PROVE  Grown(x, z)
<1>1. Backends(y) /\ Backends(z) /\ Len(x) \in Nat /\ Len(y) \in Nat /\ Len(z) \in Nat
  BY BackendsAre DEF Grown
<1>2. Len(z) >= Len(x) /\ Len(y) >= Len(x) /\ Len(z) >= Len(y)
  BY <1>1 DEF Grown
<1>3. ASSUME NEW b \in 1..Len(x)
      PROVE  /\ z[b].key = x[b].key /\ z[b].readers = x[b].readers
             /\ z[b].writer = x[b].writer /\ z[b].wcnt = x[b].wcnt
             /\ \A n \in Names : x[b].groups[n] # 0 => z[b].groups[n] = x[b].groups[n]
  <2>1. b \in 1..Len(y)
    BY <1>1, <1>2
  <2>2. \A n \in Names : x[b].groups[n] # 0 => y[b].groups[n] = x[b].groups[n]
    BY DEF Grown
  <2>3. \A n \in Names : y[b].groups[n] # 0 => z[b].groups[n] = y[b].groups[n]
    BY <2>1 DEF Grown
  <2>4. /\ y[b].key = x[b].key /\ y[b].readers = x[b].readers
        /\ y[b].writer = x[b].writer /\ y[b].wcnt = x[b].wcnt
    BY DEF Grown
  <2>5. /\ z[b].key = y[b].key /\ z[b].readers = y[b].readers
        /\ z[b].writer = y[b].writer /\ z[b].wcnt = y[b].wcnt
    BY <2>1 DEF Grown
  <2> QED BY <2>2, <2>3, <2>4, <2>5
<1>4. ASSUME NEW b \in (Len(x) + 1)..Len(z)
      PROVE  z[b].readers = 0 /\ z[b].writer = Nobody /\ z[b].wcnt = 0
  <2>1. CASE b \in 1..Len(y)
    <3>1. b \in (Len(x) + 1)..Len(y)
      BY <1>1, <2>1
    <3> QED BY <2>1, <3>1 DEF Grown
  <2>2. CASE b \in (Len(y) + 1)..Len(z)
    BY <2>2 DEF Grown
  <2> QED BY <1>1, <2>1, <2>2
<1> QED BY <1>1, <1>2, <1>3, <1>4 DEF Grown

LEMMA AppendIs ==
  ASSUME NEW S, NEW s \in Seq(S), NEW x \in S
  PROVE  /\ Append(s, x) \in Seq(S) /\ Len(Append(s, x)) = Len(s) + 1
         /\ \A i \in 1..Len(s) : Append(s, x)[i] = s[i]
         /\ Append(s, x)[Len(s) + 1] = x
OBVIOUS

LEMMA PutIs ==
  ASSUME NEW S, NEW s \in Seq(S), NEW i \in 1..Len(s), NEW x \in S
  PROVE  /\ [s EXCEPT ![i] = x] \in Seq(S) /\ Len([s EXCEPT ![i] = x]) = Len(s)
         /\ [s EXCEPT ![i] = x][i] = x
         /\ \A j \in 1..Len(s) : j # i => [s EXCEPT ![i] = x][j] = s[j]
OBVIOUS

LEMMA GroupsPut ==
  ASSUME NEW B \in Backend, NEW g \in [Names -> Nat]
  PROVE  /\ [B EXCEPT !.groups = g] \in Backend
         /\ [B EXCEPT !.groups = g].key = B.key /\ [B EXCEPT !.groups = g].readers = B.readers
         /\ [B EXCEPT !.groups = g].writer = B.writer /\ [B EXCEPT !.groups = g].wcnt = B.wcnt
         /\ [B EXCEPT !.groups = g].groups = g
BY DEF Backend

\* add_group of a backend.
LEMMA WithGroupIs ==
  ASSUME NEW bs, Backends(bs), NEW b \in 1..Len(bs), NEW name \in Names
  PROVE  /\ Grown(bs, WithGroup(bs, b, name).bs)
         /\ WithGroup(bs, b, name).b \in 1..Len(WithGroup(bs, b, name).bs)
         /\ WithGroup(bs, b, name).bs[b].groups[name] = WithGroup(bs, b, name).b
         /\ bs[b].groups[name] # 0 => WithGroup(bs, b, name).b = bs[b].groups[name]
         /\ \A i \in 1..Len(bs), n \in Names :
               i # b \/ n # name => WithGroup(bs, b, name).bs[i].groups[n] = bs[i].groups[n]
<1> DEFINE w == WithGroup(bs, b, name)
<1>1. /\ Len(bs) \in Nat /\ Len(bs) >= 1 /\ bs \in Seq(Backend)
      /\ \A i \in 1..Len(bs) : bs[i] \in Backend /\ bs[i].groups \in [Names -> 0..Len(bs)]
  BY BackendsAre DEF Backends
<1>2. CASE bs[b].groups[name] # 0
  <2>1. w.bs = bs /\ w.b = bs[b].groups[name]
    BY <1>2 DEF WithGroup
  <2>2. bs[b].groups[name] \in 1..Len(bs)
    BY <1>1, <1>2
  <2> HIDE DEF w
  <2>3. Grown(bs, w.bs)
    BY <2>1, GrownSame
  <2> QED BY <1>2, <2>1, <2>2, <2>3 DEF w
<1>3. CASE bs[b].groups[name] = 0
  <2> DEFINE old == [bs EXCEPT ![b].groups[name] = Len(bs) + 1]
             new == Append(old, NewBackend)
  <2>1. w.bs = new /\ w.b = Len(bs) + 1
    BY <1>3 DEF WithGroup
  <2> DEFINE g == [bs[b].groups EXCEPT ![name] = Len(bs) + 1]
             B == [bs[b] EXCEPT !.groups = g]
  <2>2. bs[b] \in Backend /\ bs[b].groups \in [Names -> 0..Len(bs)]
    BY <1>1
  <2>3. /\ g \in [Names -> Nat] /\ g[name] = Len(bs) + 1
        /\ \A n \in Names : g[n] <= Len(bs) + 1 /\ (n # name => g[n] = bs[b].groups[n])
    BY <1>1, <2>2
  <2> HIDE DEF g
  <2>4. /\ B \in Backend /\ B.key = bs[b].key /\ B.readers = bs[b].readers
        /\ B.writer = bs[b].writer /\ B.wcnt = bs[b].wcnt /\ B.groups = g
    BY <2>2, <2>3, GroupsPut
  <2>5. old = [bs EXCEPT ![b] = B]
    BY DEF g
  <2> HIDE DEF B, old
  <2>6. /\ old \in Seq(Backend) /\ Len(old) = Len(bs) /\ old[b] = B
        /\ \A i \in 1..Len(bs) : i # b => old[i] = bs[i]
    BY <1>1, <2>4, <2>5, PutIs
  <2>7. /\ new \in Seq(Backend) /\ Len(new) = Len(bs) + 1
        /\ \A i \in 1..Len(bs) : new[i] = old[i]
        /\ new[Len(bs) + 1] = NewBackend
    <3>1. /\ new \in Seq(Backend) /\ Len(new) = Len(old) + 1
          /\ \A i \in 1..Len(old) : new[i] = old[i]
          /\ new[Len(old) + 1] = NewBackend
      BY <2>6, NewBackendType, AppendIs
    <3> QED BY <2>6, <3>1
  <2> HIDE DEF new
  <2>8. ASSUME NEW i \in 1..Len(new), NEW n \in Names
        PROVE  new[i].groups[n] <= Len(new)
    <3>1. CASE i = b
      <4>1. new[i].groups = g
        BY <2>4, <2>6, <2>7, <3>1
      <4> QED BY <2>3, <2>7, <4>1
    <3>2. CASE i \in 1..Len(bs) /\ i # b
      <4>1. new[i].groups = bs[i].groups /\ bs[i].groups[n] \in 0..Len(bs)
        BY <1>1, <2>6, <2>7, <3>2
      <4> QED BY <1>1, <2>7, <4>1
    <3>3. CASE i = Len(bs) + 1
      BY <1>1, <2>7, <3>3 DEF NewBackend
    <3> QED BY <1>1, <2>7, <3>1, <3>2, <3>3
  <2>9. Backends(new)
    BY <1>1, <2>7, <2>8 DEF Backends
  <2>10. ASSUME NEW i \in 1..Len(bs)
         PROVE  /\ new[i].key = bs[i].key /\ new[i].readers = bs[i].readers
                /\ new[i].writer = bs[i].writer /\ new[i].wcnt = bs[i].wcnt
                /\ \A n \in Names : bs[i].groups[n] # 0 => new[i].groups[n] = bs[i].groups[n]
                /\ \A n \in Names : i # b \/ n # name => new[i].groups[n] = bs[i].groups[n]
    <3>1. CASE i = b
      <4>1. new[i] = B
        BY <2>6, <2>7, <3>1
      <4> QED BY <1>3, <2>3, <2>4, <3>1, <4>1
    <3>2. CASE i # b
      <4>1. new[i] = bs[i]
        BY <2>6, <2>7, <3>2
      <4> QED BY <4>1
    <3> QED BY <3>1, <3>2
  <2>11. \A i \in (Len(bs) + 1)..Len(new) : new[i].readers = 0 /\ new[i].writer = Nobody /\ new[i].wcnt = 0
    <3>1. \A i \in (Len(bs) + 1)..Len(new) : i = Len(bs) + 1
      BY <1>1, <2>7
    <3> QED BY <2>7, <3>1 DEF NewBackend
  <2>12. Grown(bs, new)
    BY <1>1, <2>7, <2>11, <2>9, <2>10 DEF Grown
  <2>13. new[b].groups[name] = Len(bs) + 1
    BY <1>1, <2>3, <2>4, <2>6, <2>7
  <2> HIDE DEF w
  <2> QED BY <1>1, <1>3, <2>1, <2>7, <2>12, <2>13, <2>10 DEF w
<1> QED BY <1>2, <1>3

\* One segment of get_group_files.
StepGood(s) ==
  /\ s = [bs |-> s.bs, b |-> s.b, files |-> s.files, islive |-> s.islive] /\ s.islive \in BOOLEAN
  /\ Grown(backend, s.bs) /\ s.b \in 1..Len(s.bs) /\ s.files \in [Groups -> 0..Len(s.bs)]

LEMMA GroupStepRight ==
  ASSUME Typed, NEW s, StepGood(s), NEW p \in Groups
  PROVE  StepGood(GroupStep(s, p))
<1> DEFINE name == p[Len(p)]
           w == WithGroup(s.bs, s.b, name)
           r == GroupStep(s, p)
<1>1. /\ Backends(backend) /\ Backends(s.bs) /\ Len(backend) \in Nat /\ Len(s.bs) \in Nat
      /\ Len(s.bs) >= Len(backend)
  BY BackendsAre DEF Typed, StepGood, Grown
<1>2. /\ name \in Names /\ Grown(backend, s.bs) /\ s.b \in 1..Len(s.bs)
      /\ s.files \in [Groups -> 0..Len(s.bs)] /\ live \in [Groups -> 0..Len(backend)]
      /\ s = [bs |-> s.bs, b |-> s.b, files |-> s.files, islive |-> s.islive] /\ s.islive \in BOOLEAN
  BY GroupNames DEF Typed, StepGood
<1>3. Grown(s.bs, w.bs) /\ w.b \in 1..Len(w.bs)
  BY <1>1, <1>2, WithGroupIs
<1>4. Grown(backend, w.bs)
  BY <1>1, <1>2, <1>3, GrownTwice
<1>5. Len(w.bs) \in Nat /\ Len(w.bs) >= Len(s.bs)
  BY <1>1, <1>3, BackendsAre DEF Grown
<1>6. r = IF s.islive /\ live[p] # 0 THEN [s EXCEPT !.b = live[p], !.files[p] = live[p]]
          ELSE IF s.files[p] # 0 THEN [s EXCEPT !.b = s.files[p], !.islive = FALSE]
          ELSE [bs |-> w.bs, b |-> w.b, files |-> [s.files EXCEPT ![p] = w.b], islive |-> FALSE]
  BY DEF GroupStep
<1> HIDE DEF w, r, name
<1>7. CASE s.islive /\ live[p] # 0
  <2> DEFINE fs == [s.files EXCEPT ![p] = live[p]]
  <2>1. live[p] \in 1..Len(s.bs)
    BY <1>1, <1>2, <1>7
  <2>2. fs \in [Groups -> 0..Len(s.bs)]
    BY <1>1, <1>2, <2>1
  <2>3. r = [s EXCEPT !.b = live[p], !.files = fs]
    BY <1>6, <1>7
  <2> HIDE DEF fs
  <2>4. r = [bs |-> s.bs, b |-> live[p], files |-> fs, islive |-> s.islive]
    BY <1>2, <2>3
  <2> QED BY <1>2, <2>1, <2>2, <2>4 DEF StepGood, r
<1>8. CASE ~(s.islive /\ live[p] # 0) /\ s.files[p] # 0
  <2>1. s.files[p] \in 1..Len(s.bs)
    BY <1>1, <1>2, <1>8
  <2>2. r = [bs |-> s.bs, b |-> s.files[p], files |-> s.files, islive |-> FALSE]
    BY <1>2, <1>6, <1>8
  <2> QED BY <1>2, <2>1, <2>2 DEF StepGood, r
<1>9. CASE ~(s.islive /\ live[p] # 0) /\ s.files[p] = 0
  <2> DEFINE fs == [s.files EXCEPT ![p] = w.b]
  <2>1. fs \in [Groups -> 0..Len(w.bs)]
    BY <1>1, <1>2, <1>3, <1>5
  <2>2. r = [bs |-> w.bs, b |-> w.b, files |-> fs, islive |-> FALSE]
    BY <1>6, <1>9
  <2> HIDE DEF fs
  <2> QED BY <1>3, <1>4, <2>1, <2>2 DEF StepGood, r
<1> QED BY <1>7, <1>8, <1>9

Start == [bs |-> backend, b |-> Root, files |-> files, islive |-> TRUE]
WalkTo(f, path, n) == f = [i \in 0..n |-> IF i = 0 THEN Start ELSE GroupStep(f[i - 1], SubSeq(path, 1, i))]

\* The recursive definition has a solution.
LEMMA WalkExists ==
  ASSUME NEW path, NEW n \in Nat
  PROVE  \E f : WalkTo(f, path, n)
<1> DEFINE T == {i \in Nat : ~ \E f : WalkTo(f, path, i)}
<1>1. SUFFICES ASSUME T # {} PROVE FALSE
  OBVIOUS
<1>2. T \subseteq Nat
  OBVIOUS
<1>3. PICK m \in T : \A j \in T : m <= j
  BY <1>1, <1>2, SmallestIs
<1>4. CASE m = 0
  <2> DEFINE f == [i \in 0..0 |-> Start]
  <2>1. f = [i \in 0..0 |-> IF i = 0 THEN Start ELSE GroupStep(f[i - 1], SubSeq(path, 1, i))]
    OBVIOUS
  <2>2. WalkTo(f, path, 0)
    BY <2>1 DEF WalkTo
  <2> QED BY <1>3, <1>4, <2>2
<1>5. CASE m # 0
  <2>1. m \in Nat /\ m - 1 \in Nat /\ m - 1 \notin T
    BY <1>3, <1>5
  <2>2. PICK f : WalkTo(f, path, m - 1)
    BY <2>1
  <2> DEFINE g == [i \in 0..m |-> IF i = 0 THEN Start ELSE GroupStep(f[i - 1], SubSeq(path, 1, i))]
  <2>3. ASSUME NEW i \in 0..(m - 1) PROVE g[i] = f[i]
    <3>1. f[i] = IF i = 0 THEN Start ELSE GroupStep(f[i - 1], SubSeq(path, 1, i))
      BY <2>2 DEF WalkTo
    <3> QED BY <2>1, <3>1
  <2>4. ASSUME NEW i \in 0..m, i # 0
        PROVE  g[i] = GroupStep(g[i - 1], SubSeq(path, 1, i))
    <3>1. i - 1 \in 0..(m - 1)
      BY <2>1, <2>4
    <3>2. g[i - 1] = f[i - 1]
      BY <2>3, <3>1
    <3>3. g[i] = GroupStep(f[i - 1], SubSeq(path, 1, i))
      BY <2>4
    <3> QED BY <3>2, <3>3
  <2>5. g[0] = Start
    BY <2>1
  <2>6. g = [i \in 0..m |-> g[i]]
    OBVIOUS
  <2> HIDE DEF g
  <2>7. WalkTo(g, path, m)
    BY <2>4, <2>5, <2>6 DEF WalkTo
  <2> QED BY <1>3, <2>7
<1> QED BY <1>4, <1>5

\* ... and the group is found where it leads.
LEMMA WalkIs ==
  ASSUME NEW path, Len(path) \in Nat
  PROVE  \E f : WalkTo(f, path, Len(path)) /\ GetGroupFiles(path) = f[Len(path)]
<1> DEFINE f == CHOOSE f : WalkTo(f, path, Len(path))
<1>1. WalkTo(f, path, Len(path))
  BY WalkExists
<1>2. GetGroupFiles(path) = f[Len(path)]
  BY DEF GetGroupFiles, WalkTo, Start
<1> QED BY <1>1, <1>2

LEMMA PrefixOf ==
  ASSUME NEW path \in Paths, NEW i \in 1..Len(path)
  PROVE  SubSeq(path, 1, i) \in Groups
<1>1. path \in Seq(STRING) /\ Len(path) \in Nat
  BY PathsAssumption
<1>2. SubSeq(path, 1, i) \in Paths
  BY PathsAssumption
<1>3. Len(SubSeq(path, 1, i)) = i /\ i # 0
  BY <1>1
<1>4. SubSeq(path, 1, i) # << >>
  BY <1>3
<1> QED BY <1>2, <1>4 DEF Groups

LEMMA StartGood ==
  ASSUME Typed
  PROVE  StepGood(Start)
<1>1. Len(backend) \in Nat /\ Len(backend) >= 1 /\ Grown(backend, backend)
  BY BackendsAre, GrownSame DEF Typed
<1> QED BY <1>1 DEF Typed, StepGood, Start, Root

LEMMA Resolved ==
  ASSUME Typed, NEW path \in Paths
  PROVE  StepGood(GetGroupFiles(path))
<1>1. path \in Seq(STRING) /\ Len(path) \in Nat
  BY PathsAssumption
<1>2. PICK f : WalkTo(f, path, Len(path)) /\ GetGroupFiles(path) = f[Len(path)]
  BY <1>1, WalkIs
<1>3. f[0] = Start /\ \A i \in 1..Len(path) : f[i] = GroupStep(f[i - 1], SubSeq(path, 1, i))
  BY <1>1, <1>2 DEF WalkTo
<1> DEFINE T == {i \in 0..Len(path) : ~ StepGood(f[i])}
<1>4. ASSUME T # {} PROVE FALSE
  <2>1. T \subseteq Nat
    BY <1>1
  <2>2. PICK m \in T : \A j \in T : m <= j
    BY <1>4, <2>1, SmallestIs
  <2>3. m # 0
    BY <1>3, <2>2, StartGood
  <2>4. m \in 1..Len(path) /\ m - 1 \in 0..Len(path) /\ ~(m <= m - 1)
    BY <1>1, <2>2, <2>3
  <2>5. StepGood(f[m - 1])
    BY <2>2, <2>4
  <2>6. SubSeq(path, 1, m) \in Groups
    BY <2>4, PrefixOf
  <2> QED BY <1>3, <2>2, <2>4, <2>5, <2>6, GroupStepRight
<1>5. Len(path) \notin T
  BY <1>4
<1> QED BY <1>1, <1>2, <1>5

-----------------------------------------------------------------------------
(* Locks *)

\* The connections that have a lock of backend b.
Holders(b) == {c \in Clients : conn[c].backend = b /\ conn[c].lockers > 0}

LocksRight(b) ==
  /\ backend[b].wcnt = IF backend[b].writer = Nobody THEN 0 ELSE 1
  /\ backend[b].writer = Nobody => backend[b].readers = Cardinality(Holders(b))
  /\ backend[b].writer # Nobody => backend[b].readers = 0 /\ Holders(b) = {backend[b].writer}

AllLocksRight == \A b \in 1..Len(backend) : LocksRight(b)

\* The lock that the server keeps for a connection.
Has(c) == IF conn[c].lockers = 0 THEN "un" ELSE IF backend[conn[c].backend].writer = c THEN "w" ELSE "r"

Held == \A c \in Clients : conn[c].lockers > 0 => conn[c].backend # 0

\* Two clients that have locks of one backend are both readers.
LEMMA HoldersExclude ==
  ASSUME Typed, AllLocksRight, Held, NEW c \in Clients, NEW d \in Clients, c # d,
         conn[c].backend = conn[d].backend, Has(c) = "w"
  PROVE  Has(d) = "un"
<1> DEFINE b == conn[c].backend
<1>1. /\ conn[c] \in Connection /\ conn[d] \in Connection /\ Len(backend) \in Nat
      /\ b <= Len(backend)
  BY BackendsAre DEF Typed
<1>2. conn[c].lockers > 0 /\ backend[b].writer = c /\ conn[c].lockers \in 0..1 /\ conn[d].lockers \in 0..1
  BY <1>1 DEF Has, Connection
<1>3. b \in 1..Len(backend)
  BY <1>1, <1>2 DEF Held, Connection
<1>4. c # Nobody
  BY ClientsAssumption
<1>5. Holders(b) = {c}
  BY <1>2, <1>3, <1>4 DEF AllLocksRight, LocksRight
<1>6. d \notin Holders(b)
  BY <1>5
<1> QED BY <1>2, <1>6 DEF Holders, Has

\* A step that moves no lock.
NoLockMoved ==
  /\ Len(backend') >= Len(backend)
  /\ \A b \in 1..Len(backend) :
        backend'[b].readers = backend[b].readers /\ backend'[b].writer = backend[b].writer
        /\ backend'[b].wcnt = backend[b].wcnt
  /\ \A b \in (Len(backend) + 1)..Len(backend') :
        backend'[b].readers = 0 /\ backend'[b].writer = Nobody /\ backend'[b].wcnt = 0
  /\ \A c \in Clients :
        /\ conn'[c].lockers = conn[c].lockers
        /\ conn[c].lockers > 0 => conn'[c].backend = conn[c].backend

LEMMA LocksStay ==
  ASSUME Typed, Typed', AllLocksRight, Held, NoLockMoved
  PROVE  AllLocksRight' /\ Held' /\ \A c \in Clients : Has(c)' = Has(c)
<1>1. Len(backend) \in Nat /\ Len(backend') \in Nat /\ Len(backend') >= Len(backend)
  BY BackendsAre DEF Typed, NoLockMoved
<1>2. \A c \in Clients : conn[c].backend \in 0..Len(backend) /\ conn[c].lockers \in 0..1
  BY <1>1 DEF Typed, Connection
<1>3. Held'
  BY DEF Held, NoLockMoved
<1>4. ASSUME NEW c \in Clients PROVE Has(c)' = Has(c)
  <2>1. CASE conn[c].lockers = 0
    BY <2>1 DEF Has, NoLockMoved
  <2>2. CASE conn[c].lockers # 0
    <3>1. conn[c].lockers > 0 /\ conn[c].backend \in 1..Len(backend)
      BY <1>2, <2>2 DEF Held
    <3> QED BY <3>1 DEF Has, NoLockMoved
  <2> QED BY <2>1, <2>2
<1>5. ASSUME NEW b \in 1..Len(backend) PROVE LocksRight(b)'
  <2>1. Holders(b)' = Holders(b)
    BY <1>2, <1>5 DEF Holders, NoLockMoved, Held
  <2>2. LocksRight(b)
    BY DEF AllLocksRight
  <2> QED BY <2>1, <2>2 DEF LocksRight, NoLockMoved
<1>6. ASSUME NEW b \in (Len(backend) + 1)..Len(backend') PROVE LocksRight(b)'
  <2>1. Holders(b)' = {}
    BY <1>1, <1>2, <1>6 DEF Holders, NoLockMoved
  <2>2. Cardinality(Holders(b)') = 0
    BY <2>1, FS_EmptySet
  <2> QED BY <2>2 DEF LocksRight, NoLockMoved
<1>7. AllLocksRight'
  BY <1>1, <1>5, <1>6 DEF AllLocksRight
<1> QED BY <1>3, <1>4, <1>7

\* A step of connection c that changes the lock counters of its backend.
MovesLock(c, b) ==
  /\ b \in 1..Len(backend) /\ conn[c].backend = b /\ conn'[c].backend = b
  /\ Len(backend') = Len(backend)
  /\ \A i \in 1..Len(backend) : i # b =>
        backend'[i].readers = backend[i].readers /\ backend'[i].writer = backend[i].writer
        /\ backend'[i].wcnt = backend[i].wcnt
  /\ \A d \in Clients : d # c =>
        /\ conn'[d].lockers = conn[d].lockers /\ conn'[d].backend = conn[d].backend
        /\ backend'[b].writer = d <=> backend[b].writer = d

LEMMA LocksMove ==
  ASSUME Typed, Typed', AllLocksRight, Held, NEW c \in Clients, NEW b, MovesLock(c, b), LocksRight(b)'
  PROVE  AllLocksRight' /\ Held' /\ \A d \in Clients : d # c => Has(d)' = Has(d)
<1>1. Len(backend) \in Nat /\ Len(backend') = Len(backend) /\ b \in 1..Len(backend)
  BY BackendsAre DEF Typed, MovesLock
<1>2. ASSUME NEW i \in 1..Len(backend), i # b PROVE LocksRight(i)'
  <2>1. Holders(i)' = Holders(i)
    BY <1>2 DEF Holders, MovesLock
  <2>2. LocksRight(i)
    BY DEF AllLocksRight
  <2> QED BY <1>2, <2>1, <2>2 DEF LocksRight, MovesLock
<1>3. AllLocksRight'
  BY <1>1, <1>2 DEF AllLocksRight
<1>4. Held'
  BY <1>1 DEF Held, MovesLock
<1>5. ASSUME NEW d \in Clients, d # c PROVE Has(d)' = Has(d)
  <2>1. conn'[d].lockers = conn[d].lockers /\ conn'[d].backend = conn[d].backend
    BY <1>5 DEF MovesLock
  <2>2. conn[d].lockers # 0 => conn[d].backend \in 1..Len(backend)
    BY <1>1 DEF Typed, Connection, Held
  <2>3. conn[d].lockers # 0 =>
            (backend'[conn[d].backend].writer = d <=> backend[conn[d].backend].writer = d)
    BY <1>1, <1>5, <2>2 DEF MovesLock
  <2> QED BY <2>1, <2>3 DEF Has
<1> QED BY <1>3, <1>4, <1>5

\* A backend with new lock fields, and one backend put in the place of another.
WithReaders(B, r) == [B EXCEPT !.readers = r]
WithWriter(B, w, k) == [B EXCEPT !.writer = w, !.wcnt = k]
Put(bs, b, B) == [bs EXCEPT ![b] = B]

LEMMA ReadersPut ==
  ASSUME NEW B \in Backend, NEW r \in Nat
  PROVE  /\ WithReaders(B, r) \in Backend /\ WithReaders(B, r).readers = r
         /\ WithReaders(B, r).writer = B.writer /\ WithReaders(B, r).wcnt = B.wcnt
         /\ WithReaders(B, r).key = B.key /\ WithReaders(B, r).groups = B.groups
BY DEF Backend, WithReaders

LEMMA WriterPut ==
  ASSUME NEW B \in Backend, NEW w \in Clients \cup {Nobody}, NEW k \in 0..1
  PROVE  /\ WithWriter(B, w, k) \in Backend /\ WithWriter(B, w, k).readers = B.readers
         /\ WithWriter(B, w, k).writer = w /\ WithWriter(B, w, k).wcnt = k
         /\ WithWriter(B, w, k).key = B.key /\ WithWriter(B, w, k).groups = B.groups
BY DEF Backend, WithWriter

LEMMA BackendPut ==
  ASSUME NEW bs, Backends(bs), NEW b \in 1..Len(bs), NEW B \in Backend, B.groups = bs[b].groups
  PROVE  /\ Backends(Put(bs, b, B)) /\ Len(Put(bs, b, B)) = Len(bs) /\ Put(bs, b, B)[b] = B
         /\ \A i \in 1..Len(bs) : i # b => Put(bs, b, B)[i] = bs[i]
<1> DEFINE new == Put(bs, b, B)
<1>1. /\ bs \in Seq(Backend) /\ Len(bs) \in Nat /\ Len(bs) >= 1
      /\ \A i \in 1..Len(bs) : bs[i].groups \in [Names -> 0..Len(bs)]
  BY BackendsAre DEF Backends
<1>2. /\ new \in Seq(Backend) /\ Len(new) = Len(bs) /\ new[b] = B
      /\ \A i \in 1..Len(bs) : i # b => new[i] = bs[i]
  BY <1>1, PutIs DEF Put
<1> HIDE DEF new
<1>3. ASSUME NEW i \in 1..Len(bs), NEW n \in Names PROVE new[i].groups[n] <= Len(bs)
  <2>1. new[i].groups = bs[i].groups
    BY <1>2
  <2> QED BY <1>1, <2>1
<1>4. Backends(new)
  BY <1>1, <1>2, <1>3 DEF Backends
<1> QED BY <1>2, <1>4 DEF new

\* Connection c has n locks after the step, and the other ones are as they were.
Lockers(c, n) ==
  /\ conn'[c].lockers = n /\ conn'[c].backend = conn[c].backend
  /\ \A d \in Clients : d # c => conn'[d] = conn[d]

\* What a step of connection c does when it moves its own lock.
LockMoved(c, b, has) ==
  /\ Backends(backend') /\ Len(backend') = Len(backend)
  /\ \A i \in 1..Len(backend) : backend'[i].key = backend[i].key /\ backend'[i].groups = backend[i].groups
  /\ MovesLock(c, b) /\ LocksRight(b)' /\ Has(c)' = has

LEMMA RlockGranted ==
  ASSUME Typed, AllLocksRight, NEW c \in Clients, NEW b \in 1..Len(backend),
         conn[c].backend = b, conn[c].lockers = 0, CanRlock(c, b),
         backend' = Rlocked(b), Lockers(c, 1)
  PROVE  LockMoved(c, b, "r")
<1> DEFINE B == WithReaders(backend[b], backend[b].readers + 1)
<1>1. /\ Backends(backend) /\ Len(backend) \in Nat /\ backend[b] \in Backend /\ LocksRight(b)
      /\ backend[b].readers \in Nat
  BY BackendsAre DEF Typed, AllLocksRight, Backend
<1>2. backend[b].writer = Nobody
  <2>1. c \notin Holders(b) /\ c # Nobody
    BY ClientsAssumption DEF Holders
  <2>2. backend[b].writer # c
    BY <1>1, <2>1 DEF LocksRight
  <2> QED BY <2>2 DEF CanRlock
<1>4. /\ \A d \in Clients : d # c => conn'[d] = conn[d]
      /\ conn'[c].lockers = 1 /\ conn'[c].backend = conn[c].backend
  BY DEF Lockers
<1>5. /\ B \in Backend /\ B.readers = backend[b].readers + 1 /\ B.writer = backend[b].writer
      /\ B.wcnt = backend[b].wcnt /\ B.key = backend[b].key /\ B.groups = backend[b].groups
  <2>1. backend[b].readers + 1 \in Nat
    BY <1>1
  <2> QED BY <1>1, <2>1, ReadersPut
<1>6. backend' = Put(backend, b, B)
  BY DEF Rlocked, Put, WithReaders
<1> HIDE DEF B
<1>7. /\ Backends(backend') /\ Len(backend') = Len(backend) /\ backend'[b] = B
      /\ \A i \in 1..Len(backend) : i # b => backend'[i] = backend[i]
  <2>1. /\ Backends(Put(backend, b, B)) /\ Len(Put(backend, b, B)) = Len(backend)
        /\ Put(backend, b, B)[b] = B
        /\ \A i \in 1..Len(backend) : i # b => Put(backend, b, B)[i] = backend[i]
    BY <1>1, <1>5, BackendPut
  <2> QED BY <1>6, <2>1
<1>8. MovesLock(c, b)
  BY <1>4, <1>5, <1>7 DEF MovesLock
<1>9. Holders(b)' = Holders(b) \cup {c} /\ c \notin Holders(b) /\ Holders(b) \subseteq Clients
  <2>1. c \notin Holders(b) /\ Holders(b) \subseteq Clients
    BY DEF Holders
  <2>2. ASSUME NEW d \in Clients PROVE d \in Holders(b)' <=> d \in Holders(b) \cup {c}
    <3>1. CASE d = c
      BY <1>4, <3>1 DEF Holders
    <3>2. CASE d # c
      BY <1>4, <3>2 DEF Holders
    <3> QED BY <3>1, <3>2
  <2>3. Holders(b)' \subseteq Clients
    BY DEF Holders
  <2> QED BY <2>1, <2>2, <2>3
<1>10. Cardinality(Holders(b)') = Cardinality(Holders(b)) + 1
  <2>1. IsFiniteSet(Holders(b))
    BY <1>9, ClientsAssumption, FS_Subset
  <2>2. Cardinality(Holders(b) \cup {c}) = Cardinality(Holders(b)) + 1
    BY <1>9, <2>1, FS_AddElement
  <2> QED BY <1>9, <2>2
<1>11. LocksRight(b)'
  BY <1>1, <1>2, <1>5, <1>7, <1>10 DEF LocksRight
<1>12. Has(c)' = "r"
  BY <1>2, <1>4, <1>5, <1>7, ClientsAssumption DEF Has
<1>13. \A i \in 1..Len(backend) : backend'[i].key = backend[i].key /\ backend'[i].groups = backend[i].groups
  BY <1>5, <1>7
<1> QED BY <1>7, <1>8, <1>11, <1>12, <1>13 DEF LockMoved

LEMMA WlockGranted ==
  ASSUME Typed, AllLocksRight, NEW c \in Clients, NEW b \in 1..Len(backend),
         conn[c].backend = b, conn[c].lockers = 0, CanWlock(c, b),
         backend' = Wlocked(c, b), Lockers(c, 1)
  PROVE  LockMoved(c, b, "w")
<1> DEFINE B == WithWriter(backend[b], c, 1)
<1>1. /\ Backends(backend) /\ Len(backend) \in Nat /\ backend[b] \in Backend /\ LocksRight(b)
  BY BackendsAre DEF Typed, AllLocksRight
<1>2. c # Nobody
  BY ClientsAssumption
<1>3. backend[b].writer = Nobody /\ backend[b].readers = 0 /\ backend[b].writer # c
  <2>1. c \notin Holders(b)
    BY DEF Holders
  <2>2. backend[b].writer # c
    BY <1>1, <1>2, <2>1 DEF LocksRight
  <2> QED BY <2>2 DEF CanWlock
<1>5. /\ \A d \in Clients : d # c => conn'[d] = conn[d]
      /\ conn'[c].lockers = 1 /\ conn'[c].backend = conn[c].backend
  BY DEF Lockers
<1>6. /\ B \in Backend /\ B.readers = backend[b].readers /\ B.writer = c
      /\ B.wcnt = 1 /\ B.key = backend[b].key /\ B.groups = backend[b].groups
  BY <1>1, WriterPut
<1>7. backend' = Put(backend, b, B)
  <2>1. backend' = [backend EXCEPT ![b].writer = c, ![b].wcnt = 1]
    BY <1>3 DEF Wlocked
  <2>2. backend \in Seq(Backend)
    BY <1>1 DEF Backends
  <2> QED BY <2>1, <2>2 DEF Put, WithWriter
<1> HIDE DEF B
<1>8. /\ Backends(backend') /\ Len(backend') = Len(backend) /\ backend'[b] = B
      /\ \A i \in 1..Len(backend) : i # b => backend'[i] = backend[i]
  <2>1. /\ Backends(Put(backend, b, B)) /\ Len(Put(backend, b, B)) = Len(backend)
        /\ Put(backend, b, B)[b] = B
        /\ \A i \in 1..Len(backend) : i # b => Put(backend, b, B)[i] = backend[i]
    BY <1>1, <1>6, BackendPut
  <2> QED BY <1>7, <2>1
<1>9. MovesLock(c, b)
  BY <1>3, <1>5, <1>6, <1>8, ClientsAssumption DEF MovesLock
<1>10. Holders(b)' = {c}
  <2>1. Holders(b) \subseteq Clients
    BY DEF Holders
  <2>2. IsFiniteSet(Holders(b))
    BY <2>1, ClientsAssumption, FS_Subset
  <2>3. Cardinality(Holders(b)) = 0
    BY <1>1, <1>3 DEF LocksRight
  <2>4. Holders(b) = {}
    BY <2>2, <2>3, FS_EmptySet
  <2>5. ASSUME NEW d \in Clients PROVE d \in Holders(b)' <=> d = c
    <3>1. CASE d = c
      BY <1>5, <3>1 DEF Holders
    <3>2. CASE d # c
      BY <1>5, <2>4, <3>2 DEF Holders
    <3> QED BY <3>1, <3>2
  <2>6. Holders(b)' \subseteq Clients
    BY DEF Holders
  <2> QED BY <2>5, <2>6
<1>11. LocksRight(b)'
  BY <1>2, <1>3, <1>6, <1>8, <1>10 DEF LocksRight
<1>12. Has(c)' = "w"
  BY <1>5, <1>6, <1>8 DEF Has
<1>13. \A i \in 1..Len(backend) : backend'[i].key = backend[i].key /\ backend'[i].groups = backend[i].groups
  BY <1>6, <1>8
<1> QED BY <1>8, <1>9, <1>11, <1>12, <1>13 DEF LockMoved

LEMMA LockGivenBack ==
  ASSUME Typed, AllLocksRight, Held, NEW c \in Clients, NEW b, conn[c].backend = b,
         conn[c].lockers = 1, backend' = Unlocked(c, b), Lockers(c, 0)
  PROVE  LockMoved(c, b, "un")
<1>1. /\ Backends(backend) /\ Len(backend) \in Nat /\ b \in 1..Len(backend)
  <2>1. conn[c] \in Connection /\ conn[c].backend <= Len(backend) /\ conn[c].backend # 0
    BY DEF Typed, Held
  <2> QED BY <2>1, BackendsAre DEF Typed, Connection
<1>2. backend[b] \in Backend /\ LocksRight(b) /\ backend \in Seq(Backend)
  BY <1>1, BackendsAre DEF AllLocksRight, Backends
<1>3. /\ \A d \in Clients : d # c => conn'[d] = conn[d]
      /\ conn'[c].lockers = 0 /\ conn'[c].backend = conn[c].backend
  BY DEF Lockers
<1>4. c \in Holders(b) /\ Holders(b) \subseteq Clients /\ Holders(b)' = Holders(b) \ {c} /\ c # Nobody
  <2>1. c \in Holders(b) /\ Holders(b) \subseteq Clients /\ c # Nobody
    BY ClientsAssumption DEF Holders
  <2>2. ASSUME NEW d \in Clients PROVE d \in Holders(b)' <=> d \in Holders(b) \ {c}
    <3>1. CASE d = c
      BY <1>3, <3>1 DEF Holders
    <3>2. CASE d # c
      BY <1>3, <3>2 DEF Holders
    <3> QED BY <3>1, <3>2
  <2>3. Holders(b)' \subseteq Clients
    BY DEF Holders
  <2> QED BY <2>1, <2>2, <2>3
<1>5. CASE backend[b].writer = c
  <2> DEFINE B == WithWriter(backend[b], Nobody, 0)
  <2>1. backend[b].wcnt = 1 /\ backend[b].readers = 0 /\ Holders(b) = {c}
    BY <1>2, <1>4, <1>5 DEF LocksRight
  <2>2. backend' = [backend EXCEPT ![b].wcnt = 0, ![b].writer = Nobody]
    BY <1>5, <2>1 DEF Unlocked
  <2>3. backend' = Put(backend, b, B)
    BY <1>1, <1>2, <2>2 DEF Put, WithWriter
  <2>4. /\ B \in Backend /\ B.readers = backend[b].readers /\ B.writer = Nobody
        /\ B.wcnt = 0 /\ B.key = backend[b].key /\ B.groups = backend[b].groups
    BY <1>2, WriterPut
  <2> HIDE DEF B
  <2>5. /\ Backends(backend') /\ Len(backend') = Len(backend) /\ backend'[b] = B
        /\ \A i \in 1..Len(backend) : i # b => backend'[i] = backend[i]
    <3>1. /\ Backends(Put(backend, b, B)) /\ Len(Put(backend, b, B)) = Len(backend)
          /\ Put(backend, b, B)[b] = B
          /\ \A i \in 1..Len(backend) : i # b => Put(backend, b, B)[i] = backend[i]
      BY <1>1, <2>4, BackendPut
    <3> QED BY <2>3, <3>1
  <2>6. MovesLock(c, b)
    BY <1>1, <1>3, <1>5, <2>4, <2>5, ClientsAssumption DEF MovesLock
  <2>7. Cardinality(Holders(b)') = 0
    BY <1>4, <2>1, FS_EmptySet
  <2>8. LocksRight(b)'
    BY <2>1, <2>4, <2>5, <2>7 DEF LocksRight
  <2>9. Has(c)' = "un"
    BY <1>3 DEF Has
  <2>10. \A i \in 1..Len(backend) : backend'[i].key = backend[i].key /\ backend'[i].groups = backend[i].groups
    BY <2>4, <2>5
  <2> QED BY <2>5, <2>6, <2>8, <2>9, <2>10 DEF LockMoved
<1>6. CASE backend[b].writer # c
  <2> DEFINE r == IF backend[b].readers - 1 > 0 THEN backend[b].readers - 1 ELSE 0
             B == WithReaders(backend[b], r)
  <2>1. backend[b].writer = Nobody
    BY <1>2, <1>4, <1>6 DEF LocksRight
  <2>2. IsFiniteSet(Holders(b))
    BY <1>4, ClientsAssumption, FS_Subset
  <2>3. Cardinality(Holders(b)') = Cardinality(Holders(b)) - 1 /\ Cardinality(Holders(b)) \in Nat
    BY <1>4, <2>2, FS_RemoveElement, FS_CardinalityType
  <2>4. Cardinality(Holders(b)') \in Nat
    <3>1. IsFiniteSet(Holders(b)')
      BY <1>4, <2>2, FS_RemoveElement
    <3> QED BY <3>1, FS_CardinalityType
  <2>5. r = Cardinality(Holders(b)') /\ r \in Nat
    BY <1>2, <2>1, <2>3, <2>4 DEF LocksRight
  <2>6. backend' = Put(backend, b, B)
    BY <1>6 DEF Unlocked, Put, WithReaders
  <2> HIDE DEF r
  <2>7. /\ B \in Backend /\ B.readers = r /\ B.writer = backend[b].writer
        /\ B.wcnt = backend[b].wcnt /\ B.key = backend[b].key /\ B.groups = backend[b].groups
    BY <1>2, <2>5, ReadersPut
  <2> HIDE DEF B
  <2>8. /\ Backends(backend') /\ Len(backend') = Len(backend) /\ backend'[b] = B
        /\ \A i \in 1..Len(backend) : i # b => backend'[i] = backend[i]
    <3>1. /\ Backends(Put(backend, b, B)) /\ Len(Put(backend, b, B)) = Len(backend)
          /\ Put(backend, b, B)[b] = B
          /\ \A i \in 1..Len(backend) : i # b => Put(backend, b, B)[i] = backend[i]
      BY <1>1, <2>7, BackendPut
    <3> QED BY <2>6, <3>1
  <2>9. MovesLock(c, b)
    BY <1>1, <1>3, <2>7, <2>8 DEF MovesLock
  <2>10. LocksRight(b)'
    BY <1>2, <2>1, <2>5, <2>7, <2>8 DEF LocksRight
  <2>11. Has(c)' = "un"
    BY <1>3 DEF Has
  <2>12. \A i \in 1..Len(backend) : backend'[i].key = backend[i].key /\ backend'[i].groups = backend[i].groups
    BY <2>7, <2>8
  <2> QED BY <2>8, <2>9, <2>10, <2>11, <2>12 DEF LockMoved
<1> QED BY <1>5, <1>6

-----------------------------------------------------------------------------
(* The protocol between a client and its handler *)

\* What the client will take its lock to be when the reply is in.
WillBelieve(k) ==
  IF k.rep.cmd \in LockCmds THEN IF ~k.rep.ok THEN "un" ELSE IF k.rep.cmd = "rlock" THEN "r" ELSE "w"
  ELSE IF k.rep.cmd = "unlock" THEN "un" ELSE k.lock

\* A request that is under way has the lock that it needs.
RequestRight(k, has) ==
  /\ k.req # NoReq => k.rep = NoReq
  /\ k.req.cmd \in LockCmds => has = "un"
  /\ k.req.cmd \in FileCmds \cup {"unlock", "add_group"} => has # "un"
  /\ k.req.cmd \in {"write", "truncate", "unlink_group", "unlink_all"} => has = "w"

\* The lock that the client believes in is the one the server keeps.
ClientRight(k, has) ==
  /\ ~k.up => k.rep = NoReq /\ k.lock = "un" /\ k.io = NoIo
  /\ k.up => has = WillBelieve(k)
  /\ k.up /\ (k.req.cmd \in LockCmds \/ k.rep.cmd \in LockCmds) => k.lock = "un"
  /\ k.rep.cmd = "unlock" => k.rep.ok

HandlerRight(k, h) ==
  /\ h.st \in {"ending", "done"} => ~k.up /\ k.req = NoReq /\ h.lockers = 0
  /\ h.st = "group" => k.req.cmd \in GroupCmds /\ h.backend # 0

\* The offset of the client is the position of the file object, as soon as
\* the reply is in.
Answered(k) == k.rep.cmd \in FileCmds \cup {"open"} /\ k.rep.ok
OffsetRight(k, fp) ==
  k.up =>
    /\ k.req.cmd \in FileCmds => k.io.found
    /\ Answered(k) => fp.open /\ NextOffset(k.io, k.rep.cmd, k.rep.ret) = fp.idx
    /\ k.rep.cmd # "close" /\ ~Answered(k) /\ k.io.found => fp.open /\ k.io.offset = fp.idx

PairRight(k, h, has) ==
  /\ RequestRight(k, has) /\ ClientRight(k, has) /\ HandlerRight(k, h) /\ OffsetRight(k, h.fp)
  /\ ~Buffered => h.fp.dirty = << >>

\* The client's side of a step.
Asks(k, req) == [k EXCEPT !.req = req]
Gone(k, req) == [k EXCEPT !.up = FALSE, !.req = req, !.rep = NoReq, !.lock = "un", !.io = NoIo]
Answer(k, ok, ret) ==
  [k EXCEPT !.req = NoReq, !.rep = IF k.up THEN [cmd |-> k.req.cmd, ok |-> ok, ret |-> ret] ELSE NoReq]

\* The commands of the requests that need a lock.
Allowed(k, req) ==
  /\ req.cmd \in LockCmds => k.lock = "un"
  /\ req.cmd \in FileCmds \cup {"unlock", "add_group"} => k.lock # "un"
  /\ req.cmd \in {"write", "truncate", "unlink_group", "unlink_all"} => k.lock = "w"
  /\ req.cmd \in FileCmds => k.io.found

LEMMA AsksRight ==
  ASSUME NEW k \in Client, NEW h \in Connection, NEW has, PairRight(k, h, has), NEW req \in Request,
         k.up, k.req = NoReq, k.rep = NoReq, Allowed(k, req)
  PROVE  Asks(k, req) \in Client /\ PairRight(Asks(k, req), h, has)
<1> DEFINE new == Asks(k, req)
<1>1. /\ new \in Client /\ new.req = req /\ new.rep = NoReq /\ new.up /\ new.lock = k.lock
      /\ new.io = k.io /\ new.path = k.path
  BY DEF Client, Asks
<1>2. NoReq.cmd = "none" /\ "none" \notin LockCmds \cup FileCmds \cup GroupCmds
  BY DEF NoReq, LockCmds, FileCmds, GroupCmds
<1>3. has = k.lock
  BY <1>2 DEF PairRight, ClientRight, WillBelieve
<1>4. h.st \notin {"ending", "done", "group"}
  BY <1>2 DEF PairRight, HandlerRight
<1> HIDE DEF new
<1>5. RequestRight(new, has)
  BY <1>1, <1>3 DEF RequestRight, Allowed
<1>6. ClientRight(new, has)
  BY <1>1, <1>2, <1>3 DEF ClientRight, WillBelieve, Allowed
<1>7. HandlerRight(new, h)
  BY <1>4 DEF HandlerRight
<1>8. OffsetRight(new, h.fp)
  <2>1. ~Answered(k) /\ ~Answered(new)
    BY <1>1, <1>2 DEF Answered
  <2> QED BY <1>1, <1>2, <2>1 DEF PairRight, OffsetRight, Allowed
<1> QED BY <1>1, <1>5, <1>6, <1>7, <1>8 DEF PairRight, new

LEMMA GoneRight ==
  ASSUME NEW k \in Client, NEW h \in Connection, NEW has, PairRight(k, h, has), k.up,
         NEW req \in {k.req, NoReq}, h.st # "recv" => req = k.req
  PROVE  Gone(k, req) \in Client /\ PairRight(Gone(k, req), h, has)
<1> DEFINE new == Gone(k, req)
<1>1. NoReq \in Request /\ NoReq \in Response /\ NoIo \in Io
  BY DEF Request, Response, NoIo, Io
<1>2. req \in Request
  BY <1>1 DEF Client
<1>3. /\ new \in Client /\ new.req = req /\ new.rep = NoReq /\ ~new.up /\ new.lock = "un" /\ new.io = NoIo
  BY <1>1, <1>2 DEF Client, Gone
<1>4. NoReq.cmd = "none" /\ "none" \notin LockCmds \cup FileCmds \cup GroupCmds \cup {"unlock", "add_group"}
  BY DEF NoReq, LockCmds, FileCmds, GroupCmds
<1> HIDE DEF new
<1>5. RequestRight(new, has)
  <2>1. CASE req = NoReq
    BY <1>3, <1>4, <2>1 DEF RequestRight
  <2>2. CASE req = k.req
    BY <1>3, <2>2 DEF PairRight, RequestRight
  <2> QED BY <2>1, <2>2
<1>6. ClientRight(new, has)
  BY <1>3, <1>4 DEF ClientRight
<1>7. HandlerRight(new, h)
  BY <1>3 DEF PairRight, HandlerRight
<1>8. OffsetRight(new, h.fp)
  BY <1>3 DEF OffsetRight
<1> QED BY <1>3, <1>5, <1>6, <1>7, <1>8 DEF PairRight, new

\* What the answer to a request leaves behind: the lock has2 and the file object fp2.
AnswerFits(k, fp, has, ok, ret, fp2, has2) ==
  /\ k.req.cmd \in LockCmds => has2 = IF ~ok THEN "un" ELSE IF k.req.cmd = "rlock" THEN "r" ELSE "w"
  /\ k.req.cmd = "unlock" => has2 = "un" /\ ok
  /\ k.req.cmd \notin LockCmds \cup {"unlock"} => has2 = has
  /\ k.req.cmd \in FileCmds \cup {"open"} /\ ok =>
        fp2.open /\ \A io : io.offset = fp.idx => NextOffset(io, k.req.cmd, ret) = fp2.idx
  /\ k.req.cmd \notin {"open", "close"} \/ (k.req.cmd = "open" /\ ~ok) =>
        fp2.open = fp.open /\ ((k.req.cmd \in FileCmds /\ ok) \/ fp2.idx = fp.idx)
  /\ ~Buffered => fp2.dirty = << >>

LEMMA AnswerRight ==
  ASSUME NEW k \in Client, NEW h \in Connection, NEW has, PairRight(k, h, has), k.req # NoReq,
         NEW h2 \in Connection, NEW has2, h2.st = "recv", NEW ok, ok \in BOOLEAN, NEW ret \in Int \cup Seq(Byte),
         AnswerFits(k, h.fp, has, ok, ret, h2.fp, has2)
  PROVE  Answer(k, ok, ret) \in Client /\ PairRight(Answer(k, ok, ret), h2, has2)
<1> DEFINE new == Answer(k, ok, ret)
           rep == [cmd |-> k.req.cmd, ok |-> ok, ret |-> ret]
<1>1. NoReq \in Request /\ NoReq \in Response
  BY DEF Request, Response
<1>2. k.req \in Request /\ k.req.cmd \in Cmds /\ k.rep = NoReq
  <2>1. k.req \in Request
    BY DEF Client
  <2> QED BY <2>1, RequestParts DEF PairRight, RequestRight
<1>3. rep \in Response
  BY <1>2 DEF Response
<1>4. /\ new \in Client /\ new.req = NoReq /\ new.up = k.up /\ new.lock = k.lock /\ new.io = k.io
      /\ new.rep = IF k.up THEN rep ELSE NoReq
  BY <1>1, <1>3 DEF Client, Answer
<1>5. NoReq.cmd = "none" /\ "none" \notin LockCmds \cup FileCmds \cup GroupCmds \cup {"unlock", "add_group"}
  BY DEF NoReq, LockCmds, FileCmds, GroupCmds
<1>6. rep.cmd = k.req.cmd /\ rep.ok = ok /\ rep.ret = ret
  OBVIOUS
<1> HIDE DEF new, rep
<1>7. RequestRight(new, has2)
  BY <1>4, <1>5 DEF RequestRight
<1>8. HandlerRight(new, h2)
  BY DEF HandlerRight
<1>9. CASE ~k.up
  <2>1. ~new.up /\ new.rep = NoReq /\ new.lock = "un" /\ new.io = NoIo
    BY <1>4, <1>9 DEF PairRight, ClientRight
  <2>2. ClientRight(new, has2)
    BY <1>4, <1>5, <2>1 DEF ClientRight
  <2>3. OffsetRight(new, h2.fp)
    BY <2>1 DEF OffsetRight
  <2> QED BY <1>4, <1>7, <1>8, <2>2, <2>3 DEF PairRight, AnswerFits, new
<1>10. CASE k.up
  <2>1. new.up /\ new.rep = rep
    BY <1>4, <1>10
  <2>2. has = k.lock
    BY <1>2, <1>5, <1>10 DEF PairRight, ClientRight, WillBelieve
  <2>3. k.req.cmd \in LockCmds => k.lock = "un"
    BY <1>10 DEF PairRight, ClientRight
  <2>4. has2 = WillBelieve(new)
    BY <1>4, <1>6, <2>1, <2>2 DEF AnswerFits, WillBelieve
  <2>5. ClientRight(new, has2)
    BY <1>4, <1>5, <1>6, <2>1, <2>3, <2>4 DEF ClientRight, AnswerFits, LockCmds
  <2>6. ~Answered(k) /\ k.rep.cmd # "close"
    BY <1>2, <1>5 DEF Answered, NoReq
  <2>7. k.io.found => h.fp.open /\ k.io.offset = h.fp.idx
    BY <1>10, <2>6 DEF PairRight, OffsetRight
  <2>8. k.req.cmd \in FileCmds => k.io.found
    BY <1>10 DEF PairRight, OffsetRight
  <2>9. Answered(new) => k.req.cmd \in FileCmds \cup {"open"} /\ ok
    BY <1>6, <2>1 DEF Answered
  <2>10. Answered(new) => h2.fp.open /\ NextOffset(new.io, new.rep.cmd, new.rep.ret) = h2.fp.idx
    <3>1. SUFFICES ASSUME Answered(new)
                   PROVE  h2.fp.open /\ NextOffset(k.io, k.req.cmd, ret) = h2.fp.idx
      BY <1>4, <1>6, <2>1
    <3>2. CASE k.req.cmd = "open"
      <4>1. [NoIo EXCEPT !.offset = h.fp.idx].offset = h.fp.idx
        BY DEF NoIo
      <4>2. NextOffset([NoIo EXCEPT !.offset = h.fp.idx], k.req.cmd, ret) = h2.fp.idx /\ h2.fp.open
        BY <2>9, <3>1, <4>1 DEF AnswerFits
      <4> QED BY <3>2, <4>2 DEF NextOffset
    <3>3. CASE k.req.cmd \in FileCmds
      BY <2>7, <2>8, <2>9, <3>1, <3>3 DEF AnswerFits
    <3> QED BY <2>9, <3>1, <3>2, <3>3
  <2>11. new.rep.cmd # "close" /\ ~Answered(new) /\ new.io.found => h2.fp.open /\ new.io.offset = h2.fp.idx
    <3>1. SUFFICES ASSUME k.req.cmd # "close", ~Answered(new), k.io.found
                   PROVE  h2.fp.open /\ k.io.offset = h2.fp.idx
      BY <1>4, <1>6, <2>1
    <3>2. ~(k.req.cmd \in FileCmds \cup {"open"} /\ ok)
      BY <1>6, <2>1, <3>1 DEF Answered
    <3>3. h2.fp.open = h.fp.open /\ h2.fp.idx = h.fp.idx
      BY <3>1, <3>2 DEF AnswerFits
    <3> QED BY <2>7, <3>1, <3>3
  <2>12. OffsetRight(new, h2.fp)
    BY <1>4, <1>5, <2>10, <2>11 DEF OffsetRight
  <2> QED BY <1>4, <1>7, <1>8, <2>5, <2>12 DEF PairRight, AnswerFits, new
<1> QED BY <1>9, <1>10

\* The client takes the reply.
LockThen(k) == IF k.rep.cmd \notin {"rlock", "wlock", "unlock"} \/ ~k.rep.ok THEN k.lock
               ELSE CASE k.rep.cmd = "rlock" -> "r" [] k.rep.cmd = "wlock" -> "w" [] OTHER -> "un"
IoThen(k) == IF k.rep.cmd \in {"rlock", "wlock", "unlock", "add_group", "unlink_group", "unlink_all"} THEN k.io
             ELSE IF k.rep.cmd = "close" THEN NoIo
             ELSE IF k.rep.ok THEN [open |-> TRUE, found |-> TRUE, offset |-> NextOffset(k.io, k.rep.cmd, k.rep.ret)]
             ELSE [k.io EXCEPT !.open = TRUE]
Takes(k) == [k EXCEPT !.rep = NoReq, !.lock = LockThen(k), !.io = IoThen(k)]

LEMMA TakesRight ==
  ASSUME NEW k \in Client, NEW h \in Connection, NEW has, PairRight(k, h, has), k.up, k.rep # NoReq
  PROVE  Takes(k) \in Client /\ PairRight(Takes(k), h, has)
<1> DEFINE new == Takes(k)
<1>1. k.rep \in Response /\ k.rep.cmd \in Cmds /\ k.rep.ok \in BOOLEAN /\ k.req = NoReq
  <2>1. k.rep \in Response
    BY DEF Client
  <2> QED BY <2>1, ResponseParts DEF PairRight, RequestRight
<1>2. k.io \in Io /\ k.lock \in {"un", "r", "w"} /\ h.fp.idx \in Nat
  BY DEF Client, Connection, Fp
<1>3. LockThen(k) = has /\ has \in {"un", "r", "w"}
  <2>1. k.rep.cmd \in LockCmds => k.lock = "un"
    BY DEF PairRight, ClientRight
  <2>2. k.rep.cmd = "unlock" => k.rep.ok
    BY DEF PairRight, ClientRight
  <2>3. has = WillBelieve(k)
    BY DEF PairRight, ClientRight
  <2> QED BY <1>2, <2>1, <2>2, <2>3 DEF WillBelieve, LockThen, LockCmds
<1>4. k.rep.cmd \in FileCmds \cup {"open"} /\ k.rep.ok <=> Answered(k)
  BY DEF Answered
<1>5. Answered(k) => h.fp.open /\ NextOffset(k.io, k.rep.cmd, k.rep.ret) = h.fp.idx
  BY DEF PairRight, OffsetRight
<1>6. k.rep.cmd # "close" /\ ~Answered(k) /\ k.io.found => h.fp.open /\ k.io.offset = h.fp.idx
  BY DEF PairRight, OffsetRight
<1>7. IoThen(k) \in Io /\ (IoThen(k).found => h.fp.open /\ IoThen(k).offset = h.fp.idx)
  <2>1. CASE k.rep.cmd \in LockCmds \cup GroupCmds \cup {"unlock"}
    <3>1. IoThen(k) = k.io /\ k.rep.cmd # "close" /\ ~Answered(k)
      BY <2>1 DEF IoThen, LockCmds, GroupCmds, Answered, FileCmds
    <3> QED BY <1>2, <1>6, <3>1
  <2>2. CASE k.rep.cmd = "close"
    BY <2>2 DEF IoThen, NoIo, Io
  <2>3. CASE k.rep.cmd \in FileCmds \cup {"open"} /\ k.rep.ok
    <3>1. IoThen(k) = [open |-> TRUE, found |-> TRUE, offset |-> h.fp.idx]
      BY <1>4, <1>5, <2>3 DEF IoThen, FileCmds
    <3> QED BY <1>2, <1>4, <1>5, <2>3, <3>1 DEF Io
  <2>4. CASE k.rep.cmd \in FileCmds \cup {"open"} /\ ~k.rep.ok
    <3>1. IoThen(k) = [k.io EXCEPT !.open = TRUE] /\ k.rep.cmd # "close" /\ ~Answered(k)
      BY <2>4 DEF IoThen, FileCmds, Answered
    <3>2. IoThen(k) \in Io /\ IoThen(k).found = k.io.found /\ IoThen(k).offset = k.io.offset
      BY <1>2, <3>1 DEF Io
    <3> QED BY <1>6, <3>1, <3>2
  <2> QED BY <1>1, <2>1, <2>2, <2>3, <2>4 DEF Cmds
<1>8. /\ new \in Client /\ new.req = NoReq /\ new.rep = NoReq /\ new.up /\ new.lock = has
      /\ new.io = IoThen(k)
  <2>1. NoReq \in Response
    BY DEF Response
  <2> HIDE DEF IoThen, LockThen
  <2> QED BY <1>1, <1>3, <1>7, <2>1 DEF Client, Takes
<1>9. NoReq.cmd = "none" /\ "none" \notin LockCmds \cup FileCmds \cup GroupCmds \cup {"unlock", "add_group"}
  BY DEF NoReq, LockCmds, FileCmds, GroupCmds
<1> HIDE DEF new
<1>10. RequestRight(new, has)
  BY <1>8, <1>9 DEF RequestRight
<1>11. ClientRight(new, has)
  BY <1>8, <1>9 DEF ClientRight, WillBelieve
<1>12. HandlerRight(new, h)
  BY <1>1, <1>8 DEF PairRight, HandlerRight
<1>13. ~Answered(new)
  BY <1>8, <1>9 DEF Answered
<1>14. OffsetRight(new, h.fp)
  BY <1>7, <1>8, <1>9, <1>13 DEF OffsetRight
<1> QED BY <1>8, <1>10, <1>11, <1>12, <1>14 DEF PairRight, new

-----------------------------------------------------------------------------
(* The invariant of the protocol *)

\* add_group has put the group in the table when it comes to the cache.
Made(c) ==
  conn[c].st = "group" /\ cl[c].req.cmd = "add_group" =>
      conn[c].backend # 0 /\ backend[conn[c].backend].groups[cl[c].req.name] # 0

Paired(c) == PairRight(cl[c], conn[c], Has(c))

NetInv ==
  /\ Typed /\ AllLocksRight /\ Held
  /\ \A c \in Clients : Paired(c) /\ Made(c)

\* What a step of client c or of its handler leaves to another client.
OtherSame(d) ==
  /\ cl'[d] = cl[d]
  /\ conn'[d].st = conn[d].st /\ conn'[d].backend = conn[d].backend
  /\ conn'[d].lockers = conn[d].lockers /\ conn'[d].fp = conn[d].fp

LEMMA OthersStay ==
  ASSUME NEW d \in Clients, Paired(d), OtherSame(d), Has(d)' = Has(d)
  PROVE  Paired(d)'
<1>1. PairRight(cl[d], conn[d], Has(d))
  BY DEF Paired
<1>2. HandlerRight(cl[d], conn'[d])
  BY <1>1 DEF PairRight, HandlerRight, OtherSame
<1>3. PairRight(cl[d], conn'[d], Has(d))
  BY <1>1, <1>2 DEF PairRight, OtherSame
<1> QED BY <1>3 DEF Paired, OtherSame

LEMMA PairParts ==
  ASSUME NetInv, NEW c \in Clients
  PROVE  /\ cl[c] \in Client /\ conn[c] \in Connection /\ Paired(c) /\ PairRight(cl[c], conn[c], Has(c))
         /\ conn[c].backend \in 0..Len(backend) /\ conn[c].lockers \in 0..1
         /\ cl[c].req \in Request /\ cl[c].path \in Paths
<1>1. cl[c] \in Client /\ conn[c] \in Connection /\ Paired(c)
  BY DEF NetInv, Typed
<1>2. conn[c].backend <= Len(backend) /\ Len(backend) \in Nat
  BY BackendsAre DEF NetInv, Typed
<1>3. conn[c].backend \in Nat /\ conn[c].lockers \in 0..1
  BY <1>1 DEF Connection
<1>4. cl[c].req \in Request /\ cl[c].path \in Paths
  BY <1>1 DEF Client
<1> QED BY <1>1, <1>2, <1>3, <1>4 DEF Paired

\* A step of the client alone.
ClientMoves(c, k) ==
  /\ cl' = [cl EXCEPT ![c] = k]
  /\ UNCHANGED <<conn, backend, files, live>>

LEMMA ClientStep ==
  ASSUME NetInv, NEW c \in Clients, NEW k \in Client, ClientMoves(c, k),
         PairRight(k, conn[c], Has(c)), conn[c].st = "group" => k.req = cl[c].req
  PROVE  NetInv'
<1>1. /\ cl' \in [Clients -> Client] /\ cl'[c] = k /\ \A d \in Clients : d # c => cl'[d] = cl[d]
  BY DEF NetInv, Typed, ClientMoves
<1>2. conn' = conn /\ backend' = backend /\ files' = files /\ live' = live
  BY DEF ClientMoves
<1>3. Typed'
  BY <1>1, <1>2 DEF NetInv, Typed
<1>4. \A d \in Clients : Has(d)' = Has(d)
  BY <1>2 DEF Has
<1>5. Held'
  BY <1>2 DEF NetInv, Held
<1>6. AllLocksRight'
  <2>1. \A b : Holders(b)' = Holders(b)
    BY <1>2 DEF Holders
  <2> QED BY <1>2, <2>1 DEF NetInv, AllLocksRight, LocksRight
<1>7. ASSUME NEW d \in Clients PROVE Paired(d)'
  <2>1. CASE d = c
    BY <1>1, <1>2, <1>4, <2>1 DEF Paired
  <2>2. CASE d # c
    BY <1>1, <1>2, <1>4, <2>2 DEF NetInv, Paired
  <2> QED BY <2>1, <2>2
<1>8. ASSUME NEW d \in Clients PROVE Made(d)'
  <2>1. conn[d].st = "group" => cl'[d].req = cl[d].req
    BY <1>1
  <2> QED BY <1>2, <2>1 DEF NetInv, Made
<1> QED BY <1>3, <1>5, <1>6, <1>7, <1>8 DEF NetInv

\* A handler with a client that has no request under way is not at work on a group.
LEMMA NotInGroup ==
  ASSUME NetInv, NEW c \in Clients, cl[c].req.cmd \notin GroupCmds
  PROVE  conn[c].st # "group"
BY PairParts DEF PairRight, HandlerRight

LEMMA NoCmd == NoReq.cmd = "none" /\ "none" \notin LockCmds \cup FileCmds \cup GroupCmds \cup Cmds
BY DEF NoReq, LockCmds, FileCmds, GroupCmds, Cmds

\* The client sends a request that its lock allows.
LEMMA SendStep ==
  ASSUME NetInv, NEW c \in Clients, Idle(c), NEW req \in Request, Allowed(cl[c], req), Send(c, req),
         UNCHANGED <<conn, backend, files, live>>
  PROVE  NetInv'
<1>1. cl[c] \in Client /\ conn[c] \in Connection /\ PairRight(cl[c], conn[c], Has(c))
  BY PairParts
<1>2. cl[c].up /\ cl[c].req = NoReq /\ cl[c].rep = NoReq
  BY DEF Idle
<1>3. Asks(cl[c], req) \in Client /\ PairRight(Asks(cl[c], req), conn[c], Has(c))
  BY <1>1, <1>2, AsksRight
<1>4. ClientMoves(c, Asks(cl[c], req))
  BY DEF ClientMoves, Asks, Send
<1>5. conn[c].st # "group"
  BY <1>2, NoCmd, NotInGroup
<1> QED BY <1>3, <1>4, <1>5, ClientStep

LEMMA DisconnectKeeps ==
  ASSUME NetInv, NEW c \in Clients, Disconnect(c)
  PROVE  NetInv'
<1>1. cl[c] \in Client /\ conn[c] \in Connection /\ PairRight(cl[c], conn[c], Has(c))
  BY PairParts
<1>2. PICK req \in {cl[c].req, NoReq} :
         /\ conn[c].st # "recv" => req = cl[c].req
         /\ cl' = [cl EXCEPT ![c] = [@ EXCEPT !.up = FALSE, !.req = req, !.rep = NoReq, !.lock = "un", !.io = NoIo]]
  BY DEF Disconnect
<1>3. Gone(cl[c], req) \in Client /\ PairRight(Gone(cl[c], req), conn[c], Has(c))
  BY <1>1, <1>2, GoneRight DEF Disconnect
<1>4. ClientMoves(c, Gone(cl[c], req))
  BY <1>2 DEF Disconnect, ClientMoves, Gone
<1>5. conn[c].st = "group" => Gone(cl[c], req).req = cl[c].req
  <2>1. Gone(cl[c], req).req = req
    BY <1>1 DEF Gone, Client
  <2> QED BY <1>2, <2>1
<1> QED BY <1>3, <1>4, <1>5, ClientStep

LEMMA ReceiveKeeps ==
  ASSUME NetInv, NEW c \in Clients, Receive(c)
  PROVE  NetInv'
<1>1. cl[c] \in Client /\ conn[c] \in Connection /\ PairRight(cl[c], conn[c], Has(c))
  BY PairParts
<1>2. cl[c].up /\ cl[c].rep # NoReq
  BY DEF Receive
<1>3. Takes(cl[c]) \in Client /\ PairRight(Takes(cl[c]), conn[c], Has(c))
  BY <1>1, <1>2, TakesRight
<1>4. ClientMoves(c, Takes(cl[c]))
  BY DEF Receive, ClientMoves, Takes, LockThen, LockAfter, IoThen, IoAfter
<1>5. Takes(cl[c]).req = cl[c].req
  BY <1>1 DEF Takes, Client
<1> QED BY <1>3, <1>4, <1>5, ClientStep

LEMMA CallLockKeeps ==
  ASSUME NetInv, NEW c \in Clients, CallLock(c)
  PROVE  NetInv'
<1>1. PICK req \in LockCalls : Send(c, req)
  BY DEF CallLock
<1>2. req \in Request /\ req.cmd \in LockCmds
  BY CallsAssumption DEF Request, LockCmds
<1>3. Allowed(cl[c], req)
  BY <1>2 DEF CallLock, Allowed, LockCmds, FileCmds
<1> QED BY <1>1, <1>2, <1>3, SendStep DEF CallLock

LEMMA CallUnlockKeeps ==
  ASSUME NetInv, NEW c \in Clients, CallUnlock(c)
  PROVE  NetInv'
<1> DEFINE req == [cmd |-> "unlock"]
<1>1. req \in Request /\ req.cmd = "unlock" /\ Send(c, req)
  BY DEF CallUnlock, Request
<1> HIDE DEF req
<1>2. Allowed(cl[c], req)
  BY <1>1 DEF CallUnlock, Allowed, LockCmds, FileCmds
<1> QED BY <1>1, <1>2, SendStep DEF CallUnlock

LEMMA CallFileKeeps ==
  ASSUME NetInv, NEW c \in Clients, CallFile(c)
  PROVE  NetInv'
<1>1. PICK req \in FileCalls(c) : Send(c, req)
  BY DEF CallFile
<1>2. \/ req \in [cmd : {"open"}, mode : {"rb+", "wb+"}]
      \/ req \in ReadCalls /\ cl[c].io.found
      \/ req \in WriteCalls /\ cl[c].io.found /\ cl[c].lock = "w"
  <2>1. [cmd |-> "open", mode |-> "rb+"] \in [cmd : {"open"}, mode : {"rb+", "wb+"}]
    OBVIOUS
  <2>2. [cmd |-> "open", mode |-> "wb+"] \in [cmd : {"open"}, mode : {"rb+", "wb+"}]
    OBVIOUS
  <2>3. \/ req \in {[cmd |-> "open", mode |-> "rb+"], [cmd |-> "open", mode |-> "wb+"]}
        \/ req \in ReadCalls /\ cl[c].io.found
        \/ req \in WriteCalls /\ cl[c].io.found /\ cl[c].lock = "w"
    BY DEF FileCalls
  <2> QED BY <2>1, <2>2, <2>3
<1>3. CASE req \in [cmd : {"open"}, mode : {"rb+", "wb+"}]
  <2>1. req \in Request /\ req.cmd = "open"
    BY <1>3 DEF Request
  <2>2. Allowed(cl[c], req)
    BY <2>1 DEF Allowed, LockCmds, FileCmds
  <2> QED BY <1>1, <2>1, <2>2, SendStep DEF CallFile
<1>4. CASE req \in ReadCalls /\ cl[c].io.found
  <2>1. req.cmd \in {"read", "readline", "readlines", "seek", "flush"}
    BY <1>4, CallsAssumption
  <2>2. Allowed(cl[c], req)
    BY <1>4, <2>1 DEF CallFile, Allowed, LockCmds, FileCmds
  <2>3. req \in Request
    BY <1>4 DEF Request
  <2> QED BY <1>1, <2>2, <2>3, SendStep DEF CallFile
<1>5. CASE req \in WriteCalls /\ cl[c].io.found /\ cl[c].lock = "w"
  <2>1. req.cmd \in {"write", "truncate"}
    BY <1>5, CallsAssumption
  <2>2. Allowed(cl[c], req)
    BY <1>5, <2>1 DEF Allowed, LockCmds, FileCmds
  <2>3. req \in Request
    BY <1>5 DEF Request
  <2> QED BY <1>1, <2>2, <2>3, SendStep DEF CallFile
<1> QED BY <1>2, <1>3, <1>4, <1>5

LEMMA CallCloseKeeps ==
  ASSUME NetInv, NEW c \in Clients, CallClose(c)
  PROVE  NetInv'
<1>1. cl[c] \in Client /\ conn[c] \in Connection /\ PairRight(cl[c], conn[c], Has(c))
  BY PairParts
<1>2. CASE cl[c].io.found
  <2> DEFINE req == [cmd |-> "close"]
  <2>1. req \in Request /\ req.cmd = "close" /\ Send(c, req)
    BY <1>2 DEF CallClose, Request, Send
  <2> HIDE DEF req
  <2>2. Allowed(cl[c], req)
    BY <2>1 DEF Allowed, LockCmds, FileCmds
  <2> QED BY <2>1, <2>2, SendStep DEF CallClose
<1>3. CASE ~cl[c].io.found
  <2> DEFINE k == [cl[c] EXCEPT !.io = NoIo]
  <2>1. /\ k \in Client /\ k.io = NoIo /\ k.up = cl[c].up /\ k.req = cl[c].req /\ k.rep = cl[c].rep
        /\ k.lock = cl[c].lock
    <3>1. NoIo \in Io
      BY DEF NoIo, Io
    <3> QED BY <1>1, <3>1 DEF Client
  <2>2. cl[c].req = NoReq /\ cl[c].rep = NoReq /\ cl[c].up
    BY DEF CallClose, Idle
  <2>3. ClientMoves(c, k)
    BY <1>3 DEF CallClose, ClientMoves
  <2> HIDE DEF k
  <2>4. RequestRight(k, Has(c)) /\ HandlerRight(k, conn[c])
    BY <1>1, <2>1 DEF PairRight, RequestRight, HandlerRight
  <2>5. WillBelieve(k) = WillBelieve(cl[c])
    BY <2>1 DEF WillBelieve
  <2>6. ClientRight(k, Has(c))
    BY <1>1, <2>1, <2>5 DEF PairRight, ClientRight
  <2>7. OffsetRight(k, conn[c].fp)
    <3>1. ~Answered(k) /\ k.req.cmd \notin FileCmds /\ ~k.io.found
      BY <2>1, <2>2, NoCmd DEF Answered, NoIo, FileCmds
    <3> QED BY <3>1 DEF OffsetRight
  <2>8. PairRight(k, conn[c], Has(c))
    BY <1>1, <2>4, <2>6, <2>7 DEF PairRight
  <2> QED BY <2>1, <2>3, <2>8, ClientStep
<1> QED BY <1>2, <1>3

LEMMA CallGroupKeeps ==
  ASSUME NetInv, NEW c \in Clients, CallGroup(c)
  PROVE  NetInv'
<1>1. PICK n \in Names : \/ cl[c].lock # "un" /\ Send(c, [cmd |-> "add_group", name |-> n])
                         \/ cl[c].lock = "w" /\ Send(c, [cmd |-> "unlink_group", name |-> n])
  BY DEF CallGroup
<1>2. PICK req \in [cmd : {"add_group", "unlink_group"}, name : Names] :
         Send(c, req) /\ cl[c].lock # "un" /\ (req.cmd = "unlink_group" => cl[c].lock = "w")
  <2>1. CASE cl[c].lock # "un" /\ Send(c, [cmd |-> "add_group", name |-> n])
    <3>1. [cmd |-> "add_group", name |-> n] \in [cmd : {"add_group", "unlink_group"}, name : Names]
      OBVIOUS
    <3>2. [cmd |-> "add_group", name |-> n].cmd # "unlink_group"
      OBVIOUS
    <3> QED BY <2>1, <3>1, <3>2
  <2>2. CASE cl[c].lock = "w" /\ Send(c, [cmd |-> "unlink_group", name |-> n])
    <3>1. [cmd |-> "unlink_group", name |-> n] \in [cmd : {"add_group", "unlink_group"}, name : Names]
      OBVIOUS
    <3> QED BY <2>2, <3>1
  <2> QED BY <1>1, <2>1, <2>2
<1>3. req \in Request /\ req.cmd \in {"add_group", "unlink_group"}
  BY DEF Request
<1>4. Allowed(cl[c], req)
  BY <1>2, <1>3 DEF Allowed, LockCmds, FileCmds
<1> QED BY <1>2, <1>3, <1>4, SendStep DEF CallGroup

LEMMA CallUnlinkAllKeeps ==
  ASSUME NetInv, NEW c \in Clients, CallUnlinkAll(c)
  PROVE  NetInv'
<1> DEFINE req == [cmd |-> "unlink_all"]
<1>1. req \in Request /\ req.cmd = "unlink_all" /\ Send(c, req)
  BY DEF CallUnlinkAll, Request
<1> HIDE DEF req
<1>2. Allowed(cl[c], req)
  BY <1>1 DEF CallUnlinkAll, Allowed, LockCmds, FileCmds
<1> QED BY <1>1, <1>2, SendStep DEF CallUnlinkAll

\* What has to be shown of a step of client c or of its handler.
Step(c) ==
  /\ Typed' /\ AllLocksRight' /\ Held'
  /\ Paired(c)' /\ \A d \in Clients : d # c => OtherSame(d) /\ Has(d)' = Has(d)
  /\ \A d \in Clients : Made(d)'

LEMMA StepRight ==
  ASSUME NetInv, NEW c \in Clients, Step(c)
  PROVE  NetInv'
<1>1. ASSUME NEW d \in Clients PROVE Paired(d)'
  <2>1. CASE d = c
    BY <2>1 DEF Step
  <2>2. CASE d # c
    BY <2>2, OthersStay DEF NetInv, Step
  <2> QED BY <2>1, <2>2
<1> QED BY <1>1 DEF NetInv, Step

\* A step that leaves the backends' groups and the other requests alone keeps Made.
LEMMA MadeStays ==
  ASSUME NetInv, NEW c \in Clients, \A d \in Clients : d # c => OtherSame(d), conn'[c].st # "group",
         \A b \in 1..Len(backend) : \A n \in Names :
             backend[b].groups[n] # 0 => backend'[b].groups[n] = backend[b].groups[n]
  PROVE  \A d \in Clients : Made(d)'
<1> SUFFICES ASSUME NEW d \in Clients, conn'[d].st = "group", cl'[d].req.cmd = "add_group"
             PROVE  conn'[d].backend # 0 /\ backend'[conn'[d].backend].groups[cl'[d].req.name] # 0
  BY DEF Made
<1>1. d # c
  OBVIOUS
<1>2. conn[d].st = "group" /\ cl[d].req.cmd = "add_group" /\ conn'[d].backend = conn[d].backend /\ cl'[d] = cl[d]
  BY <1>1 DEF OtherSame
<1>3. conn[d].backend # 0 /\ backend[conn[d].backend].groups[cl[d].req.name] # 0
  BY <1>2 DEF NetInv, Made
<1>4. conn[d].backend \in 1..Len(backend) /\ cl[d].req.name \in Names
  BY <1>2, <1>3, PairParts, RequestParts
<1> QED BY <1>2, <1>3, <1>4

LEMMA ConnectKeeps ==
  ASSUME NetInv, NEW c \in Clients, NEW path \in Paths, Connect(c, path)
  PROVE  NetInv'
<1> DEFINE k == [cl[c] EXCEPT !.up = TRUE, !.path = path]
           h == [st |-> "recv", backend |-> IF path = << >> THEN Root ELSE 0, lockers |-> 0,
                 fp |-> NoFp, fresh |-> path = << >>]
<1>1. cl[c] \in Client /\ conn[c] \in Connection /\ PairRight(cl[c], conn[c], Has(c))
  BY PairParts
<1>2. cl[c].req = NoReq /\ conn[c].lockers = 0 /\ cl[c].rep = NoReq /\ cl[c].lock = "un" /\ cl[c].io = NoIo
  BY <1>1 DEF Connect, PairRight, HandlerRight, ClientRight
<1>3. k \in Client /\ k.up /\ k.req = NoReq /\ k.rep = NoReq /\ k.lock = "un" /\ k.io = NoIo
  BY <1>1, <1>2 DEF Client
<1>4. NoFp \in Fp /\ NoFp.dirty = << >>
  BY DEF NoFp, Fp
<1>5. /\ h \in Connection /\ h.st = "recv" /\ h.lockers = 0 /\ h.fp = NoFp /\ h.backend \in {0, Root}
  BY <1>4 DEF Connection, Root
<1>6. cl' = [cl EXCEPT ![c] = k] /\ conn' = [conn EXCEPT ![c] = h]
      /\ backend' = backend /\ files' = files /\ live' = live
  BY DEF Connect
<1> HIDE DEF k, h
<1>7. /\ cl' \in [Clients -> Client] /\ cl'[c] = k /\ \A d \in Clients : d # c => cl'[d] = cl[d]
      /\ conn' \in [Clients -> Connection] /\ conn'[c] = h /\ \A d \in Clients : d # c => conn'[d] = conn[d]
  BY <1>3, <1>5, <1>6 DEF NetInv, Typed
<1>8. Typed'
  <2>1. Len(backend) >= 1 /\ Len(backend) \in Nat
    BY BackendsAre DEF NetInv, Typed
  <2>2. \A d \in Clients : conn'[d].backend <= Len(backend)
    BY <1>5, <1>7, <2>1 DEF NetInv, Typed, Root
  <2> QED BY <1>6, <1>7, <2>2 DEF NetInv, Typed
<1>9. NoLockMoved
  BY <1>2, <1>5, <1>6, <1>7, BackendsAre DEF NoLockMoved, NetInv, Typed
<1>10. AllLocksRight' /\ Held' /\ \A d \in Clients : Has(d)' = Has(d)
  BY <1>8, <1>9, LocksStay DEF NetInv
<1>11. Has(c) = "un"
  BY <1>2 DEF Has
<1>12. PairRight(k, h, "un")
  <2>1. RequestRight(k, "un")
    BY <1>3, NoCmd DEF RequestRight, LockCmds, FileCmds
  <2>2. ClientRight(k, "un")
    BY <1>3, NoCmd DEF ClientRight, WillBelieve
  <2>3. HandlerRight(k, h)
    BY <1>5 DEF HandlerRight
  <2>4. OffsetRight(k, h.fp)
    BY <1>3, NoCmd DEF OffsetRight, Answered, NoIo, FileCmds
  <2> QED BY <1>4, <1>5, <2>1, <2>2, <2>3, <2>4 DEF PairRight
<1>13. Paired(c)'
  BY <1>7, <1>10, <1>11, <1>12 DEF Paired
<1>14. \A d \in Clients : d # c => OtherSame(d)
  BY <1>7 DEF OtherSame
<1>15. \A d \in Clients : Made(d)'
  BY <1>5, <1>6, <1>7, <1>14, MadeStays
<1> QED BY <1>8, <1>10, <1>13, <1>14, <1>15, StepRight DEF Step

-----------------------------------------------------------------------------
(* The steps of the handler *)

LEMMA ReplyIs ==
  ASSUME NetInv, NEW c \in Clients, NEW ok, NEW ret, Reply(c, ok, ret), Answer(cl[c], ok, ret) \in Client
  PROVE  /\ cl' \in [Clients -> Client] /\ cl'[c] = Answer(cl[c], ok, ret)
         /\ \A d \in Clients : d # c => cl'[d] = cl[d]
<1>1. cl \in [Clients -> Client]
  BY DEF NetInv, Typed
<1>2. cl' = [cl EXCEPT ![c] = Answer(cl[c], ok, ret)]
  BY <1>1 DEF Reply, Cmd, Answer
<1> QED BY <1>1, <1>2

\* The handler serves a request of a client.
LEMMA ServingIs ==
  ASSUME NetInv, NEW c \in Clients, NEW cmds, Serving(c, cmds), cmds \subseteq Cmds
  PROVE  /\ conn[c].backend \in 1..Len(backend) /\ backend[conn[c].backend] \in Backend
         /\ conn[c].st = "recv" /\ cl[c].req # NoReq /\ cl[c].req.cmd \in cmds
<1>1. conn[c].backend \in 0..Len(backend)
  BY PairParts
<1>2. Len(backend) \in Nat /\ \A b \in 1..Len(backend) : backend[b] \in Backend
  BY BackendsAre DEF NetInv, Typed
<1> QED BY <1>1, <1>2, NoCmd DEF Serving, Cmd

\* A step that moves no lock and takes no group off.
LEMMA QuietStep ==
  ASSUME NetInv, NEW c \in Clients, Typed', NoLockMoved, PairRight(cl'[c], conn'[c], Has(c)),
         \A d \in Clients : d # c => OtherSame(d), conn'[c].st # "group",
         \A b \in 1..Len(backend) : \A n \in Names :
             backend[b].groups[n] # 0 => backend'[b].groups[n] = backend[b].groups[n]
  PROVE  NetInv'
<1>1. AllLocksRight' /\ Held' /\ \A d \in Clients : Has(d)' = Has(d)
  BY LocksStay DEF NetInv
<1>2. Paired(c)'
  BY <1>1 DEF Paired
<1>3. \A d \in Clients : Made(d)'
  BY MadeStays
<1> QED BY <1>1, <1>2, <1>3, StepRight DEF Step

\* A step that moves the lock of connection c.
LEMMA LockStep ==
  ASSUME NetInv, NEW c \in Clients, NEW b, NEW has, LockMoved(c, b, has), Lockers(c, conn'[c].lockers),
         cl' \in [Clients -> Client], conn' \in [Clients -> Connection], files' = files, live' = live,
         \A d \in Clients : d # c => cl'[d] = cl[d],
         PairRight(cl'[c], conn'[c], has), conn'[c].st # "group"
  PROVE  NetInv'
<1>1. Len(backend') = Len(backend) /\ Backends(backend')
  BY DEF LockMoved
<1>2. \A d \in Clients : conn'[d].backend = conn[d].backend
  BY DEF Lockers
<1>3. Typed'
  BY <1>1, <1>2 DEF NetInv, Typed
<1>4. LocksRight(b)' /\ MovesLock(c, b) /\ Has(c)' = has
  BY DEF LockMoved
<1>5. AllLocksRight' /\ Held' /\ \A d \in Clients : d # c => Has(d)' = Has(d)
  BY <1>3, <1>4, LocksMove DEF NetInv
<1>6. Paired(c)'
  BY <1>4 DEF Paired
<1>7. \A d \in Clients : d # c => OtherSame(d)
  BY DEF Lockers, OtherSame
<1>8. \A i \in 1..Len(backend) : \A n \in Names :
         backend[i].groups[n] # 0 => backend'[i].groups[n] = backend[i].groups[n]
  BY DEF LockMoved
<1>9. \A d \in Clients : Made(d)'
  BY <1>7, <1>8, MadeStays
<1> QED BY <1>3, <1>5, <1>6, <1>7, <1>9, StepRight DEF Step

LEMMA ResolveKeeps ==
  ASSUME NetInv, NEW c \in Clients, Resolve(c)
  PROVE  NetInv'
<1> DEFINE g == GetGroupFiles(cl[c].path)
           h == [conn[c] EXCEPT !.backend = g.b, !.fresh = TRUE]
<1>1. cl[c] \in Client /\ conn[c] \in Connection /\ PairRight(cl[c], conn[c], Has(c)) /\ cl[c].path \in Paths
  BY PairParts
<1>2. StepGood(g)
  BY <1>1, Resolved DEF NetInv
<1>3. /\ Backends(backend) /\ Backends(g.bs) /\ Len(backend) \in Nat /\ Len(g.bs) \in Nat
      /\ Len(g.bs) >= Len(backend) /\ g.b \in 1..Len(g.bs) /\ g.files \in [Groups -> 0..Len(g.bs)]
  BY <1>2, BackendsAre DEF NetInv, Typed, StepGood, Grown
<1>4. conn[c].st = "recv" /\ conn[c].backend = 0
  BY DEF Resolve
<1>5. cl' = cl /\ live' = live /\ backend' = g.bs /\ files' = g.files
  BY DEF Resolve
<1>6. conn' = [conn EXCEPT ![c] = h]
  <2>1. conn' = [conn EXCEPT ![c].backend = g.b, ![c].fresh = TRUE]
    BY DEF Resolve
  <2>2. conn \in [Clients -> Connection]
    BY DEF NetInv, Typed
  <2> HIDE DEF g
  <2> QED BY <2>1, <2>2
<1> HIDE DEF g
<1>7. /\ h \in Connection /\ h.backend = g.b /\ h.st = "recv" /\ h.lockers = conn[c].lockers /\ h.fp = conn[c].fp
  <2>1. g.b \in Nat
    BY <1>3
  <2>2. conn[c] \in Connection
    BY <1>1
  <2> QED BY <1>4, <2>1, <2>2 DEF Connection
<1> HIDE DEF h
<1>8. /\ conn' \in [Clients -> Connection] /\ conn'[c] = h /\ \A d \in Clients : d # c => conn'[d] = conn[d]
  BY <1>6, <1>7 DEF NetInv, Typed
<1>9. Typed'
  <2>1. \A d \in Clients : conn'[d].backend <= Len(g.bs)
    <3>1. \A d \in Clients : conn[d].backend <= Len(backend) /\ conn[d].backend \in Nat
      BY DEF NetInv, Typed, Connection
    <3> QED BY <1>3, <1>7, <1>8, <3>1
  <2>2. live \in [Groups -> 0..Len(g.bs)]
    <3>1. live \in [Groups -> 0..Len(backend)]
      BY DEF NetInv, Typed
    <3> QED BY <1>3, <3>1
  <2> QED BY <1>3, <1>5, <1>8, <2>1, <2>2 DEF NetInv, Typed
<1>10. Grown(backend, backend')
  BY <1>2, <1>5 DEF StepGood
<1>11. conn[c].lockers = 0
  BY <1>4 DEF NetInv, Held, Typed, Connection
<1>12. NoLockMoved
  BY <1>7, <1>8, <1>10, <1>11 DEF NoLockMoved, Grown
<1>13. PairRight(cl'[c], conn'[c], Has(c))
  <2>1. HandlerRight(cl[c], h)
    BY <1>7 DEF HandlerRight
  <2> QED BY <1>1, <1>5, <1>7, <1>8, <2>1 DEF PairRight
<1>14. \A d \in Clients : d # c => OtherSame(d)
  BY <1>5, <1>8 DEF OtherSame
<1>15. \A b \in 1..Len(backend) : \A n \in Names :
             backend[b].groups[n] # 0 => backend'[b].groups[n] = backend[b].groups[n]
  BY <1>10 DEF Grown
<1> QED BY <1>7, <1>8, <1>9, <1>12, <1>13, <1>14, <1>15, QuietStep

LEMMA HasNone ==
  ASSUME NEW c \in Clients
  PROVE  Has(c) = "un" <=> conn[c].lockers = 0
BY DEF Has

\* The connection after a step that gives it n locks.
SetsLockers(c, n) == conn' = [conn EXCEPT ![c].lockers = n]

LEMMA LockersSet ==
  ASSUME NetInv, NEW c \in Clients, NEW n \in 0..1, SetsLockers(c, n)
  PROVE  /\ conn' \in [Clients -> Connection] /\ Lockers(c, n) /\ Lockers(c, conn'[c].lockers)
         /\ conn'[c].st = conn[c].st /\ conn'[c].fp = conn[c].fp
<1>1. conn \in [Clients -> Connection]
  BY DEF NetInv, Typed
<1>2. /\ conn' \in [Clients -> Connection] /\ conn'[c].lockers = n /\ conn'[c].backend = conn[c].backend
      /\ \A d \in Clients : d # c => conn'[d] = conn[d]
      /\ conn'[c].st = conn[c].st /\ conn'[c].fp = conn[c].fp
  BY <1>1 DEF Connection, SetsLockers
<1> QED BY <1>2 DEF Lockers

LEMMA ServeLockKeeps ==
  ASSUME NetInv, NEW c \in Clients, ServeLock(c)
  PROVE  NetInv'
<1> DEFINE b == conn[c].backend
           k == cl[c]
<1>1. k \in Client /\ conn[c] \in Connection /\ PairRight(k, conn[c], Has(c))
  BY PairParts
<1>2. /\ b \in 1..Len(backend) /\ conn[c].st = "recv" /\ k.req # NoReq /\ k.req.cmd \in {"rlock", "wlock"}
  BY ServingIs DEF ServeLock, Cmds, LockCmds
<1>3. Has(c) = "un" /\ conn[c].lockers = 0
  <2>1. Has(c) = "un"
    BY <1>1, <1>2 DEF PairRight, RequestRight, LockCmds
  <2> QED BY <2>1, HasNone
<1>4. k.req.cmd \in LockCmds /\ k.req.cmd \notin FileCmds \cup {"open", "close", "unlock"}
  BY <1>2 DEF LockCmds, FileCmds
<1>5. files' = files /\ live' = live
  BY DEF ServeLock
<1>6. ~Buffered => conn[c].fp.dirty = << >>
  BY <1>1 DEF PairRight
<1>7. ASSUME NEW ok, ok \in BOOLEAN, NEW h2 \in Connection, h2.st = "recv", h2.fp = conn[c].fp
      PROVE  /\ Answer(k, ok, 0) \in Client
             /\ PairRight(Answer(k, ok, 0), h2, IF ~ok THEN "un" ELSE IF k.req.cmd = "rlock" THEN "r" ELSE "w")
  <2> DEFINE has2 == IF ~ok THEN "un" ELSE IF k.req.cmd = "rlock" THEN "r" ELSE "w"
  <2>1. AnswerFits(k, conn[c].fp, Has(c), ok, 0, h2.fp, has2)
    BY <1>4, <1>6, <1>7 DEF AnswerFits
  <2> HIDE DEF has2
  <2>2. Answer(k, ok, 0) \in Client /\ PairRight(Answer(k, ok, 0), h2, has2)
    BY <1>1, <1>2, <1>7, <2>1, AnswerRight
  <2> QED BY <2>2 DEF has2
<1>8. CASE backend' # backend \/ conn' # conn
  <2>1. /\ IF k.req.cmd = "rlock" THEN CanRlock(c, b) ELSE CanWlock(c, b)
        /\ backend' = IF k.req.cmd = "rlock" THEN Rlocked(b) ELSE Wlocked(c, b)
        /\ conn' = [conn EXCEPT ![c].lockers = @ + 1] /\ Reply(c, TRUE, 0)
    BY <1>8 DEF ServeLock, Cmd
  <2>2. SetsLockers(c, 1)
    BY <1>3, <2>1 DEF SetsLockers
  <2>3. /\ conn' \in [Clients -> Connection] /\ Lockers(c, 1) /\ Lockers(c, conn'[c].lockers)
        /\ conn'[c].st = conn[c].st /\ conn'[c].fp = conn[c].fp
    BY <2>2, LockersSet
  <2> DEFINE has2 == IF k.req.cmd = "rlock" THEN "r" ELSE "w"
  <2>4. LockMoved(c, b, has2)
    <3>1. CASE k.req.cmd = "rlock"
      BY <1>2, <1>3, <2>1, <2>3, <3>1, RlockGranted DEF NetInv
    <3>2. CASE k.req.cmd # "rlock"
      BY <1>2, <1>3, <2>1, <2>3, <3>2, WlockGranted DEF NetInv
    <3> QED BY <3>1, <3>2
  <2> HIDE DEF b
  <2>5. conn'[c] \in Connection /\ conn'[c].st = "recv"
    BY <1>2, <2>3
  <2>6. Answer(k, TRUE, 0) \in Client /\ PairRight(Answer(k, TRUE, 0), conn'[c], has2)
    BY <1>7, <2>3, <2>5
  <2> HIDE DEF has2
  <2>7. /\ cl' \in [Clients -> Client] /\ cl'[c] = Answer(cl[c], TRUE, 0)
        /\ \A d \in Clients : d # c => cl'[d] = cl[d]
    BY <2>1, <2>6, ReplyIs
  <2> QED BY <1>5, <2>3, <2>4, <2>5, <2>6, <2>7, LockStep
<1>9. CASE backend' = backend /\ conn' = conn /\ ~(IF k.req.cmd = "rlock" THEN CanRlock(c, b) ELSE CanWlock(c, b))
  <2>1. Reply(c, FALSE, 0)
    BY <1>9 DEF ServeLock, Cmd
  <2>2. Answer(k, FALSE, 0) \in Client /\ PairRight(Answer(k, FALSE, 0), conn[c], "un")
    BY <1>1, <1>2, <1>7
  <2>3. /\ cl' \in [Clients -> Client] /\ cl'[c] = Answer(cl[c], FALSE, 0)
        /\ \A d \in Clients : d # c => cl'[d] = cl[d]
    BY <2>1, <2>2, ReplyIs
  <2>4. Len(backend) \in Nat
    BY BackendsAre DEF NetInv, Typed
  <2>5. NoLockMoved
    BY <1>9, <2>4 DEF NoLockMoved
  <2>6. Typed'
    BY <1>5, <1>9, <2>3 DEF NetInv, Typed
  <2>7. \A d \in Clients : d # c => OtherSame(d)
    BY <1>9, <2>3 DEF OtherSame
  <2>8. PairRight(cl'[c], conn'[c], Has(c))
    BY <1>3, <1>9, <2>2, <2>3
  <2>9. conn'[c].st # "group"
    BY <1>2, <1>9
  <2>10. \A i \in 1..Len(backend) : \A n \in Names :
             backend[i].groups[n] # 0 => backend'[i].groups[n] = backend[i].groups[n]
    BY <1>9
  <2> QED BY <2>5, <2>6, <2>7, <2>8, <2>9, <2>10, QuietStep
<1>10. \/ backend' # backend \/ conn' # conn
       \/ backend' = backend /\ conn' = conn /\ ~(IF k.req.cmd = "rlock" THEN CanRlock(c, b) ELSE CanWlock(c, b))
  <2>1. CASE conn' = [conn EXCEPT ![c].lockers = @ + 1]
    <3>1. SetsLockers(c, 1)
      BY <1>3, <2>1 DEF SetsLockers
    <3>2. Lockers(c, 1)
      BY <3>1, LockersSet
    <3> QED BY <1>3, <3>2 DEF Lockers
  <2>2. CASE conn' # [conn EXCEPT ![c].lockers = @ + 1]
    BY <2>2 DEF ServeLock, Cmd
  <2> QED BY <2>1, <2>2
<1> QED BY <1>8, <1>9, <1>10

LEMMA ServeUnlockKeeps ==
  ASSUME NetInv, NEW c \in Clients, ServeUnlock(c)
  PROVE  NetInv'
<1> DEFINE b == conn[c].backend
           k == cl[c]
<1>1. k \in Client /\ conn[c] \in Connection /\ PairRight(k, conn[c], Has(c)) /\ conn[c].lockers \in 0..1
  BY PairParts
<1>2. /\ b \in 1..Len(backend) /\ conn[c].st = "recv" /\ k.req # NoReq /\ k.req.cmd = "unlock"
  BY ServingIs DEF ServeUnlock, Cmds
<1>3. conn[c].lockers = 1
  <2>1. Has(c) # "un"
    BY <1>1, <1>2 DEF PairRight, RequestRight
  <2> QED BY <1>1, <2>1, HasNone
<1>4. k.req.cmd \notin LockCmds \cup FileCmds \cup {"open", "close"}
  BY <1>2 DEF LockCmds, FileCmds
<1>5. files' = files /\ live' = live /\ backend' = Unlocked(c, b) /\ Reply(c, TRUE, 0)
      /\ conn' = [conn EXCEPT ![c].lockers = @ - 1]
  BY DEF ServeUnlock
<1>6. SetsLockers(c, 0)
  BY <1>3, <1>5 DEF SetsLockers
<1>7. /\ conn' \in [Clients -> Connection] /\ Lockers(c, 0) /\ Lockers(c, conn'[c].lockers)
      /\ conn'[c].st = conn[c].st /\ conn'[c].fp = conn[c].fp
  BY <1>6, LockersSet
<1>8. LockMoved(c, b, "un")
  BY <1>2, <1>3, <1>5, <1>7, LockGivenBack DEF NetInv
<1>9. conn'[c] \in Connection /\ conn'[c].st = "recv"
  BY <1>2, <1>7
<1>10. ASSUME NEW ok, ok \in BOOLEAN, ok, NEW has2, has2 = "un", NEW h2 \in Connection, h2.st = "recv", h2.fp = conn[c].fp
       PROVE  Answer(k, ok, 0) \in Client /\ PairRight(Answer(k, ok, 0), h2, has2)
  <2>1. AnswerFits(k, conn[c].fp, Has(c), ok, 0, h2.fp, has2)
    BY <1>1, <1>2, <1>4, <1>10 DEF AnswerFits, PairRight
  <2>2. ok \in BOOLEAN /\ h2.st = "recv"
    BY <1>10
  <2> QED BY <1>1, <1>2, <2>1, <2>2, AnswerRight
<1>11. Answer(k, TRUE, 0) \in Client /\ PairRight(Answer(k, TRUE, 0), conn'[c], "un")
  BY <1>7, <1>9, <1>10
<1>12. /\ cl' \in [Clients -> Client] /\ cl'[c] = Answer(cl[c], TRUE, 0)
       /\ \A d \in Clients : d # c => cl'[d] = cl[d]
  BY <1>5, <1>11, ReplyIs
<1> HIDE DEF b
<1> QED BY <1>5, <1>7, <1>8, <1>9, <1>11, <1>12, LockStep

WithKey(B, key) == [B EXCEPT !.key = key]

\* A step that changes no more of the backends than KEY files.
KeysOnly ==
  /\ Backends(backend') /\ Len(backend') = Len(backend)
  /\ \A i \in 1..Len(backend) :
        /\ backend'[i].readers = backend[i].readers /\ backend'[i].writer = backend[i].writer
        /\ backend'[i].wcnt = backend[i].wcnt /\ backend'[i].groups = backend[i].groups

LEMMA KeyPut ==
  ASSUME NetInv, NEW b \in 1..Len(backend), NEW key \in Seq(Byte),
         backend' = Put(backend, b, WithKey(backend[b], key))
  PROVE  KeysOnly
<1> DEFINE B == WithKey(backend[b], key)
<1>1. Backends(backend) /\ backend[b] \in Backend
  BY BackendsAre DEF NetInv, Typed
<1>2. /\ B \in Backend /\ B.readers = backend[b].readers /\ B.writer = backend[b].writer
      /\ B.wcnt = backend[b].wcnt /\ B.groups = backend[b].groups
  BY <1>1 DEF Backend, WithKey
<1>3. backend' = Put(backend, b, B)
  OBVIOUS
<1> HIDE DEF B
<1>4. /\ Backends(Put(backend, b, B)) /\ Len(Put(backend, b, B)) = Len(backend) /\ Put(backend, b, B)[b] = B
      /\ \A i \in 1..Len(backend) : i # b => Put(backend, b, B)[i] = backend[i]
  BY <1>1, <1>2, BackendPut
<1>5. \A i \in 1..Len(backend) : i # b => backend'[i] = backend[i]
  BY <1>3, <1>4
<1>6. backend'[b] = B /\ Backends(backend') /\ Len(backend') = Len(backend)
  BY <1>3, <1>4
<1>7. ASSUME NEW i \in 1..Len(backend)
      PROVE  /\ backend'[i].readers = backend[i].readers /\ backend'[i].writer = backend[i].writer
             /\ backend'[i].wcnt = backend[i].wcnt /\ backend'[i].groups = backend[i].groups
  <2>1. CASE i = b
    BY <1>2, <1>6, <2>1
  <2>2. CASE i # b
    BY <1>5, <2>2
  <2> QED BY <2>1, <2>2
<1> QED BY <1>6, <1>7 DEF KeysOnly

\* The handler answers a request for the KEY file with the file object fp.
FileAnswered(c, fp, ok, ret) ==
  /\ conn' = [conn EXCEPT ![c].fp = fp] /\ Reply(c, ok, ret) /\ KeysOnly /\ UNCHANGED <<files, live>>

LEMMA FileStep ==
  ASSUME NetInv, NEW c \in Clients, conn[c].st = "recv", cl[c].req # NoReq,
         NEW fp \in Fp, NEW ok, ok \in BOOLEAN, NEW ret \in Int \cup Seq(Byte),
         FileAnswered(c, fp, ok, ret), AnswerFits(cl[c], conn[c].fp, Has(c), ok, ret, fp, Has(c))
  PROVE  NetInv'
<1>1. cl[c] \in Client /\ conn[c] \in Connection /\ PairRight(cl[c], conn[c], Has(c))
  BY PairParts
<1> DEFINE h == [conn[c] EXCEPT !.fp = fp]
<1>2. h \in Connection /\ h.st = "recv" /\ h.fp = fp /\ h.lockers = conn[c].lockers /\ h.backend = conn[c].backend
  BY <1>1 DEF Connection
<1>3. conn' = [conn EXCEPT ![c] = h]
  BY DEF FileAnswered
<1> HIDE DEF h
<1>4. /\ conn' \in [Clients -> Connection] /\ conn'[c] = h /\ \A d \in Clients : d # c => conn'[d] = conn[d]
  BY <1>2, <1>3 DEF NetInv, Typed
<1>5. Answer(cl[c], ok, ret) \in Client /\ PairRight(Answer(cl[c], ok, ret), h, Has(c))
  BY <1>1, <1>2, AnswerRight
<1>6. /\ cl' \in [Clients -> Client] /\ cl'[c] = Answer(cl[c], ok, ret)
      /\ \A d \in Clients : d # c => cl'[d] = cl[d]
  BY <1>5, ReplyIs DEF FileAnswered
<1>7. KeysOnly /\ files' = files /\ live' = live
  BY DEF FileAnswered
<1>8. Typed'
  <2>1. \A d \in Clients : conn'[d].backend = conn[d].backend
    BY <1>2, <1>4
  <2> QED BY <1>4, <1>6, <1>7, <2>1 DEF NetInv, Typed, KeysOnly
<1>9. NoLockMoved
  <2>1. Len(backend) \in Nat
    BY BackendsAre DEF NetInv, Typed
  <2> QED BY <1>2, <1>4, <1>7, <2>1 DEF NoLockMoved, KeysOnly
<1>10. \A d \in Clients : d # c => OtherSame(d)
  BY <1>4, <1>6 DEF OtherSame
<1>11. PairRight(cl'[c], conn'[c], Has(c)) /\ conn'[c].st # "group"
  BY <1>2, <1>4, <1>5, <1>6
<1>12. \A i \in 1..Len(backend) : \A n \in Names :
             backend[i].groups[n] # 0 => backend'[i].groups[n] = backend[i].groups[n]
  BY <1>7 DEF KeysOnly
<1> QED BY <1>8, <1>9, <1>10, <1>11, <1>12, QuietStep

LEMMA SameKeys ==
  ASSUME NetInv, backend' = backend
  PROVE  KeysOnly
BY DEF NetInv, Typed, KeysOnly

LEMMA ServeOpenKeeps ==
  ASSUME NetInv, NEW c \in Clients, ServeOpen(c)
  PROVE  NetInv'
<1> DEFINE found == backend[conn[c].backend].key # << >> \/ cl[c].req.mode = "wb+"
           fp == IF found THEN [open |-> TRUE, idx |-> 0, dirty |-> << >>] ELSE conn[c].fp
<1>1. cl[c] \in Client /\ conn[c] \in Connection /\ PairRight(cl[c], conn[c], Has(c))
  BY PairParts
<1>2. conn[c].st = "recv" /\ cl[c].req # NoReq /\ cl[c].req.cmd = "open"
  BY ServingIs DEF ServeOpen, Cmds
<1>3. Reply(c, found, 0) /\ backend' = backend /\ UNCHANGED <<files, live>>
      /\ conn' = [conn EXCEPT ![c].fp = fp]
  BY DEF ServeOpen
<1>4. PICK ok \in BOOLEAN : ok <=> found
  OBVIOUS
<1>5. Reply(c, ok, 0)
  <2>1. ok = found
    BY <1>4
  <2> QED BY <1>3, <2>1
<1>6. fp \in Fp /\ (ok => fp.open /\ fp.idx = 0 /\ fp.dirty = << >>) /\ (~ok => fp = conn[c].fp)
  BY <1>1, <1>4 DEF Fp, Connection
<1> HIDE DEF found, fp
<1>7. ~Buffered => fp.dirty = << >>
  BY <1>1, <1>4, <1>6 DEF PairRight
<1>8. AnswerFits(cl[c], conn[c].fp, Has(c), ok, 0, fp, Has(c))
  BY <1>2, <1>6, <1>7 DEF AnswerFits, LockCmds, FileCmds, NextOffset
<1>9. FileAnswered(c, fp, ok, 0)
  BY <1>3, <1>5, SameKeys DEF FileAnswered
<1> QED BY <1>2, <1>6, <1>8, <1>9, FileStep

WithIdx(fp, i, d) == [fp EXCEPT !.idx = i, !.dirty = d]

LEMMA FpPut ==
  ASSUME NEW fp \in Fp, NEW i, NEW d
  PROVE  WithIdx(fp, i, d) = [open |-> fp.open, idx |-> i, dirty |-> d]
<1>1. fp = [open |-> fp.open, idx |-> fp.idx, dirty |-> fp.dirty]
  BY DEF Fp
<1> DEFINE half == [fp EXCEPT !.idx = i]
<1>2. half = [open |-> fp.open, idx |-> i, dirty |-> fp.dirty]
  BY <1>1
<1>3. WithIdx(fp, i, d) = [half EXCEPT !.dirty = d]
  BY DEF WithIdx
<1> HIDE DEF half
<1> QED BY <1>2, <1>3

LEMMA ServeFileKeeps ==
  ASSUME NetInv, NEW c \in Clients, ServeFile(c)
  PROVE  NetInv'
<1> DEFINE b == conn[c].backend
           fp == conn[c].fp
           f == [buf |-> Flushed(backend[b].key, fp), idx |-> fp.idx]
           r == Execute(f, cl[c].req)
           cmd == cl[c].req.cmd
<1>1. cl[c] \in Client /\ conn[c] \in Connection /\ PairRight(cl[c], conn[c], Has(c)) /\ cl[c].req \in Request
  BY PairParts
<1>2. /\ conn[c].st = "recv" /\ cl[c].req # NoReq /\ cmd \in FileCmds /\ b \in 1..Len(backend)
      /\ backend[b] \in Backend
  BY ServingIs DEF ServeFile, Cmds, FileCmds
<1>3. fp \in Fp /\ fp.idx \in Nat /\ backend[b].key \in Seq(Byte) /\ fp.open
  BY <1>1, <1>2 DEF Connection, Fp, Backend, ServeFile
<1>4. Flushed(backend[b].key, fp) \in Seq(Byte)
  BY <1>3, FlushedType
<1>5. FileType(f)
  BY <1>3, <1>4 DEF FileType
<1> HIDE DEF f
<1>6. Works(f, cmd, r)
  BY <1>1, <1>2, <1>5, Executed
<1>7. PICK keep \in IF Buffered /\ Cmd(c) = "write" THEN BOOLEAN ELSE {FALSE} :
         /\ backend' = [backend EXCEPT ![b].key = IF keep THEN Flushed(@, fp) ELSE r.f.buf]
         /\ conn' = [conn EXCEPT ![c].fp.idx = r.f.idx,
                                 ![c].fp.dirty = IF keep THEN <<fp.idx, cl[c].req.b>> ELSE << >>]
  BY DEF ServeFile, f
<1>8. Reply(c, r.ok, r.ret) /\ UNCHANGED <<files, live>>
  BY DEF ServeFile, f
<1>9. f.idx = fp.idx
  BY DEF f
<1> HIDE DEF r
<1>10. /\ r.f.buf \in Seq(Byte) /\ r.f.idx \in Nat /\ r.ok \in BOOLEAN /\ r.ret \in Int \cup Seq(Byte)
       /\ ~r.ok => r.f.idx = fp.idx
       /\ r.ok => \A io : io.offset = fp.idx => NextOffset(io, cmd, r.ret) = r.f.idx
  BY <1>6, <1>9 DEF Works, FileType
<1> DEFINE key == IF keep THEN Flushed(backend[b].key, fp) ELSE r.f.buf
           dirty == IF keep THEN <<fp.idx, cl[c].req.b>> ELSE << >>
           new == [open |-> fp.open, idx |-> r.f.idx, dirty |-> dirty]
<1>11. key \in Seq(Byte)
  BY <1>4, <1>10
<1>12. keep => cmd = "write" /\ Buffered
  BY DEF Cmd
<1>13. dirty \in {<< >>} \cup (Nat \X Seq(Byte)) /\ (~Buffered => dirty = << >>)
  <2>1. keep => cl[c].req.b \in Seq(Byte)
    BY <1>1, <1>12, RequestParts
  <2> QED BY <1>3, <1>12, <2>1
<1>14. backend' = Put(backend, b, WithKey(backend[b], key))
  BY <1>7 DEF Put, WithKey
<1> HIDE DEF key
<1>15. KeysOnly
  BY <1>2, <1>11, <1>14, KeyPut
<1>16. conn' = [conn EXCEPT ![c].fp = new]
  <2>1. conn' = [conn EXCEPT ![c].fp.idx = r.f.idx, ![c].fp.dirty = dirty]
    BY <1>7
  <2>2. conn \in [Clients -> Connection] /\ conn[c] \in [st : {"recv", "group", "ending", "done"}, backend : Nat,
                     lockers : 0..1, fp : Fp, fresh : BOOLEAN]
    BY <1>1 DEF NetInv, Typed, Connection
  <2> HIDE DEF dirty
  <2>3. conn' = [conn EXCEPT ![c].fp = WithIdx(conn[c].fp, r.f.idx, dirty)]
    BY <2>1, <2>2 DEF WithIdx
  <2>4. WithIdx(conn[c].fp, r.f.idx, dirty) = new
    BY <1>3, FpPut
  <2> QED BY <2>3, <2>4
<1> HIDE DEF dirty
<1>17. new \in Fp /\ new.open /\ new.idx = r.f.idx /\ new.dirty = dirty
  BY <1>3, <1>10, <1>13 DEF Fp
<1> HIDE DEF new, fp, b, cmd
<1>18. cl[c].req.cmd \in FileCmds /\ cl[c].req.cmd \notin LockCmds \cup {"unlock", "open", "close"}
  BY <1>2 DEF cmd, FileCmds, LockCmds
<1>19. AnswerFits(cl[c], conn[c].fp, Has(c), r.ok, r.ret, new, Has(c))
  BY <1>3, <1>10, <1>13, <1>17, <1>18 DEF AnswerFits, fp, cmd
<1>20. FileAnswered(c, new, r.ok, r.ret)
  BY <1>8, <1>15, <1>16 DEF FileAnswered
<1> QED BY <1>2, <1>10, <1>17, <1>19, <1>20, FileStep

LEMMA ServeCloseKeeps ==
  ASSUME NetInv, NEW c \in Clients, ServeClose(c)
  PROVE  NetInv'
<1> DEFINE b == conn[c].backend
           key == Flushed(backend[b].key, conn[c].fp)
<1>1. conn[c] \in Connection /\ PairRight(cl[c], conn[c], Has(c))
  BY PairParts
<1>2. /\ conn[c].st = "recv" /\ cl[c].req # NoReq /\ cl[c].req.cmd = "close" /\ b \in 1..Len(backend)
      /\ backend[b] \in Backend
  BY ServingIs DEF ServeClose, Cmds
<1>3. key \in Seq(Byte)
  BY <1>1, <1>2, FlushedType DEF Connection, Backend
<1>4. backend' = Put(backend, b, WithKey(backend[b], key))
  BY DEF ServeClose, Put, WithKey
<1> HIDE DEF key
<1>5. KeysOnly
  BY <1>2, <1>3, <1>4, KeyPut
<1>6. NoFp \in Fp /\ NoFp.dirty = << >>
  BY DEF NoFp, Fp
<1>7. conn' = [conn EXCEPT ![c].fp = NoFp] /\ Reply(c, TRUE, 0) /\ UNCHANGED <<files, live>>
  BY DEF ServeClose
<1>8. ASSUME NEW ok \in BOOLEAN, ok, Reply(c, ok, 0)
      PROVE  NetInv'
  <2>1. AnswerFits(cl[c], conn[c].fp, Has(c), ok, 0, NoFp, Has(c))
    BY <1>2, <1>6, <1>8 DEF AnswerFits, LockCmds, FileCmds
  <2>2. FileAnswered(c, NoFp, ok, 0)
    BY <1>5, <1>7, <1>8 DEF FileAnswered
  <2>3. ok \in BOOLEAN
    OBVIOUS
  <2> QED BY <1>2, <1>6, <2>1, <2>2, <2>3, FileStep
<1> QED BY <1>7, <1>8

LEMMA EndLocksKeeps ==
  ASSUME NetInv, NEW c \in Clients, EndLocks(c)
  PROVE  NetInv'
<1> DEFINE h == [conn[c] EXCEPT !.lockers = 0, !.st = "ending"]
<1>1. cl[c] \in Client /\ conn[c] \in Connection /\ PairRight(cl[c], conn[c], Has(c)) /\ conn[c].lockers \in 0..1
  BY PairParts
<1>2. /\ conn[c].st = "recv" /\ ~cl[c].up /\ cl[c].req = NoReq /\ cl' = cl /\ files' = files /\ live' = live
      /\ backend' = IF conn[c].lockers > 0 THEN Unlocked(c, conn[c].backend) ELSE backend
  BY DEF EndLocks
<1>3. h \in Connection /\ h.lockers = 0 /\ h.st = "ending" /\ h.fp = conn[c].fp /\ h.backend = conn[c].backend
  <2> DEFINE h1 == [conn[c] EXCEPT !.lockers = 0]
  <2>1. h1 \in Connection /\ h1.lockers = 0 /\ h1.fp = conn[c].fp /\ h1.backend = conn[c].backend
    BY <1>1 DEF Connection
  <2>2. h = [h1 EXCEPT !.st = "ending"]
    OBVIOUS
  <2> HIDE DEF h1, h
  <2> QED BY <2>1, <2>2 DEF Connection
<1>4. conn \in [Clients -> Connection] /\ cl \in [Clients -> Client]
  BY DEF NetInv, Typed
<1>5. conn' = [conn EXCEPT ![c] = h]
  <2>1. conn' = [conn EXCEPT ![c].lockers = 0, ![c].st = "ending"]
    BY DEF EndLocks
  <2> QED BY <1>4, <2>1
<1> HIDE DEF h
<1>6. /\ conn' \in [Clients -> Connection] /\ conn'[c] = h /\ \A d \in Clients : d # c => conn'[d] = conn[d]
  BY <1>3, <1>4, <1>5
<1>7. PairRight(cl[c], h, "un")
  <2>1. RequestRight(cl[c], "un")
    BY <1>2, NoCmd DEF RequestRight, FileCmds, LockCmds
  <2>2. ClientRight(cl[c], "un")
    BY <1>1, <1>2 DEF PairRight, ClientRight
  <2>3. HandlerRight(cl[c], h)
    BY <1>2, <1>3 DEF HandlerRight
  <2>4. OffsetRight(cl[c], h.fp)
    BY <1>2 DEF OffsetRight
  <2> QED BY <1>1, <1>3, <2>1, <2>2, <2>3, <2>4 DEF PairRight
<1>8. CASE conn[c].lockers > 0
  <2>1. conn[c].lockers = 1 /\ backend' = Unlocked(c, conn[c].backend)
    BY <1>1, <1>2, <1>8
  <2>2. Lockers(c, 0) /\ Lockers(c, conn'[c].lockers)
    BY <1>3, <1>6 DEF Lockers
  <2>3. LockMoved(c, conn[c].backend, "un")
    BY <2>1, <2>2, LockGivenBack DEF NetInv
  <2>4. PairRight(cl'[c], conn'[c], "un") /\ conn'[c].st # "group"
    BY <1>2, <1>3, <1>6, <1>7
  <2> QED BY <1>2, <1>4, <1>6, <2>2, <2>3, <2>4, LockStep
<1>9. CASE ~(conn[c].lockers > 0)
  <2>1. conn[c].lockers = 0 /\ backend' = backend
    BY <1>1, <1>2, <1>9
  <2>2. Has(c) = "un"
    BY <2>1, HasNone
  <2>3. Len(backend) \in Nat
    BY BackendsAre DEF NetInv, Typed
  <2>4. Typed'
    <3>1. \A d \in Clients : conn'[d].backend = conn[d].backend
      BY <1>3, <1>6
    <3> QED BY <1>2, <1>4, <1>6, <2>1, <3>1 DEF NetInv, Typed
  <2>5. NoLockMoved
    BY <1>3, <1>6, <2>1, <2>3 DEF NoLockMoved
  <2>6. \A d \in Clients : d # c => OtherSame(d)
    BY <1>2, <1>6 DEF OtherSame
  <2>7. PairRight(cl'[c], conn'[c], Has(c)) /\ conn'[c].st # "group"
    BY <1>2, <1>3, <1>6, <1>7, <2>2
  <2>8. \A i \in 1..Len(backend) : \A n \in Names :
             backend[i].groups[n] # 0 => backend'[i].groups[n] = backend[i].groups[n]
    BY <2>1
  <2> QED BY <2>4, <2>5, <2>6, <2>7, <2>8, QuietStep
<1> QED BY <1>8, <1>9

LEMMA EndFilesKeeps ==
  ASSUME NetInv, NEW c \in Clients, EndFiles(c)
  PROVE  NetInv'
<1> DEFINE b == conn[c].backend
           h == [conn[c] EXCEPT !.st = "done", !.fp = NoFp, !.backend = 0, !.fresh = FALSE]
           key == Flushed(backend[b].key, conn[c].fp)
<1>1. /\ cl[c] \in Client /\ conn[c] \in Connection /\ PairRight(cl[c], conn[c], Has(c))
      /\ b \in 0..Len(backend)
  BY PairParts
<1>2. /\ conn[c].st = "ending" /\ cl' = cl /\ files' = files /\ live' = live
      /\ conn' = [conn EXCEPT ![c] = h]
      /\ backend' = IF b = 0 THEN backend ELSE [backend EXCEPT ![b].key = Flushed(@, conn[c].fp)]
  BY DEF EndFiles
<1>3. ~cl[c].up /\ cl[c].req = NoReq /\ conn[c].lockers = 0
  BY <1>1, <1>2 DEF PairRight, HandlerRight
<1>4. NoFp \in Fp /\ NoFp.dirty = << >>
  BY DEF NoFp, Fp
<1>5. h \in Connection /\ h.lockers = 0 /\ h.st = "done" /\ h.fp = NoFp /\ h.backend = 0
  BY <1>1, <1>3, <1>4 DEF Connection
<1> HIDE DEF h
<1>6. /\ conn' \in [Clients -> Connection] /\ conn'[c] = h /\ \A d \in Clients : d # c => conn'[d] = conn[d]
  BY <1>2, <1>5 DEF NetInv, Typed
<1>7. KeysOnly
  <2>1. CASE b = 0
    BY <1>2, <2>1, SameKeys
  <2>2. CASE b # 0
    <3>1. Len(backend) \in Nat /\ b \in 1..Len(backend)
      BY <1>1, <2>2, BackendsAre DEF NetInv, Typed
    <3>2. backend[b] \in Backend
      BY <3>1, BackendsAre DEF NetInv, Typed
    <3>3. key \in Seq(Byte)
      BY <1>1, <3>2, FlushedType DEF Connection, Backend
    <3>4. backend' = Put(backend, b, WithKey(backend[b], key))
      BY <1>2, <2>2 DEF Put, WithKey
    <3> HIDE DEF key, b
    <3> QED BY <3>1, <3>3, <3>4, KeyPut
  <2> QED BY <2>1, <2>2
<1>8. Typed'
  <2>1. Len(backend) \in Nat
    BY BackendsAre DEF NetInv, Typed
  <2>2. \A d \in Clients : conn'[d].backend <= Len(backend)
    BY <1>5, <1>6, <2>1 DEF NetInv, Typed
  <2> QED BY <1>2, <1>6, <1>7, <2>2 DEF NetInv, Typed, KeysOnly
<1>9. NoLockMoved
  <2>1. Len(backend) \in Nat
    BY BackendsAre DEF NetInv, Typed
  <2> QED BY <1>3, <1>5, <1>6, <1>7, <2>1 DEF NoLockMoved, KeysOnly
<1>10. \A d \in Clients : d # c => OtherSame(d)
  BY <1>2, <1>6 DEF OtherSame
<1>11. PairRight(cl'[c], conn'[c], Has(c)) /\ conn'[c].st # "group"
  <2>1. RequestRight(cl[c], Has(c)) /\ ClientRight(cl[c], Has(c))
    BY <1>1 DEF PairRight
  <2>2. HandlerRight(cl[c], h)
    BY <1>3, <1>5 DEF HandlerRight
  <2>3. OffsetRight(cl[c], h.fp)
    BY <1>3 DEF OffsetRight
  <2> QED BY <1>2, <1>4, <1>5, <1>6, <2>1, <2>2, <2>3 DEF PairRight
<1>12. \A i \in 1..Len(backend) : \A n \in Names :
             backend[i].groups[n] # 0 => backend'[i].groups[n] = backend[i].groups[n]
  BY <1>7 DEF KeysOnly
<1> QED BY <1>8, <1>9, <1>10, <1>11, <1>12, QuietStep

-----------------------------------------------------------------------------
(* The steps that add and unlink groups *)

\* Connections that only differ in what they are taken to agree on.
OnlyFresh(base) ==
  /\ base \in [Clients -> Connection]
  /\ \A d \in Clients : base[d].st = conn[d].st /\ base[d].backend = conn[d].backend
                        /\ base[d].lockers = conn[d].lockers /\ base[d].fp = conn[d].fp

Freshless(h) == [h EXCEPT !.fresh = FALSE]

LEMMA FreshlessIs ==
  ASSUME NEW h \in Connection
  PROVE  Freshless(h) \in Connection /\ Freshless(h).st = h.st /\ Freshless(h).backend = h.backend
         /\ Freshless(h).lockers = h.lockers /\ Freshless(h).fp = h.fp
BY DEF Connection, Freshless

LEMMA StaleIs ==
  ASSUME NetInv, NEW T, NEW base, base = [d \in Clients |-> IF d \in T THEN Freshless(conn[d]) ELSE conn[d]]
  PROVE  OnlyFresh(base)
<1>1. \A d \in Clients : conn[d] \in Connection
  BY DEF NetInv, Typed
<1>2. ASSUME NEW d \in Clients
      PROVE  base[d] \in Connection /\ base[d].st = conn[d].st /\ base[d].backend = conn[d].backend
             /\ base[d].lockers = conn[d].lockers /\ base[d].fp = conn[d].fp
  <2>1. CASE d \in T
    <3>1. base[d] = Freshless(conn[d])
      BY <2>1
    <3> QED BY <1>1, <3>1, FreshlessIs
  <2>2. CASE d \notin T
    BY <1>1, <2>2
  <2> QED BY <2>1, <2>2
<1>3. base \in [Clients -> Connection]
  BY <1>2
<1> QED BY <1>2, <1>3 DEF OnlyFresh

\* Connection c goes on to state st.
GoesOn(c, st) ==
  /\ conn' \in [Clients -> Connection] /\ conn'[c].st = st
  /\ \A d \in Clients : conn'[d].backend = conn[d].backend /\ conn'[d].lockers = conn[d].lockers
                        /\ conn'[d].fp = conn[d].fp
  /\ \A d \in Clients : d # c => conn'[d].st = conn[d].st

LEMMA GoesOnIs ==
  ASSUME NetInv, NEW c \in Clients, NEW base, OnlyFresh(base), NEW st \in {"recv", "group"},
         conn' = [base EXCEPT ![c].st = st]
  PROVE  GoesOn(c, st)
<1> DEFINE h == [base[c] EXCEPT !.st = st]
<1>1. base[c] \in Connection
  BY DEF OnlyFresh
<1>2. h \in Connection /\ h.st = st /\ h.backend = base[c].backend /\ h.lockers = base[c].lockers
      /\ h.fp = base[c].fp
  BY <1>1 DEF Connection
<1>3. conn' = [base EXCEPT ![c] = h]
  OBVIOUS
<1> HIDE DEF h
<1>4. conn' \in [Clients -> Connection] /\ conn'[c] = h /\ \A d \in Clients : d # c => conn'[d] = base[d]
  BY <1>2, <1>3 DEF OnlyFresh
<1>5. ASSUME NEW d \in Clients
      PROVE  conn'[d].backend = conn[d].backend /\ conn'[d].lockers = conn[d].lockers
             /\ conn'[d].fp = conn[d].fp /\ (d # c => conn'[d].st = conn[d].st)
  <2>1. CASE d = c
    BY <1>2, <1>4, <2>1 DEF OnlyFresh
  <2>2. CASE d # c
    BY <1>4, <2>2 DEF OnlyFresh
  <2> QED BY <2>1, <2>2
<1> QED BY <1>2, <1>4, <1>5 DEF GoesOn

LEMMA ConnOnlyFresh ==
  ASSUME NetInv
  PROVE  OnlyFresh(conn)
BY DEF NetInv, Typed, OnlyFresh

LEMMA StalePath ==
  ASSUME NetInv, NEW p
  PROVE  OnlyFresh(Stale(p))
<1>1. Stale(p) = [d \in Clients |-> IF d \in {e \in Clients : cl[e].path = p}
                                     THEN Freshless(conn[d]) ELSE conn[d]]
  BY DEF Stale, Freshless
<1> QED BY <1>1, StaleIs

\* The backends and the tables of the server after a step on groups.
TablesTyped ==
  /\ Backends(backend') /\ Len(backend') >= Len(backend)
  /\ files' \in [Groups -> 0..Len(backend')] /\ live' \in [Groups -> 0..Len(backend')]
LocksKept ==
  /\ Len(backend') >= Len(backend)
  /\ \A b \in 1..Len(backend) :
        backend'[b].readers = backend[b].readers /\ backend'[b].writer = backend[b].writer
        /\ backend'[b].wcnt = backend[b].wcnt
  /\ \A b \in (Len(backend) + 1)..Len(backend') :
        backend'[b].readers = 0 /\ backend'[b].writer = Nobody /\ backend'[b].wcnt = 0

LEMMA GroupsStep ==
  ASSUME NetInv, NEW c \in Clients, NEW st, GoesOn(c, st), TablesTyped, LocksKept,
         cl' \in [Clients -> Client], \A d \in Clients : d # c => cl'[d] = cl[d],
         PairRight(cl'[c], conn'[c], Has(c)), \A d \in Clients : Made(d)'
  PROVE  NetInv'
<1>1. Len(backend) \in Nat /\ Len(backend') \in Nat /\ Len(backend') >= Len(backend)
  BY BackendsAre DEF NetInv, Typed, TablesTyped
<1>2. \A d \in Clients : conn'[d].backend <= Len(backend')
  <2>1. \A d \in Clients : conn[d].backend <= Len(backend) /\ conn[d].backend \in Nat
    BY DEF NetInv, Typed, Connection
  <2>2. \A d \in Clients : conn'[d].backend = conn[d].backend
    BY DEF GoesOn
  <2> QED BY <1>1, <2>1, <2>2
<1>3. Typed'
  BY <1>2 DEF Typed, TablesTyped, GoesOn
<1>4. NoLockMoved
  BY DEF NoLockMoved, LocksKept, GoesOn
<1>5. AllLocksRight' /\ Held' /\ \A d \in Clients : Has(d)' = Has(d)
  BY <1>3, <1>4, LocksStay DEF NetInv
<1>6. \A d \in Clients : d # c => OtherSame(d)
  BY DEF GoesOn, OtherSame
<1>7. Paired(c)'
  BY <1>5 DEF Paired
<1> QED BY <1>3, <1>5, <1>6, <1>7, StepRight DEF Step

\* Groups are taken off the table of a backend only by the writer, so that
\* nobody else is adding a group there.
LEMMA MadeByOthers ==
  ASSUME NetInv, NEW c \in Clients, NEW b \in 1..Len(backend), conn[c].backend = b, Has(c) = "w",
         \A i \in 1..Len(backend) : i # b => backend'[i] = backend[i],
         \A d \in Clients : d # c => OtherSame(d),
         conn'[c].st = "group" => cl'[c].req.cmd # "add_group"
  PROVE  \A d \in Clients : Made(d)'
<1> SUFFICES ASSUME NEW d \in Clients, conn'[d].st = "group", cl'[d].req.cmd = "add_group"
             PROVE  conn'[d].backend # 0 /\ backend'[conn'[d].backend].groups[cl'[d].req.name] # 0
  BY DEF Made
<1>1. d # c
  OBVIOUS
<1>2. conn[d].st = "group" /\ cl[d].req.cmd = "add_group" /\ conn'[d].backend = conn[d].backend /\ cl'[d] = cl[d]
  BY <1>1 DEF OtherSame
<1>3. conn[d].backend # 0 /\ backend[conn[d].backend].groups[cl[d].req.name] # 0
  BY <1>2 DEF NetInv, Made
<1>4. conn[d].backend \in 1..Len(backend)
  BY <1>3, PairParts
<1>5. Has(d) # "un"
  BY <1>2, PairParts DEF PairRight, RequestRight
<1>6. conn[d].backend # b
  BY <1>1, <1>5, HoldersExclude DEF NetInv
<1> QED BY <1>2, <1>3, <1>4, <1>6

\* The group table of a backend gets other entries.
WithGroups(B, g) == [B EXCEPT !.groups = g]

LEMMA TablePut ==
  ASSUME NetInv, NEW b \in 1..Len(backend), NEW g \in [Names -> 0..Len(backend)],
         backend' = Put(backend, b, WithGroups(backend[b], g)), files' \in [Groups -> 0..Len(backend)], live' = live
  PROVE  TablesTyped /\ LocksKept /\ \A i \in 1..Len(backend) : i # b => backend'[i] = backend[i]
<1> DEFINE B == WithGroups(backend[b], g)
<1>1. /\ backend \in Seq(Backend) /\ Len(backend) \in Nat /\ Len(backend) >= 1 /\ backend[b] \in Backend
      /\ \A i \in 1..Len(backend) : backend[i].groups \in [Names -> 0..Len(backend)]
      /\ live \in [Groups -> 0..Len(backend)]
  BY BackendsAre DEF NetInv, Typed, Backends
<1>2. g \in [Names -> Nat]
  BY <1>1
<1>3. /\ B \in Backend /\ B.groups = g /\ B.readers = backend[b].readers /\ B.writer = backend[b].writer
      /\ B.wcnt = backend[b].wcnt
  BY <1>1, <1>2 DEF Backend, WithGroups
<1>4. backend' = [backend EXCEPT ![b] = B]
  BY DEF Put
<1> HIDE DEF B
<1>5. /\ backend' \in Seq(Backend) /\ Len(backend') = Len(backend) /\ backend'[b] = B
      /\ \A i \in 1..Len(backend) : i # b => backend'[i] = backend[i]
  BY <1>1, <1>3, <1>4, PutIs
<1>6. ASSUME NEW i \in 1..Len(backend), NEW n \in Names PROVE backend'[i].groups[n] <= Len(backend)
  <2>1. CASE i = b
    <3>1. backend'[i].groups = g
      BY <1>3, <1>5, <2>1
    <3>2. g[n] \in 0..Len(backend)
      OBVIOUS
    <3> QED BY <1>1, <3>1, <3>2
  <2>2. CASE i # b
    <3>1. backend'[i].groups = backend[i].groups
      BY <1>5, <2>2
    <3>2. backend[i].groups[n] \in 0..Len(backend)
      BY <1>1
    <3> QED BY <1>1, <3>1, <3>2
  <2> QED BY <2>1, <2>2
<1>7. Backends(backend')
  <2>1. DOMAIN backend' = 1..Len(backend')
    BY <1>5
  <2>2. \A i \in DOMAIN backend' : \A n \in Names : backend'[i].groups[n] <= Len(backend')
    BY <1>5, <1>6, <2>1
  <2> QED BY <1>1, <1>5, <2>2 DEF Backends
<1>8. TablesTyped
  BY <1>1, <1>5, <1>7 DEF TablesTyped
<1>9. \A i \in 1..Len(backend) :
        backend'[i].readers = backend[i].readers /\ backend'[i].writer = backend[i].writer
        /\ backend'[i].wcnt = backend[i].wcnt
  <2>1. TAKE i \in 1..Len(backend)
  <2>2. CASE i = b
    BY <1>3, <1>5, <2>2
  <2>3. CASE i # b
    BY <1>5, <2>3
  <2> QED BY <2>2, <2>3
<1>10. LocksKept
  BY <1>1, <1>5, <1>9 DEF LocksKept
<1> QED BY <1>5, <1>8, <1>10

LEMMA GrownKeeps ==
  ASSUME NetInv, Grown(backend, backend'), files' \in [Groups -> 0..Len(backend)], live' \in [Groups -> 0..Len(backend')]
  PROVE  TablesTyped /\ LocksKept
<1>1. Len(backend) \in Nat /\ Len(backend') \in Nat /\ Len(backend') >= Len(backend) /\ Backends(backend')
  BY BackendsAre DEF NetInv, Typed, Grown
<1>2. files' \in [Groups -> 0..Len(backend')]
  BY <1>1
<1> QED BY <1>1, <1>2 DEF Grown, TablesTyped, LocksKept

LEMMA ServeGroupKeeps ==
  ASSUME NetInv, NEW c \in Clients, ServeGroup(c)
  PROVE  NetInv'
<1> DEFINE b == conn[c].backend
           name == cl[c].req.name
           g == WithGroup(backend, b, name)
<1>1. cl[c] \in Client /\ conn[c] \in Connection /\ PairRight(cl[c], conn[c], Has(c)) /\ cl[c].req \in Request
  BY PairParts
<1>2. /\ conn[c].st = "recv" /\ cl[c].req # NoReq /\ cl[c].req.cmd \in {"add_group", "unlink_group"}
      /\ b \in 1..Len(backend) /\ backend[b] \in Backend
  BY ServingIs DEF ServeGroup, Cmds, GroupCmds
<1>3. name \in Names
  BY <1>1, <1>2, RequestParts
<1>4. cl' = cl /\ files' = files /\ live' = live
  BY DEF ServeGroup
<1>5. /\ Backends(backend) /\ Len(backend) \in Nat /\ cl \in [Clients -> Client]
      /\ files \in [Groups -> 0..Len(backend)] /\ live \in [Groups -> 0..Len(backend)]
      /\ backend[b].groups \in [Names -> 0..Len(backend)]
  BY <1>2, BackendsAre DEF NetInv, Typed
<1>6. ASSUME GoesOn(c, "group") PROVE PairRight(cl'[c], conn'[c], Has(c))
  <2>1. conn'[c].st = "group" /\ conn'[c].backend # 0 /\ conn'[c].fp = conn[c].fp
    BY <1>2, <1>6 DEF GoesOn
  <2>2. HandlerRight(cl[c], conn'[c])
    BY <1>2, <2>1 DEF HandlerRight, GroupCmds
  <2> QED BY <1>1, <1>4, <2>1, <2>2 DEF PairRight
<1>7. CASE cl[c].req.cmd = "add_group"
  <2>1. backend' = g.bs /\ conn' = [conn EXCEPT ![c].st = "group"]
    BY <1>7 DEF ServeGroup, Cmd
  <2>2. GoesOn(c, "group")
    BY <2>1, ConnOnlyFresh, GoesOnIs
  <2>3. Grown(backend, g.bs) /\ g.b \in 1..Len(g.bs) /\ g.bs[b].groups[name] = g.b
    BY <1>2, <1>3, <1>5, WithGroupIs
  <2> HIDE DEF g
  <2>4. Len(g.bs) >= Len(backend) /\ Len(g.bs) \in Nat
    BY <2>3, BackendsAre DEF Grown
  <2>5. TablesTyped /\ LocksKept
    <3>1. live \in [Groups -> 0..Len(g.bs)]
      BY <1>5, <2>4
    <3> QED BY <1>4, <1>5, <2>1, <2>3, <3>1, GrownKeeps
  <2>6. ASSUME NEW d \in Clients PROVE Made(d)'
    <3>1. conn'[d].backend = conn[d].backend
      BY <2>2 DEF GoesOn
    <3>2. CASE d = c
      <4>1. backend'[b].groups[name] # 0 /\ b # 0
        BY <1>2, <2>1, <2>3, <2>4
      <4> QED BY <1>4, <3>1, <3>2, <4>1 DEF Made
    <3>3. CASE d # c /\ conn[d].st = "group" /\ cl[d].req.cmd = "add_group"
      <4>1. conn[d].backend # 0 /\ backend[conn[d].backend].groups[cl[d].req.name] # 0
        BY <3>3 DEF NetInv, Made
      <4>2. conn[d].backend \in 1..Len(backend) /\ cl[d].req.name \in Names
        BY <3>3, <4>1, PairParts, RequestParts
      <4>3. backend'[conn[d].backend].groups[cl[d].req.name] # 0
        BY <2>1, <2>3, <4>1, <4>2 DEF Grown
      <4> QED BY <1>4, <3>1, <4>1, <4>3 DEF Made
    <3>4. CASE d # c /\ ~(conn[d].st = "group" /\ cl[d].req.cmd = "add_group")
      BY <1>4, <2>2, <3>4 DEF Made, GoesOn
    <3> QED BY <3>2, <3>3, <3>4
  <2> QED BY <1>4, <1>5, <1>6, <2>2, <2>5, <2>6, GroupsStep
<1>8. CASE cl[c].req.cmd = "unlink_group"
  <2> DEFINE gs == [backend[b].groups EXCEPT ![name] = 0]
  <2>1. /\ backend' = [backend EXCEPT ![b].groups[name] = 0]
        /\ conn' = [Stale(Append(cl[c].path, cl[c].req.name)) EXCEPT ![c].st = "group"]
    BY <1>8 DEF ServeGroup, Cmd
  <2>2. GoesOn(c, "group")
    BY <2>1, StalePath, GoesOnIs
  <2>3. backend' = Put(backend, b, WithGroups(backend[b], gs))
    BY <2>1 DEF Put, WithGroups
  <2>4. gs \in [Names -> 0..Len(backend)]
    <3>1. 0 \in 0..Len(backend)
      BY <1>5
    <3>2. \A old \in [Names -> 0..Len(backend)] : [old EXCEPT ![name] = 0] \in [Names -> 0..Len(backend)]
      BY <3>1
    <3> HIDE DEF name, b
    <3> QED BY <1>5, <3>2
  <2> HIDE DEF gs
  <2>5. TablesTyped /\ LocksKept /\ \A i \in 1..Len(backend) : i # b => backend'[i] = backend[i]
    <3> HIDE DEF b
    <3> QED BY <1>2, <1>4, <1>5, <2>3, <2>4, TablePut
  <2>6. Has(c) = "w"
    BY <1>1, <1>8 DEF PairRight, RequestRight
  <2>7. \A d \in Clients : d # c => OtherSame(d)
    BY <1>4, <2>2 DEF OtherSame, GoesOn
  <2>8. cl'[c].req.cmd # "add_group"
    BY <1>4, <1>8
  <2>9. \A d \in Clients : Made(d)'
    BY <1>2, <2>5, <2>6, <2>7, <2>8, MadeByOthers
  <2> QED BY <1>4, <1>5, <1>6, <2>2, <2>5, <2>9, GroupsStep
<1> QED BY <1>2, <1>7, <1>8

\* The handler answers a request on groups after it brought the cache in step.
LEMMA GroupsAnswered ==
  ASSUME NetInv, NEW c \in Clients, conn[c].st = "group", cl[c].req.cmd \in GroupCmds, GoesOn(c, "recv"),
         NEW ok, ok \in BOOLEAN, Reply(c, ok, 0), backend' = backend, live' = live,
         files' \in [Groups -> 0..Len(backend)]
  PROVE  NetInv'
<1>1. /\ cl[c] \in Client /\ conn[c] \in Connection /\ PairRight(cl[c], conn[c], Has(c)) /\ cl[c].req \in Request
      /\ cl[c].req # NoReq
  BY PairParts, NoCmd
<1>2. /\ conn'[c] \in Connection /\ conn'[c].st = "recv" /\ conn'[c].fp = conn[c].fp
      /\ conn' \in [Clients -> Connection] /\ \A d \in Clients : conn'[d].backend = conn[d].backend
  BY DEF GoesOn
<1>3. AnswerFits(cl[c], conn[c].fp, Has(c), ok, 0, conn'[c].fp, Has(c))
  BY <1>1, <1>2 DEF AnswerFits, LockCmds, FileCmds, GroupCmds, PairRight
<1>4. Answer(cl[c], ok, 0) \in Client /\ PairRight(Answer(cl[c], ok, 0), conn'[c], Has(c))
  BY <1>1, <1>2, <1>3, AnswerRight
<1>5. /\ cl' \in [Clients -> Client] /\ cl'[c] = Answer(cl[c], ok, 0)
      /\ \A d \in Clients : d # c => cl'[d] = cl[d]
  BY <1>4, ReplyIs
<1>6. Typed'
  BY <1>2, <1>5 DEF NetInv, Typed
<1>7. NoLockMoved
  <2>1. Len(backend) \in Nat
    BY BackendsAre DEF NetInv, Typed
  <2> QED BY <2>1 DEF NoLockMoved, GoesOn
<1>8. \A d \in Clients : d # c => OtherSame(d)
  BY <1>5 DEF GoesOn, OtherSame
<1>9. PairRight(cl'[c], conn'[c], Has(c)) /\ conn'[c].st # "group"
  BY <1>2, <1>4, <1>5
<1> QED BY <1>6, <1>7, <1>8, <1>9, QuietStep

LEMMA ServeGroupFilesKeeps ==
  ASSUME NetInv, NEW c \in Clients, ServeGroupFiles(c)
  PROVE  NetInv'
<1> DEFINE p == Append(cl[c].path, cl[c].req.name)
           g == WithGroup(backend, conn[c].backend, cl[c].req.name)
           n == IF cl[c].req.cmd = "add_group" THEN g.b ELSE 0
<1>1. /\ conn[c].st = "group" /\ cl[c].req.cmd \in GroupCmds /\ backend' = backend /\ live' = live
      /\ Reply(c, TRUE, 0) /\ files' = [files EXCEPT ![p] = n]
  BY DEF ServeGroupFiles, Cmd, GroupCmds
<1>2. GoesOn(c, "recv")
  <2>1. CASE cl[c].req.cmd = "add_group"
    <3>1. conn' = [conn EXCEPT ![c].st = "recv"]
      BY <2>1 DEF ServeGroupFiles, Cmd
    <3> QED BY <3>1, ConnOnlyFresh, GoesOnIs
  <2>2. CASE cl[c].req.cmd # "add_group"
    <3>1. conn' = [Stale(p) EXCEPT ![c].st = "recv"]
      BY <2>2 DEF ServeGroupFiles, Cmd
    <3> HIDE DEF p
    <3> QED BY <3>1, StalePath, GoesOnIs
  <2> QED BY <2>1, <2>2
<1>3. n \in 0..Len(backend)
  <2>1. Len(backend) \in Nat /\ Backends(backend)
    BY BackendsAre DEF NetInv, Typed
  <2>2. CASE cl[c].req.cmd = "add_group"
    <3>1. conn[c].backend # 0 /\ backend[conn[c].backend].groups[cl[c].req.name] # 0
      BY <1>1, <2>2 DEF NetInv, Made
    <3>2. conn[c].backend \in 1..Len(backend) /\ cl[c].req.name \in Names
      BY <2>2, <3>1, PairParts, RequestParts
    <3>3. g.b = backend[conn[c].backend].groups[cl[c].req.name]
      BY <3>1 DEF WithGroup
    <3>4. backend[conn[c].backend].groups \in [Names -> 0..Len(backend)]
      BY <2>1, <3>2, BackendsAre
    <3> HIDE DEF g
    <3> QED BY <2>2, <3>2, <3>3, <3>4
  <2>3. CASE cl[c].req.cmd # "add_group"
    BY <2>1, <2>3
  <2> QED BY <2>2, <2>3
<1> HIDE DEF p, n
<1>4. files' \in [Groups -> 0..Len(backend)]
  <2>1. files \in [Groups -> 0..Len(backend)]
    BY DEF NetInv, Typed
  <2> QED BY <1>1, <1>3, <2>1
<1>5. ASSUME NEW ok, ok \in BOOLEAN, Reply(c, ok, 0) PROVE NetInv'
  BY <1>1, <1>2, <1>4, <1>5, GroupsAnswered
<1> QED BY <1>1, <1>5

\* The paths below that of a client.
Below(c) == {p \in Groups : IsStrictPrefix(cl[c].path, p)}
StaleBelow(c) ==
  [d \in Clients |-> IF d \in {e \in Clients : cl[e].path \in Below(c)} THEN Freshless(conn[d]) ELSE conn[d]]

LEMMA ServeUnlinkAllKeeps ==
  ASSUME NetInv, NEW c \in Clients, ServeUnlinkAll(c)
  PROVE  NetInv'
<1> DEFINE b == conn[c].backend
           gs == [n \in Names |-> 0]
<1>1. OnlyFresh(StaleBelow(c))
  BY StaleIs DEF StaleBelow
<1>2. [d \in Clients |-> IF cl[d].path \in Below(c) THEN [conn[d] EXCEPT !.fresh = FALSE] ELSE conn[d]] = StaleBelow(c)
  BY DEF StaleBelow, Freshless
<1>3. /\ Backends(backend) /\ Len(backend) \in Nat /\ cl \in [Clients -> Client]
      /\ files \in [Groups -> 0..Len(backend)] /\ live \in [Groups -> 0..Len(backend)]
  BY BackendsAre DEF NetInv, Typed
<1>4. CASE Serving(c, {"unlink_all"}) /\ backend' = [backend EXCEPT ![b].groups = gs]
           /\ conn' = [StaleBelow(c) EXCEPT ![c].st = "group"] /\ UNCHANGED <<cl, files, live>>
  <2>1. /\ cl[c] \in Client /\ conn[c] \in Connection /\ PairRight(cl[c], conn[c], Has(c)) /\ cl[c].req \in Request
    BY PairParts
  <2>2. cl[c].req # NoReq /\ cl[c].req.cmd = "unlink_all" /\ b \in 1..Len(backend)
    BY <1>4, ServingIs DEF Cmds, GroupCmds
  <2>3. GoesOn(c, "group")
    BY <1>1, <1>4, GoesOnIs
  <2>4. backend' = Put(backend, b, WithGroups(backend[b], gs))
    BY <1>4 DEF Put, WithGroups
  <2>5. gs \in [Names -> 0..Len(backend)]
    BY <1>3
  <2> HIDE DEF gs
  <2>6. TablesTyped /\ LocksKept /\ \A i \in 1..Len(backend) : i # b => backend'[i] = backend[i]
    <3>1. b \in 1..Len(backend) /\ files' \in [Groups -> 0..Len(backend)] /\ live' = live
      BY <1>3, <1>4, <2>2
    <3> HIDE DEF b
    <3> QED BY <2>4, <2>5, <3>1, TablePut
  <2>7. Has(c) = "w"
    BY <2>1, <2>2 DEF PairRight, RequestRight
  <2>8. \A d \in Clients : d # c => OtherSame(d)
    BY <1>4, <2>3 DEF OtherSame, GoesOn
  <2>9. \A d \in Clients : Made(d)'
    <3>1. cl'[c].req.cmd # "add_group"
      BY <1>4, <2>2
    <3> QED BY <2>2, <2>6, <2>7, <2>8, <3>1, MadeByOthers
  <2>10. PairRight(cl'[c], conn'[c], Has(c))
    <3>1. conn'[c].st = "group" /\ conn'[c].backend # 0 /\ conn'[c].fp = conn[c].fp
      BY <2>2, <2>3 DEF GoesOn
    <3>2. HandlerRight(cl[c], conn'[c])
      BY <2>2, <3>1 DEF HandlerRight, GroupCmds
    <3> QED BY <1>4, <2>1, <3>1, <3>2 DEF PairRight
  <2> QED BY <1>3, <1>4, <2>3, <2>6, <2>9, <2>10, GroupsStep
<1>5. CASE /\ conn[c].st = "group" /\ cl[c].req.cmd = "unlink_all"
           /\ files' = [p \in Groups |-> IF p \in Below(c) THEN 0 ELSE files[p]]
           /\ conn' = [StaleBelow(c) EXCEPT ![c].st = "recv"]
           /\ Reply(c, TRUE, 0) /\ UNCHANGED <<backend, live>>
  <2>1. GoesOn(c, "recv")
    BY <1>1, <1>5, GoesOnIs
  <2>2. files' \in [Groups -> 0..Len(backend)]
    <3>1. 0 \in 0..Len(backend)
      BY <1>3
    <3> QED BY <1>3, <1>5, <3>1
  <2>3. ASSUME NEW ok, ok \in BOOLEAN, Reply(c, ok, 0) PROVE NetInv'
    BY <1>5, <2>1, <2>2, <2>3, GroupsAnswered DEF GroupCmds
  <2> QED BY <1>5, <2>3
<1> QED BY <1>2, <1>4, <1>5 DEF ServeUnlinkAll, Below, Cmd

-----------------------------------------------------------------------------
(* The invariant holds *)

LEMMA ServerGroupKeeps ==
  ASSUME NetInv, NEW n \in Names, ServerGroup(n)
  PROVE  NetInv'
<1> DEFINE g == WithGroup(backend, Root, n)
<1>1. /\ Backends(backend) /\ Len(backend) \in Nat /\ Root \in 1..Len(backend)
      /\ cl' = cl /\ conn' = conn /\ files' = files /\ backend' = g.bs /\ live' = [live EXCEPT ![<<n>>] = g.b]
      /\ files \in [Groups -> 0..Len(backend)] /\ live \in [Groups -> 0..Len(backend)]
  BY BackendsAre DEF NetInv, Typed, ServerGroup, Root
<1>2. Grown(backend, g.bs) /\ g.b \in 1..Len(g.bs)
  BY <1>1, WithGroupIs
<1> HIDE DEF g
<1>3. Backends(g.bs) /\ Len(g.bs) \in Nat /\ Len(g.bs) >= Len(backend)
  BY <1>2, BackendsAre DEF Grown
<1>4. live' \in [Groups -> 0..Len(g.bs)] /\ files' \in [Groups -> 0..Len(g.bs)]
  <2>1. live \in [Groups -> 0..Len(g.bs)] /\ files \in [Groups -> 0..Len(g.bs)]
    BY <1>1, <1>3
  <2>2. g.b \in 0..Len(g.bs)
    BY <1>2, <1>3
  <2> QED BY <1>1, <2>1, <2>2
<1>5. \A d \in Clients : conn[d].backend \in 0..Len(backend)
  BY PairParts
<1>6. Typed'
  <2>1. \A d \in Clients : conn[d].backend <= Len(g.bs)
    BY <1>1, <1>3, <1>5
  <2>2. cl \in [Clients -> Client] /\ conn \in [Clients -> Connection]
    BY DEF NetInv, Typed
  <2> QED BY <1>1, <1>3, <1>4, <2>1, <2>2 DEF Typed
<1>7. NoLockMoved
  BY <1>1, <1>2 DEF NoLockMoved, Grown
<1>8. AllLocksRight' /\ Held' /\ \A d \in Clients : Has(d)' = Has(d)
  BY <1>6, <1>7, LocksStay DEF NetInv
<1>9. ASSUME NEW d \in Clients PROVE Paired(d)' /\ Made(d)'
  <2>1. Paired(d)'
    BY <1>1, <1>8 DEF Paired, NetInv
  <2>2. Made(d)'
    <3>1. SUFFICES ASSUME conn[d].st = "group", cl[d].req.cmd = "add_group"
                   PROVE  conn[d].backend # 0 /\ backend'[conn[d].backend].groups[cl[d].req.name] # 0
      BY <1>1 DEF Made
    <3>2. conn[d].backend # 0 /\ backend[conn[d].backend].groups[cl[d].req.name] # 0
      BY <3>1 DEF NetInv, Made
    <3>3. conn[d].backend \in 1..Len(backend) /\ cl[d].req.name \in Names
      BY <3>1, <3>2, PairParts, RequestParts
    <3> QED BY <1>1, <1>2, <3>2, <3>3 DEF Grown
  <2> QED BY <2>1, <2>2
<1> QED BY <1>6, <1>8, <1>9 DEF NetInv

\* In the beginning nobody is connected and there is the root alone.
LEMMA InitRight ==
  ASSUME Init
  PROVE  NetInv
<1> DEFINE root == [NewBackend EXCEPT !.key = <<2, EndOfLine>>]
           client == [up |-> FALSE, path |-> << >>, req |-> NoReq, rep |-> NoReq, lock |-> "un", io |-> NoIo]
           handler == [st |-> "done", backend |-> 0, lockers |-> 0, fp |-> NoFp, fresh |-> FALSE]
<1>1. cl = [c \in Clients |-> client] /\ conn = [c \in Clients |-> handler] /\ backend = <<root>>
      /\ files = [p \in Groups |-> 0] /\ live = [p \in Groups |-> 0]
  BY DEF Init
<1>2. <<2, EndOfLine>> \in Seq(Byte)
  BY DEF Byte, EndOfLine
<1>3. root \in Backend /\ root.readers = 0 /\ root.writer = Nobody /\ root.wcnt = 0
      /\ \A n \in Names : root.groups[n] = 0
  BY <1>2, NewBackendType DEF NewBackend, Backend
<1>4. client \in Client /\ client.req = NoReq /\ client.rep = NoReq /\ ~client.up /\ client.lock = "un" /\ client.io = NoIo
  <2>1. NoReq \in Request /\ NoReq \in Response /\ NoIo \in Io /\ << >> \in Paths
    BY PathsAssumption DEF Request, Response, NoIo, Io
  <2> QED BY <2>1 DEF Client
<1>5. handler \in Connection /\ handler.st = "done" /\ handler.backend = 0 /\ handler.lockers = 0
      /\ handler.fp.dirty = << >>
  <2>1. NoFp \in Fp /\ NoFp.dirty = << >>
    BY DEF NoFp, Fp
  <2> QED BY <2>1 DEF Connection
<1> HIDE DEF root, client, handler
<1>6. /\ Len(backend) = 1 /\ DOMAIN backend = 1..1 /\ backend[1] = root /\ backend \in Seq(Backend)
  BY <1>1, <1>3
<1>7. Backends(backend)
  BY <1>3, <1>6 DEF Backends
<1>8. Typed
  BY <1>1, <1>4, <1>5, <1>6, <1>7 DEF Typed
<1>9. AllLocksRight
  <2>1. Holders(1) = {}
    BY <1>1, <1>5 DEF Holders
  <2>2. Cardinality({}) = 0
    BY FS_EmptySet
  <2>3. LocksRight(1)
    BY <1>3, <1>6, <2>1, <2>2 DEF LocksRight
  <2> QED BY <1>6, <2>3 DEF AllLocksRight
<1>10. Held
  BY <1>1, <1>5 DEF Held
<1>11. ASSUME NEW c \in Clients PROVE Paired(c) /\ Made(c)
  <2>1. cl[c] = client /\ conn[c] = handler /\ Has(c) = "un"
    BY <1>1, <1>5 DEF Has
  <2>2. PairRight(client, handler, "un")
    BY <1>4, <1>5, NoCmd DEF PairRight, RequestRight, ClientRight, HandlerRight, OffsetRight, LockCmds, FileCmds, GroupCmds
  <2>3. Made(c)
    BY <1>5, <2>1 DEF Made
  <2> QED BY <2>1, <2>2, <2>3 DEF Paired
<1> QED BY <1>8, <1>9, <1>10, <1>11 DEF NetInv

LEMMA StepKeeps ==
  ASSUME NetInv, [Next]_vars
  PROVE  NetInv'
<1>1. CASE UNCHANGED vars
  <2>1. cl' = cl /\ conn' = conn /\ backend' = backend /\ files' = files /\ live' = live
    BY <1>1 DEF vars
  <2>2. Typed' /\ AllLocksRight' /\ Held'
    BY <2>1 DEF NetInv, Typed, AllLocksRight, LocksRight, Holders, Held
  <2>3. \A c \in Clients : Paired(c)' /\ Made(c)'
    BY <2>1 DEF NetInv, Paired, Has, Made
  <2> QED BY <2>2, <2>3 DEF NetInv
<1>2. ASSUME NEW c \in Clients, NEW p \in Paths, Connect(c, p) PROVE NetInv'
  BY <1>2, ConnectKeeps
<1>3. ASSUME NEW c \in Clients,
             \/ Disconnect(c) \/ CallLock(c) \/ CallUnlock(c) \/ CallFile(c) \/ CallClose(c)
             \/ CallGroup(c) \/ CallUnlinkAll(c) \/ Receive(c)
      PROVE  NetInv'
  BY <1>3, DisconnectKeeps, CallLockKeeps, CallUnlockKeeps, CallFileKeeps, CallCloseKeeps, CallGroupKeeps,
     CallUnlinkAllKeeps, ReceiveKeeps
<1>4. ASSUME NEW c \in Clients, Handler(c) PROVE NetInv'
  BY <1>4, ResolveKeeps, ServeLockKeeps, ServeUnlockKeeps, ServeOpenKeeps, ServeFileKeeps, ServeCloseKeeps,
     ServeGroupKeeps, ServeGroupFilesKeeps, ServeUnlinkAllKeeps, EndLocksKeeps, EndFilesKeeps DEF Handler
<1>5. ASSUME NEW n \in Names, ServerGroup(n) PROVE NetInv'
  BY <1>5, ServerGroupKeeps
<1> QED BY <1>1, <1>2, <1>3, <1>4, <1>5 DEF Next

\* What is true of every reachable state.
LEMMA Invariant == Spec => []NetInv
<1>1. Init => NetInv
  BY InitRight
<1>2. NetInv /\ [Next]_vars => NetInv'
  BY StepKeeps
<1> QED BY <1>1, <1>2, PTL DEF Spec

-----------------------------------------------------------------------------
(* Who writes KEY files *)

SameBytes == \A i \in 1..Len(backend) : backend'[i].key = backend[i].key
SameGroups == \A i \in 1..Len(backend) : backend'[i].groups = backend[i].groups

\* Another backend in the place of b that has the same KEY file, or the same
\* group table.
LEMMA BytesPut ==
  ASSUME NetInv, NEW b \in 1..Len(backend), NEW B, backend' = Put(backend, b, B)
  PROVE  /\ B.key = backend[b].key => SameBytes
         /\ B.groups = backend[b].groups => SameGroups
<1>1. backend' = [backend EXCEPT ![b] = B] /\ backend \in Seq(Backend)
  BY DEF NetInv, Typed, Backends, Put
<1>2. ASSUME NEW i \in 1..Len(backend)
      PROVE  /\ B.key = backend[b].key => backend'[i].key = backend[i].key
             /\ B.groups = backend[b].groups => backend'[i].groups = backend[i].groups
  <2>1. CASE i = b
    BY <1>1, <2>1
  <2>2. CASE i # b
    BY <1>1, <2>2
  <2> QED BY <2>1, <2>2
<1> QED BY <1>2 DEF SameBytes, SameGroups

LEMMA UnlockedBytes ==
  ASSUME NetInv, NEW c \in Clients, NEW b \in 1..Len(backend), backend' = Unlocked(c, b)
  PROVE  SameBytes /\ SameGroups
<1>1. backend[b] \in Backend
  BY BackendsAre DEF NetInv, Typed
<1> DEFINE w == IF backend[b].wcnt - 1 > 0 THEN backend[b].wcnt - 1 ELSE 0
           k == IF backend[b].wcnt - 1 > 0 THEN backend[b].writer ELSE Nobody
           r == IF backend[b].readers - 1 > 0 THEN backend[b].readers - 1 ELSE 0
           half == [backend[b] EXCEPT !.wcnt = w]
           B == IF backend[b].writer = c THEN [half EXCEPT !.writer = k] ELSE WithReaders(backend[b], r)
<1>2. backend' = Put(backend, b, B)
  <2>1. backend \in Seq(Backend)
    BY DEF NetInv, Typed, Backends
  <2> QED BY <2>1 DEF Unlocked, Put, WithReaders
<1> HIDE DEF w, k, r
<1>3. /\ half.key = backend[b].key /\ WithReaders(backend[b], r).key = backend[b].key
      /\ half.groups = backend[b].groups /\ WithReaders(backend[b], r).groups = backend[b].groups
  BY <1>1 DEF Backend, WithReaders
<1>4. [half EXCEPT !.writer = k].key = half.key /\ [half EXCEPT !.writer = k].groups = half.groups
  <2>1. half = [key |-> backend[b].key, readers |-> backend[b].readers, writer |-> backend[b].writer, wcnt |-> w,
                groups |-> backend[b].groups]
    BY <1>1 DEF Backend
  <2> HIDE DEF half
  <2> QED BY <2>1
<1>5. B.key = backend[b].key /\ B.groups = backend[b].groups
  BY <1>3, <1>4
<1> HIDE DEF B
<1> QED BY <1>2, <1>5, BytesPut

LEMMA GrantedBytes ==
  ASSUME NetInv, NEW c \in Clients, NEW b \in 1..Len(backend), backend' = Rlocked(b) \/ backend' = Wlocked(c, b)
  PROVE  SameBytes /\ SameGroups
<1>1. backend[b] \in Backend /\ backend \in Seq(Backend)
  BY BackendsAre DEF NetInv, Typed, Backends
<1>2. CASE backend' = Rlocked(b)
  <2>1. backend' = Put(backend, b, WithReaders(backend[b], backend[b].readers + 1))
    BY <1>2 DEF Rlocked, Put, WithReaders
  <2> DEFINE B == WithReaders(backend[b], backend[b].readers + 1)
  <2>2. B.key = backend[b].key /\ B.groups = backend[b].groups
    BY <1>1 DEF Backend, WithReaders
  <2> HIDE DEF B
  <2>3. backend' = Put(backend, b, B)
    BY <2>1 DEF B
  <2> QED BY <2>2, <2>3, BytesPut
<1>3. CASE backend' = Wlocked(c, b) /\ backend[b].writer = c
  <2> DEFINE B == [backend[b] EXCEPT !.wcnt = @ + 1]
  <2>1. backend' = Put(backend, b, B)
    BY <1>3 DEF Wlocked, Put
  <2>2. B.key = backend[b].key /\ B.groups = backend[b].groups
    BY <1>1 DEF Backend
  <2> HIDE DEF B
  <2> QED BY <2>1, <2>2, BytesPut
<1>4. CASE backend' = Wlocked(c, b) /\ backend[b].writer # c
  <2>1. backend' = Put(backend, b, WithWriter(backend[b], c, 1))
    BY <1>1, <1>4 DEF Wlocked, Put, WithWriter
  <2> DEFINE B == WithWriter(backend[b], c, 1)
  <2>2. B.key = backend[b].key /\ B.groups = backend[b].groups
    BY <1>1, WriterPut
  <2> HIDE DEF B
  <2>3. backend' = Put(backend, b, B)
    BY <2>1 DEF B
  <2> QED BY <2>2, <2>3, BytesPut
<1> QED BY <1>2, <1>3, <1>4

LEMMA GrownBytes ==
  ASSUME Grown(backend, backend')
  PROVE  SameBytes
BY DEF Grown, SameBytes

LEMMA GroupBytes ==
  ASSUME NetInv, NEW c \in Clients, ServeGroup(c) \/ ServeUnlinkAll(c)
  PROVE  SameBytes
<1> DEFINE b == conn[c].backend
           name == cl[c].req.name
<1>1. Backends(backend)
  BY DEF NetInv, Typed
<1>2. CASE backend' = backend
  BY <1>2 DEF SameBytes
<1>3. CASE Serving(c, {"unlink_all"}) /\ backend' = [backend EXCEPT ![b].groups = [n \in Names |-> 0]]
  <2>1. b \in 1..Len(backend) /\ backend[b] \in Backend
    BY <1>3, ServingIs DEF Cmds, GroupCmds
  <2> DEFINE gs == [n \in Names |-> 0]
  <2>2. backend' = Put(backend, b, WithGroups(backend[b], gs))
    BY <1>3 DEF Put, WithGroups
  <2> HIDE DEF gs
  <2>3. WithGroups(backend[b], gs).key = backend[b].key
    BY <2>1 DEF Backend, WithGroups
  <2> HIDE DEF b
  <2> QED BY <2>1, <2>2, <2>3, BytesPut
<1>4. CASE ServeGroup(c)
  <2>1. b \in 1..Len(backend) /\ backend[b] \in Backend /\ cl[c].req.cmd \in {"add_group", "unlink_group"}
    BY <1>4, ServingIs DEF ServeGroup, Cmds, GroupCmds
  <2>2. name \in Names
    BY <2>1, PairParts, RequestParts
  <2>3. CASE cl[c].req.cmd = "add_group"
    <3>1. backend' = WithGroup(backend, b, name).bs
      BY <1>4, <2>3 DEF ServeGroup, Cmd
    <3> QED BY <1>1, <2>1, <2>2, <3>1, WithGroupIs, GrownBytes
  <2>4. CASE cl[c].req.cmd # "add_group"
    <3> DEFINE gs == [backend[b].groups EXCEPT ![name] = 0]
    <3>1. backend' = Put(backend, b, WithGroups(backend[b], gs))
      BY <1>4, <2>4 DEF ServeGroup, Cmd, Put, WithGroups
    <3> HIDE DEF gs
    <3>2. WithGroups(backend[b], gs).key = backend[b].key
      BY <2>1 DEF Backend, WithGroups
    <3> HIDE DEF b
    <3> QED BY <2>1, <3>1, <3>2, BytesPut
  <2> QED BY <2>3, <2>4
<1> QED BY <1>2, <1>3, <1>4 DEF ServeUnlinkAll

\* A request that writes is served for the connection that has the backend
\* locked for writing, and a file object that keeps nothing back has nothing
\* to write out later.
LEMMA FileBytes ==
  ASSUME NetInv, ~Buffered, NEW c \in Clients, ServeFile(c), NEW i \in 1..Len(backend), backend'[i].key # backend[i].key
  PROVE  backend[i].writer # Nobody /\ backend[i].readers = 0
<1> DEFINE b == conn[c].backend
           fp == conn[c].fp
           f == [buf |-> Flushed(backend[b].key, fp), idx |-> fp.idx]
           r == Execute(f, cl[c].req)
           cmd == cl[c].req.cmd
<1>1. cl[c] \in Client /\ conn[c] \in Connection /\ PairRight(cl[c], conn[c], Has(c)) /\ cl[c].req \in Request
  BY PairParts
<1>2. cmd \in FileCmds /\ b \in 1..Len(backend) /\ backend[b] \in Backend /\ backend \in Seq(Backend)
  BY ServingIs DEF ServeFile, Cmds, FileCmds, NetInv, Typed, Backends
<1>3. fp \in Fp /\ fp.idx \in Nat /\ backend[b].key \in Seq(Byte) /\ fp.dirty = << >>
  BY <1>1, <1>2 DEF Connection, Fp, Backend, PairRight
<1>4. Flushed(backend[b].key, fp) = backend[b].key
  BY <1>3, FlushedType
<1>5. FileType(f) /\ f.buf = backend[b].key
  BY <1>3, <1>4 DEF FileType
<1> HIDE DEF f
<1>6. backend' = [backend EXCEPT ![b].key = r.f.buf]
  <2>1. PICK keep \in IF Buffered /\ Cmd(c) = "write" THEN BOOLEAN ELSE {FALSE} :
         /\ backend' = [backend EXCEPT ![b].key = IF keep THEN Flushed(@, fp) ELSE r.f.buf]
         /\ conn' = [conn EXCEPT ![c].fp.idx = r.f.idx,
                                 ![c].fp.dirty = IF keep THEN <<fp.idx, cl[c].req.b>> ELSE << >>]
    BY DEF ServeFile, f
  <2>2. ~keep
    OBVIOUS
  <2> HIDE DEF r, b, fp
  <2> QED BY <2>1, <2>2
<1>7. Works(f, cmd, r)
  BY <1>1, <1>2, <1>5, Executed
<1> HIDE DEF r
<1>8. backend' = Put(backend, b, WithKey(backend[b], r.f.buf))
  BY <1>6 DEF Put, WithKey
<1>9. i = b
  BY <1>2, <1>8 DEF Put
<1>10. cmd \in {"write", "truncate"}
  <2>1. SUFFICES ASSUME cmd \notin {"write", "truncate"} PROVE FALSE
    OBVIOUS
  <2>2. r.f.buf = backend[b].key
    BY <1>5, <1>7, <2>1 DEF Works
  <2>3. WithKey(backend[b], r.f.buf).key = backend[b].key
    BY <1>2, <2>2 DEF Backend, WithKey
  <2>4. backend'[b].key = backend[b].key
    BY <1>2, <1>8, <2>3 DEF Put
  <2> QED BY <1>9, <2>4
<1>11. Has(c) = "w"
  BY <1>1, <1>10 DEF PairRight, RequestRight
<1>12. backend[b].writer = c
  BY <1>11 DEF Has
<1> QED BY <1>2, <1>9, <1>12, ClientsAssumption DEF NetInv, AllLocksRight, LocksRight

LEMMA FlushBytes ==
  ASSUME NetInv, ~Buffered, NEW c \in Clients, ServeClose(c) \/ EndFiles(c)
  PROVE  SameBytes
<1> DEFINE b == conn[c].backend
<1>1. conn[c] \in Connection /\ PairRight(cl[c], conn[c], Has(c)) /\ b \in 0..Len(backend) /\ Len(backend) \in Nat
  BY PairParts, BackendsAre DEF NetInv, Typed
<1>2. conn[c].fp \in Fp /\ conn[c].fp.dirty = << >>
  BY <1>1 DEF Connection, PairRight
<1>3. CASE b # 0 /\ backend' = [backend EXCEPT ![b].key = Flushed(@, conn[c].fp)]
  <2> DEFINE key == Flushed(backend[b].key, conn[c].fp)
  <2>1. b \in 1..Len(backend)
    BY <1>1, <1>3
  <2>2. backend[b] \in Backend
    BY <2>1, BackendsAre DEF NetInv, Typed
  <2>3. key = backend[b].key
    BY <1>2, <2>2, FlushedType DEF Backend
  <2>4. backend' = Put(backend, b, WithKey(backend[b], key))
    BY <1>3 DEF Put, WithKey
  <2> HIDE DEF key
  <2>5. WithKey(backend[b], key).key = backend[b].key
    BY <2>2, <2>3 DEF Backend, WithKey
  <2> HIDE DEF b
  <2> QED BY <2>1, <2>4, <2>5, BytesPut
<1>4. CASE backend' = backend
  BY <1>4 DEF SameBytes
<1>5. CASE ServeClose(c)
  <2>1. b # 0 /\ backend' = [backend EXCEPT ![b].key = Flushed(@, conn[c].fp)]
    BY <1>5 DEF ServeClose, Serving
  <2> QED BY <1>3, <2>1
<1>6. CASE EndFiles(c)
  <2>1. backend' = backend \/ (b # 0 /\ backend' = [backend EXCEPT ![b].key = Flushed(@, conn[c].fp)])
    BY <1>6 DEF EndFiles
  <2> QED BY <1>3, <1>4, <2>1
<1> QED BY <1>5, <1>6

\* The other steps change no KEY file.
LEMMA ElseSameBytes ==
  ASSUME NetInv, ~Buffered, [Next]_vars, \A c \in Clients : ~ServeFile(c)
  PROVE  SameBytes
<1>1. CASE backend' = backend
  BY <1>1 DEF SameBytes
<1>2. ASSUME NEW c \in Clients, NEW p \in Paths, Connect(c, p) PROVE SameBytes
  BY <1>1, <1>2 DEF Connect
<1>3. ASSUME NEW c \in Clients,
             \/ Disconnect(c) \/ CallLock(c) \/ CallUnlock(c) \/ CallFile(c) \/ CallClose(c)
             \/ CallGroup(c) \/ CallUnlinkAll(c) \/ Receive(c) \/ ServeOpen(c) \/ ServeGroupFiles(c)
      PROVE  SameBytes
  <2>1. backend' = backend
    BY <1>3 DEF Disconnect, CallLock, CallUnlock, CallFile, CallClose, CallGroup, CallUnlinkAll, Receive, ServeOpen,
                ServeGroupFiles
  <2> QED BY <1>1, <2>1
<1>4. ASSUME NEW c \in Clients, Resolve(c) PROVE SameBytes
  <2>1. StepGood(GetGroupFiles(cl[c].path))
    BY PairParts, Resolved DEF NetInv
  <2>2. backend' = GetGroupFiles(cl[c].path).bs
    BY <1>4 DEF Resolve
  <2> QED BY <2>1, <2>2, GrownBytes DEF StepGood
<1>5. ASSUME NEW c \in Clients, ServeLock(c) PROVE SameBytes
  <2>1. conn[c].backend \in 1..Len(backend)
    BY <1>5, ServingIs DEF ServeLock, Cmds, LockCmds
  <2>2. \/ backend' = Rlocked(conn[c].backend) \/ backend' = Wlocked(c, conn[c].backend) \/ backend' = backend
    BY <1>5 DEF ServeLock
  <2> QED BY <1>1, <2>1, <2>2, GrantedBytes
<1>6. ASSUME NEW c \in Clients, ServeUnlock(c) PROVE SameBytes
  <2>1. conn[c].backend \in 1..Len(backend)
    BY <1>6, ServingIs DEF ServeUnlock, Cmds
  <2> QED BY <1>6, <2>1, UnlockedBytes DEF ServeUnlock
<1>7. ASSUME NEW c \in Clients, EndLocks(c) PROVE SameBytes
  <2>1. CASE conn[c].lockers > 0
    <3>1. conn[c].backend \in 1..Len(backend)
      <4>1. conn[c].backend # 0
        BY <2>1 DEF NetInv, Held
      <4> QED BY <4>1, PairParts
    <3> QED BY <1>7, <2>1, <3>1, UnlockedBytes DEF EndLocks
  <2>2. CASE ~(conn[c].lockers > 0)
    BY <1>1, <1>7, <2>2 DEF EndLocks
  <2> QED BY <2>1, <2>2
<1>8. ASSUME NEW c \in Clients, Handler(c) PROVE SameBytes
  BY <1>3, <1>4, <1>5, <1>6, <1>7, <1>8, GroupBytes, FlushBytes DEF Handler
<1>9. ASSUME NEW n \in Names, ServerGroup(n) PROVE SameBytes
  <2>1. Backends(backend) /\ Root \in 1..Len(backend)
    BY BackendsAre DEF NetInv, Typed, Root
  <2>2. Grown(backend, WithGroup(backend, Root, n).bs)
    BY <2>1, WithGroupIs
  <2> QED BY <1>9, <2>2, GrownBytes DEF ServerGroup
<1> QED BY <1>1, <1>2, <1>3, <1>8, <1>9 DEF Next, vars

-----------------------------------------------------------------------------
(* Theorems *)

\* TypeOK: a connection has one lock at most, a backend no more readers than
\* there are clients, and every number of a backend that the server keeps, in
\* its cache, its live groups and its connections, is that of a backend.
THEOREM TypesKept == Spec => []TypeOK
<1>1. NetInv => TypeOK
  <2> SUFFICES ASSUME NetInv PROVE TypeOK
    OBVIOUS
  <2>1. Len(backend) \in Nat /\ DOMAIN backend = 1..Len(backend) /\ \A b \in 1..Len(backend) : backend[b] \in Backend
    BY BackendsAre DEF NetInv, Typed
  <2>2. ASSUME NEW c \in Clients
        PROVE  /\ cl[c].path \in Paths /\ cl[c].lock \in {"un", "r", "w"}
               /\ cl[c].io.offset \in Nat
               /\ conn[c].st \in {"recv", "group", "ending", "done"}
               /\ conn[c].backend \in 0..Len(backend) /\ conn[c].lockers \in 0..1 /\ conn[c].fp.idx \in Nat
    <3>1. cl[c] \in Client /\ conn[c] \in Connection /\ conn[c].backend \in 0..Len(backend)
      BY PairParts
    <3> QED BY <3>1 DEF Client, Io, Connection, Fp
  <2>3. ASSUME NEW b \in 1..Len(backend)
        PROVE  backend[b].readers \in 0..Cardinality(Clients) /\ backend[b].wcnt \in 0..1
    <3>1. LocksRight(b) /\ backend[b] \in Backend
      BY <2>1 DEF NetInv, AllLocksRight
    <3>2. Cardinality(Holders(b)) <= Cardinality(Clients) /\ Cardinality(Clients) \in Nat
      <4>1. Holders(b) \in SUBSET Clients
        BY DEF Holders
      <4> QED BY <4>1, ClientsAssumption, FS_Subset, FS_CardinalityType
    <3>3. backend[b].readers \in Nat /\ backend[b].wcnt \in 0..1
      BY <3>1 DEF Backend
    <3>4. backend[b].readers = 0 \/ backend[b].readers = Cardinality(Holders(b))
      BY <3>1 DEF LocksRight
    <3> QED BY <3>2, <3>3, <3>4
  <2>4. \A p \in Groups : files[p] \in 0..Len(backend) /\ live[p] \in 0..Len(backend)
    BY DEF NetInv, Typed
  <2> QED BY <2>1, <2>2, <2>3, <2>4 DEF TypeOK
<1> QED BY <1>1, Invariant, PTL

\* LocksCounted: the counters of JMemFiles that a backend keeps are those of
\* the locks its connections have, whatever client dies at whatever moment,
\* with a request on its way, waiting or answered (ServerHandler.handle gives
\* the locks back in its finally clause).
THEOREM LocksAreCounted == Spec => []LocksCounted
<1>1. NetInv => LocksCounted
  <2> SUFFICES ASSUME NetInv, NEW b \in DOMAIN backend
               PROVE  /\ backend[b].readers = Cardinality(Holders(b) \ {backend[b].writer})
                      /\ backend[b].writer = Nobody \/ backend[b].writer \in Holders(b)
    BY DEF LocksCounted, Holders
  <2>1. b \in 1..Len(backend)
    BY BackendsAre DEF NetInv, Typed
  <2>2. LocksRight(b)
    BY <2>1 DEF NetInv, AllLocksRight
  <2>3. CASE backend[b].writer = Nobody
    <3>1. Holders(b) \ {Nobody} = Holders(b)
      BY ClientsAssumption DEF Holders
    <3> QED BY <2>2, <2>3, <3>1 DEF LocksRight
  <2>4. CASE backend[b].writer # Nobody
    <3>1. Holders(b) = {backend[b].writer} /\ backend[b].readers = 0
      BY <2>2, <2>4 DEF LocksRight
    <3>2. Holders(b) \ {backend[b].writer} = {} /\ backend[b].writer \in Holders(b)
      BY <3>1
    <3>3. Cardinality({}) = 0
      BY FS_EmptySet
    <3> QED BY <3>1, <3>2, <3>3
  <2> QED BY <2>3, <2>4
<1> QED BY <1>1, Invariant, PTL

\* OffsetInStep: tell and the calls of seek that JNetIO answers itself give
\* the position of the file object on the server, after any reads, seeks,
\* writes and cuts, those that failed included.
THEOREM OffsetsAgree == Spec => []OffsetInStep
<1>1. NetInv => OffsetInStep
  <2> SUFFICES ASSUME NetInv, NEW c \in Clients, Idle(c), cl[c].io.found
               PROVE  conn[c].fp.open /\ cl[c].io.offset = conn[c].fp.idx
    BY DEF OffsetInStep
  <2>1. OffsetRight(cl[c], conn[c].fp)
    BY PairParts DEF PairRight
  <2>2. cl[c].up /\ cl[c].rep.cmd = "none"
    BY DEF Idle, NoReq
  <2>3. ~Answered(cl[c])
    BY <2>2 DEF Answered, FileCmds
  <2> QED BY <2>1, <2>2, <2>3 DEF OffsetRight
<1> QED BY <1>1, Invariant, PTL

\* WritesExclusive, where file objects keep nothing back (JMemFiles): a KEY
\* file changes only while one connection has its backend locked for writing
\* and no other has a lock; a read session writes nothing.
THEOREM WritesAreExclusive == ~Buffered => (Spec => WritesExclusive)
<1> SUFFICES ASSUME ~Buffered PROVE Spec => WritesExclusive
  OBVIOUS
<1>1. NetInv /\ [Next]_vars => [\A b \in DOMAIN backend : backend'[b].key # backend[b].key =>
            backend[b].writer # Nobody /\ backend[b].readers = 0]_vars
  <2> SUFFICES ASSUME NetInv, [Next]_vars, NEW b \in DOMAIN backend, backend'[b].key # backend[b].key
               PROVE  backend[b].writer # Nobody /\ backend[b].readers = 0
    OBVIOUS
  <2>1. b \in 1..Len(backend)
    BY BackendsAre DEF NetInv, Typed
  <2>2. PICK c \in Clients : ServeFile(c)
    BY <2>1, ElseSameBytes DEF SameBytes
  <2> QED BY <2>1, <2>2, FileBytes
<1> QED BY <1>1, Invariant, PTL DEF Spec, WritesExclusive

-----------------------------------------------------------------------------
(* Clients of one group exclude each other on a server whose groups are all *)
(* groups of the root: the cache of the server, its live groups and the     *)
(* group table of the root lead to the same backend, except while a group   *)
(* is being unlinked.  With groups below groups that is not so:             *)
(* unlink_group by name leaves those below in the cache.                    *)

\* Every group is a group of the root.
OneLevel == \A p \in Paths : Len(p) <= 1

\* The backend that a path leads to now.
Current(p) == IF p = << >> THEN Root ELSE IF live[p] # 0 THEN live[p] ELSE files[p]

\* The handler of c has taken group n off the table of the root and not yet
\* out of the cache.
Unlinking(c, n) ==
  /\ conn[c].st = "group"
  /\ cl[c].req.cmd = "unlink_all" \/ (cl[c].req.cmd = "unlink_group" /\ cl[c].req.name = n)

FreshRight(c) == conn[c].fresh => conn[c].backend # 0 /\ conn[c].backend = Current(cl[c].path)
RootRight(c) == cl[c].path = << >> /\ conn[c].backend # 0 => conn[c].backend = Root
AsksAtRoot(c) == cl[c].req.cmd \in GroupCmds => cl[c].path = << >>
CacheRight(n) ==
  live[<<n>>] = 0 /\ files[<<n>>] # 0 /\ (\A c \in Clients : ~Unlinking(c, n))
      => backend[Root].groups[n] = files[<<n>>]

GroupInv ==
  /\ \A c \in Clients : FreshRight(c) /\ RootRight(c) /\ AsksAtRoot(c)
  /\ \A n \in Names : CacheRight(n)

-----------------------------------------------------------------------------
(* Paths of one level *)

LEMMA GroupIs ==
  ASSUME OneLevel, NEW p \in Groups
  PROVE  p[1] \in Names /\ p = <<p[1]>>
<1>1. p \in Seq(STRING) /\ Len(p) \in Nat /\ Len(p) >= 1 /\ p \in Paths /\ p[Len(p)] \in Names
  BY GroupNames
<1>2. Len(p) = 1
  <2>1. Len(p) <= 1
    BY <1>1 DEF OneLevel
  <2>2. ASSUME NEW m, m \in Nat, m >= 1, m <= 1 PROVE m = 1
    BY <2>2
  <2> QED BY <1>1, <2>1, <2>2
<1> QED BY <1>1, <1>2

LEMMA NameIs ==
  ASSUME OneLevel, NEW n \in Names
  PROVE  <<n>> \in Groups /\ <<n>> # << >>
<1>1. PICK p \in Groups : n = p[Len(p)]
  BY DEF Names
<1>2. Len(p) = 1 /\ p = <<p[1]>>
  BY GroupIs
<1> QED BY <1>1, <1>2

\* Only a client of the root can name a group below its own.
LEMMA ParentIsRoot ==
  ASSUME OneLevel, NEW q \in Paths, NEW n, Append(q, n) \in Groups
  PROVE  q = << >>
<1>1. q \in Seq(STRING) /\ Len(q) \in Nat
  BY PathsAssumption
<1>2. Len(Append(q, n)) <= 1
  BY DEF OneLevel, Groups
<1>3. Len(Append(q, n)) = Len(q) + 1
  BY <1>1
<1> QED BY <1>1, <1>2, <1>3

LEMMA FrontIsRoot ==
  ASSUME OneLevel, NEW p \in Groups
  PROVE  Front(p) = << >>
<1>1. p = <<p[1]>>
  BY GroupIs
<1>2. Len(<<p[1]>>) = 1 /\ SubSeq(<<p[1]>>, 1, 0) = << >>
  OBVIOUS
<1>3. Front(<<p[1]>>) = << >>
  BY <1>2 DEF Front
<1> QED BY <1>1, <1>3

LEMMA BelowRoot ==
  ASSUME OneLevel, NEW p \in Groups
  PROVE  IsStrictPrefix(<< >>, p)
<1>1. p \in Seq(STRING) /\ Len(p) \in Nat /\ Len(p) >= 1
  BY GroupNames
<1>2. Len(<< >>) = 0 /\ SubSeq(p, 1, 0) = << >> /\ SubSeq(<< >>, 1, 0) = << >> /\ p # << >>
  BY <1>1
<1> QED BY <1>1, <1>2 DEF IsStrictPrefix, IsPrefix

-----------------------------------------------------------------------------
(* Steps that leave the groups alone *)

\* What such a step leaves of client d and its handler.
Fits(d) ==
  /\ cl'[d].path = cl[d].path /\ (cl'[d].req = cl[d].req \/ cl'[d].req.cmd \notin GroupCmds)
  /\ conn'[d].backend = conn[d].backend /\ (conn'[d].fresh => conn[d].fresh)
  /\ conn[d].st = "group" => conn'[d].st = "group" /\ cl'[d].req = cl[d].req

\* The requests for groups that are under way stay under way.
UnlinkingStays(d) == \A n \in Names : Unlinking(d, n) => Unlinking(d, n)'

LEMMA FitsRight ==
  ASSUME GroupInv, NEW d \in Clients, Fits(d), files' = files, live' = live
  PROVE  FreshRight(d)' /\ RootRight(d)' /\ AsksAtRoot(d)' /\ UnlinkingStays(d)
<1>1. FreshRight(d) /\ RootRight(d) /\ AsksAtRoot(d)
  BY DEF GroupInv
<1>2. \A p : Current(p)' = Current(p)
  BY DEF Current
<1>3. FreshRight(d)'
  BY <1>1, <1>2 DEF Fits, FreshRight
<1>4. RootRight(d)' /\ AsksAtRoot(d)'
  BY <1>1 DEF Fits, RootRight, AsksAtRoot
<1>5. UnlinkingStays(d)
  BY DEF Fits, Unlinking, UnlinkingStays
<1> QED BY <1>3, <1>4, <1>5

LEMMA QuietGroups ==
  ASSUME GroupInv, files' = files, live' = live,
         \A n \in Names : backend'[Root].groups[n] = backend[Root].groups[n],
         \A d \in Clients : FreshRight(d)' /\ RootRight(d)' /\ AsksAtRoot(d)' /\ UnlinkingStays(d)
  PROVE  GroupInv'
<1>1. ASSUME NEW n \in Names PROVE CacheRight(n)'
  <2>1. CacheRight(n)
    BY DEF GroupInv
  <2>2. (\A c \in Clients : ~Unlinking(c, n)') => \A c \in Clients : ~Unlinking(c, n)
    BY DEF UnlinkingStays
  <2> QED BY <2>1, <2>2 DEF CacheRight
<1> QED BY <1>1 DEF GroupInv

LEMMA RootIs ==
  ASSUME NetInv
  PROVE  Root \in 1..Len(backend) /\ Len(backend) \in Nat /\ Backends(backend)
         /\ backend[Root].groups \in [Names -> 0..Len(backend)]
BY BackendsAre DEF NetInv, Typed, Root

\* Steps that leave the group tables alone and clients as they fit.
LEMMA FitStep ==
  ASSUME NetInv, GroupInv, files' = files, live' = live, SameGroups, \A d \in Clients : Fits(d)
  PROVE  GroupInv'
<1>1. \A n \in Names : backend'[Root].groups[n] = backend[Root].groups[n]
  BY RootIs DEF SameGroups
<1> QED BY <1>1, FitsRight, QuietGroups

LEMMA SameTables ==
  ASSUME backend' = backend
  PROVE  SameGroups
BY DEF SameGroups

LEMMA SendGroups ==
  ASSUME NetInv, GroupInv, NEW c \in Clients, Idle(c), NEW req, Send(c, req),
         UNCHANGED <<conn, backend, files, live>>, req.cmd \in GroupCmds => cl[c].path = << >>
  PROVE  GroupInv'
<1>1. cl \in [Clients -> Client] /\ cl[c] \in Client
  BY DEF NetInv, Typed
<1>2. conn[c].st # "group"
  BY NoCmd, NotInGroup DEF Idle
<1>3. cl'[c].req = req /\ cl'[c].path = cl[c].path /\ \A d \in Clients : d # c => cl'[d] = cl[d]
  BY <1>1 DEF Send, Client
<1>4. ASSUME NEW d \in Clients PROVE FreshRight(d)' /\ RootRight(d)' /\ AsksAtRoot(d)' /\ UnlinkingStays(d)
  <2>1. CASE d # c
    <3>1. Fits(d)
      BY <1>3, <2>1 DEF Fits
    <3> QED BY <3>1, FitsRight
  <2>2. CASE d = c
    <3>1. FreshRight(c)' /\ RootRight(c)'
      BY <1>3 DEF GroupInv, FreshRight, RootRight, Current
    <3>2. AsksAtRoot(c)' /\ UnlinkingStays(c)
      BY <1>2, <1>3 DEF AsksAtRoot, UnlinkingStays, Unlinking
    <3> QED BY <2>2, <3>1, <3>2
  <2> QED BY <2>1, <2>2
<1> QED BY <1>4, QuietGroups

LEMMA CallsGroups ==
  ASSUME OneLevel, NetInv, GroupInv, NEW c \in Clients,
         CallLock(c) \/ CallUnlock(c) \/ CallFile(c) \/ CallGroup(c) \/ CallUnlinkAll(c)
  PROVE  GroupInv'
<1>1. cl[c].path \in Paths
  BY PairParts
<1>2. CASE CallLock(c)
  <2>1. PICK req \in LockCalls : Send(c, req)
    BY <1>2 DEF CallLock
  <2>2. req.cmd \notin GroupCmds
    BY CallsAssumption DEF GroupCmds
  <2> QED BY <1>2, <2>1, <2>2, SendGroups DEF CallLock
<1>3. CASE CallUnlock(c)
  <2> DEFINE req == [cmd |-> "unlock"]
  <2>1. Send(c, req) /\ req.cmd \notin GroupCmds
    BY <1>3 DEF CallUnlock, GroupCmds
  <2> HIDE DEF req
  <2> QED BY <1>3, <2>1, SendGroups DEF CallUnlock
<1>4. CASE CallFile(c)
  <2>1. PICK req \in FileCalls(c) : Send(c, req)
    BY <1>4 DEF CallFile
  <2>2. req.cmd \notin GroupCmds
    <3>1. CASE req \in ReadCalls \cup WriteCalls
      BY <3>1, CallsAssumption DEF GroupCmds
    <3>2. CASE req \notin ReadCalls \cup WriteCalls
      <4>1. req.cmd = "open"
        BY <2>1, <3>2 DEF FileCalls
      <4> QED BY <4>1 DEF GroupCmds
    <3> QED BY <3>1, <3>2
  <2> QED BY <1>4, <2>1, <2>2, SendGroups DEF CallFile
<1>5. CASE CallGroup(c)
  <2>1. PICK n \in Names : /\ Append(cl[c].path, n) \in Groups
                           /\ \/ Send(c, [cmd |-> "add_group", name |-> n])
                              \/ Send(c, [cmd |-> "unlink_group", name |-> n])
    BY <1>5 DEF CallGroup
  <2>2. cl[c].path = << >>
    BY <1>1, <2>1, ParentIsRoot
  <2>3. PICK req : Send(c, req)
    BY <2>1
  <2> QED BY <1>5, <2>2, <2>3, SendGroups DEF CallGroup
<1>6. CASE CallUnlinkAll(c)
  <2>1. \E p \in Groups : Front(p) = cl[c].path
    BY <1>6 DEF CallUnlinkAll
  <2>2. cl[c].path = << >>
    BY <2>1, FrontIsRoot
  <2>3. PICK req : Send(c, req)
    BY <1>6 DEF CallUnlinkAll
  <2> QED BY <1>6, <2>2, <2>3, SendGroups DEF CallUnlinkAll
<1> QED BY <1>2, <1>3, <1>4, <1>5, <1>6

LEMMA ClientGroups ==
  ASSUME NetInv, GroupInv, NEW c \in Clients, Disconnect(c) \/ CallClose(c) \/ Receive(c)
  PROVE  GroupInv'
<1>1. cl \in [Clients -> Client] /\ cl[c] \in Client
  BY DEF NetInv, Typed
<1>2. conn' = conn /\ backend' = backend /\ files' = files /\ live' = live
  BY DEF Disconnect, CallClose, Receive
<1>3. /\ cl'[c].path = cl[c].path /\ (cl'[c].req = cl[c].req \/ cl'[c].req.cmd \notin GroupCmds)
      /\ (conn[c].st = "group" => cl'[c].req = cl[c].req)
      /\ \A d \in Clients : d # c => cl'[d] = cl[d]
  <2>1. CASE Disconnect(c)
    <3>1. PICK req \in {cl[c].req, NoReq} : (conn[c].st # "recv" => req = cl[c].req) /\ cl' = [cl EXCEPT ![c] = Gone(cl[c], req)]
      BY <1>1, <2>1 DEF Disconnect, Gone
    <3>2. Gone(cl[c], req).path = cl[c].path /\ Gone(cl[c], req).req = req
      BY <1>1 DEF Gone, Client
    <3> QED BY <1>1, <3>1, <3>2, NoCmd
  <2>2. CASE CallClose(c)
    <3>1. conn[c].st # "group"
      BY <2>2, NoCmd, NotInGroup DEF CallClose, Idle
    <3>2. CASE cl[c].io.found
      <4>1. cl' = [cl EXCEPT ![c] = Asks(cl[c], [cmd |-> "close"])]
        BY <2>2, <3>2 DEF CallClose, Asks
      <4>2. Asks(cl[c], [cmd |-> "close"]).path = cl[c].path /\ Asks(cl[c], [cmd |-> "close"]).req.cmd = "close"
        BY <1>1 DEF Asks, Client
      <4> QED BY <1>1, <3>1, <4>1, <4>2 DEF GroupCmds
    <3>3. CASE ~cl[c].io.found
      <4>1. cl' = [cl EXCEPT ![c].io = NoIo]
        BY <2>2, <3>3 DEF CallClose
      <4> QED BY <1>1, <4>1 DEF Client
    <3> QED BY <3>2, <3>3
  <2>3. CASE Receive(c)
    <3>1. cl' = [cl EXCEPT ![c] = [@ EXCEPT !.rep = NoReq, !.lock = LockAfter(c, cl[c].rep), !.io = IoAfter(c, cl[c].rep)]]
      BY <2>3 DEF Receive
    <3> DEFINE half == [cl[c] EXCEPT !.rep = NoReq]
               k == [cl[c] EXCEPT !.rep = NoReq, !.lock = LockAfter(c, cl[c].rep), !.io = IoAfter(c, cl[c].rep)]
    <3>2. k.path = cl[c].path /\ k.req = cl[c].req
      BY <1>1 DEF Client
    <3>3. cl' = [cl EXCEPT ![c] = k]
      BY <3>1
    <3> HIDE DEF k
    <3> QED BY <1>1, <3>2, <3>3
  <2> QED BY <2>1, <2>2, <2>3
<1>4. ASSUME NEW d \in Clients PROVE Fits(d)
  <2>1. CASE d = c
    BY <1>2, <1>3, <2>1 DEF Fits
  <2>2. CASE d # c
    BY <1>2, <1>3, <2>2 DEF Fits
  <2> QED BY <2>1, <2>2
<1> QED BY <1>2, <1>4, SameTables, FitStep

LEMMA ConnectGroups ==
  ASSUME NetInv, GroupInv, NEW c \in Clients, NEW p \in Paths, Connect(c, p)
  PROVE  GroupInv'
<1> DEFINE h == [st |-> "recv", backend |-> IF p = << >> THEN Root ELSE 0, lockers |-> 0, fp |-> NoFp, fresh |-> p = << >>]
           k == [cl[c] EXCEPT !.up = TRUE, !.path = p]
<1>1. cl \in [Clients -> Client] /\ cl[c] \in Client /\ conn \in [Clients -> Connection] /\ PairRight(cl[c], conn[c], Has(c))
  BY PairParts DEF NetInv, Typed
<1>2. /\ conn[c].st = "done" /\ cl' = [cl EXCEPT ![c] = k] /\ conn' = [conn EXCEPT ![c] = h]
      /\ backend' = backend /\ files' = files /\ live' = live
  BY DEF Connect
<1>3. cl[c].req = NoReq
  BY <1>1, <1>2 DEF PairRight, HandlerRight
<1>4. k.path = p /\ k.req = NoReq
  BY <1>1, <1>3 DEF Client
<1>5. /\ h.st = "recv" /\ (h.fresh <=> p = << >>) /\ (p = << >> => h.backend = Root) /\ (h.backend # 0 => h.backend = Root)
  OBVIOUS
<1> HIDE DEF h, k
<1>6. /\ cl'[c] = k /\ conn'[c] = h /\ \A d \in Clients : d # c => cl'[d] = cl[d] /\ conn'[d] = conn[d]
  BY <1>1, <1>2
<1>7. ASSUME NEW d \in Clients PROVE FreshRight(d)' /\ RootRight(d)' /\ AsksAtRoot(d)' /\ UnlinkingStays(d)
  <2>1. CASE d # c
    <3>1. Fits(d)
      BY <1>6, <2>1 DEF Fits
    <3> QED BY <1>2, <3>1, FitsRight
  <2>2. CASE d = c
    <3>1. FreshRight(c)' /\ RootRight(c)'
      BY <1>4, <1>5, <1>6 DEF FreshRight, RootRight, Current, Root
    <3>2. AsksAtRoot(c)' /\ UnlinkingStays(c)
      BY <1>2, <1>4, <1>6, NoCmd DEF AsksAtRoot, UnlinkingStays, Unlinking
    <3> QED BY <2>2, <3>1, <3>2
  <2> QED BY <2>1, <2>2
<1> QED BY <1>2, <1>7, SameTables, QuietGroups

\* The handler answers, and the client has no request any more.
LEMMA ReplyFits ==
  ASSUME NetInv, NEW c \in Clients, NEW ok, NEW ret, Reply(c, ok, ret)
  PROVE  cl'[c].path = cl[c].path /\ cl'[c].req = NoReq /\ \A d \in Clients : d # c => cl'[d] = cl[d]
<1>1. cl \in [Clients -> Client] /\ cl[c] \in Client
  BY DEF NetInv, Typed
<1>2. cl' = [cl EXCEPT ![c] = Answer(cl[c], ok, ret)]
  BY <1>1 DEF Reply, Cmd, Answer
<1>3. Answer(cl[c], ok, ret).path = cl[c].path /\ Answer(cl[c], ok, ret).req = NoReq
  BY <1>1 DEF Answer, Client
<1> QED BY <1>1, <1>2, <1>3

\* ... after a step of its own that leaves its backend and the groups alone.
LEMMA AnswerFitStep ==
  ASSUME NetInv, GroupInv, NEW c \in Clients, NEW ok, NEW ret, Reply(c, ok, ret), conn[c].st = "recv",
         conn'[c].backend = conn[c].backend, conn'[c].fresh = conn[c].fresh, \A d \in Clients : d # c => conn'[d] = conn[d],
         files' = files, live' = live, SameGroups
  PROVE  GroupInv'
<1>1. cl'[c].path = cl[c].path /\ cl'[c].req = NoReq /\ \A d \in Clients : d # c => cl'[d] = cl[d]
  BY ReplyFits
<1>2. ASSUME NEW d \in Clients PROVE Fits(d)
  <2>1. CASE d = c
    BY <1>1, <2>1, NoCmd DEF Fits
  <2>2. CASE d # c
    BY <1>1, <2>2 DEF Fits
  <2> QED BY <2>1, <2>2
<1> QED BY <1>2, FitStep

\* What a step of connection c that changes one field leaves of the others.
LEMMA ConnFields ==
  ASSUME NetInv, NEW c \in Clients, NEW x,
         \/ conn' = conn \/ conn' = [conn EXCEPT ![c].lockers = x] \/ conn' = [conn EXCEPT ![c].fp = x]
  PROVE  /\ conn'[c].backend = conn[c].backend /\ conn'[c].fresh = conn[c].fresh /\ conn'[c].st = conn[c].st
         /\ \A d \in Clients : d # c => conn'[d] = conn[d]
<1>1. conn \in [Clients -> Connection] /\ conn[c] \in Connection
  BY DEF NetInv, Typed
<1>2. CASE conn' = conn
  BY <1>2
<1>3. CASE conn' = [conn EXCEPT ![c].lockers = x]
  BY <1>1, <1>3 DEF Connection
<1>4. CASE conn' = [conn EXCEPT ![c].fp = x]
  BY <1>1, <1>4 DEF Connection
<1> QED BY <1>2, <1>3, <1>4

LEMMA LockGroups ==
  ASSUME NetInv, GroupInv, NEW c \in Clients, ServeLock(c) \/ ServeUnlock(c)
  PROVE  GroupInv'
<1> DEFINE b == conn[c].backend
<1>1. b \in 1..Len(backend) /\ conn[c].st = "recv"
  BY ServingIs DEF ServeLock, ServeUnlock, Cmds, LockCmds
<1>2. SameGroups
  <2>1. backend' = Rlocked(b) \/ backend' = Wlocked(c, b) \/ backend' = Unlocked(c, b) \/ backend' = backend
    BY DEF ServeLock, ServeUnlock
  <2> HIDE DEF b
  <2> QED BY <1>1, <2>1, GrantedBytes, UnlockedBytes, SameTables
<1>3. PICK n : conn' = conn \/ conn' = [conn EXCEPT ![c].lockers = n]
  BY DEF ServeLock, ServeUnlock
<1>4. /\ conn'[c].backend = conn[c].backend /\ conn'[c].fresh = conn[c].fresh
      /\ \A d \in Clients : d # c => conn'[d] = conn[d]
  BY <1>3, ConnFields
<1>5. files' = files /\ live' = live /\ \E ok : Reply(c, ok, 0)
  BY DEF ServeLock, ServeUnlock
<1> QED BY <1>1, <1>2, <1>4, <1>5, AnswerFitStep

LEMMA FileGroups ==
  ASSUME NetInv, GroupInv, NEW c \in Clients, ServeOpen(c) \/ ServeFile(c) \/ ServeClose(c)
  PROVE  GroupInv'
<1> DEFINE b == conn[c].backend
<1>1. b \in 1..Len(backend) /\ conn[c].st = "recv" /\ backend[b] \in Backend
  BY ServingIs DEF ServeOpen, ServeFile, ServeClose, Cmds, FileCmds
<1>2. files' = files /\ live' = live /\ \E ok, ret : Reply(c, ok, ret)
  BY DEF ServeOpen, ServeFile, ServeClose
<1>3. SameGroups
  <2>1. CASE backend' = backend
    BY <2>1, SameTables
  <2>2. ASSUME NEW key, backend' = [backend EXCEPT ![b].key = key] PROVE SameGroups
    <3>1. backend' = Put(backend, b, WithKey(backend[b], key))
      BY <2>2 DEF Put, WithKey
    <3> DEFINE B == WithKey(backend[b], key)
    <3>2. B.groups = backend[b].groups
      BY <1>1 DEF Backend, WithKey
    <3> HIDE DEF B
    <3>3. backend' = Put(backend, b, B)
      BY <3>1 DEF B
    <3> HIDE DEF b
    <3> QED BY <1>1, <3>2, <3>3, BytesPut
  <2>3. backend' = backend \/ \E key : backend' = [backend EXCEPT ![b].key = key]
    BY DEF ServeOpen, ServeFile, ServeClose
  <2> QED BY <2>1, <2>2, <2>3
<1>4. /\ conn'[c].backend = conn[c].backend /\ conn'[c].fresh = conn[c].fresh
      /\ \A d \in Clients : d # c => conn'[d] = conn[d]
  <2>1. CASE ServeOpen(c)
    BY <2>1, ConnFields DEF ServeOpen
  <2>2. CASE ServeClose(c)
    BY <2>2, ConnFields DEF ServeClose
  <2>3. CASE ServeFile(c)
    <3> DEFINE at == conn[c].fp
               f == [buf |-> Flushed(backend[b].key, at), idx |-> at.idx]
               i == Execute(f, cl[c].req).f.idx
    <3> HIDE DEF f
    <3>0. PICK keep \in IF Buffered /\ Cmd(c) = "write" THEN BOOLEAN ELSE {FALSE} :
             conn' = [conn EXCEPT ![c].fp.idx = i, ![c].fp.dirty = IF keep THEN <<at.idx, cl[c].req.b>> ELSE << >>]
      BY <2>3 DEF ServeFile, f
    <3> DEFINE dirty == IF keep THEN <<at.idx, cl[c].req.b>> ELSE << >>
    <3> HIDE DEF i
    <3>1. conn' = [conn EXCEPT ![c].fp.idx = i, ![c].fp.dirty = dirty]
      BY <3>0
    <3> HIDE DEF dirty
    <3>2. conn \in [Clients -> Connection] /\ conn[c] \in [st : {"recv", "group", "ending", "done"}, backend : Nat,
                     lockers : 0..1, fp : Fp, fresh : BOOLEAN]
      BY DEF NetInv, Typed, Connection
    <3>3. conn' = [conn EXCEPT ![c].fp = WithIdx(conn[c].fp, i, dirty)]
      BY <3>1, <3>2 DEF WithIdx
    <3> DEFINE fp == WithIdx(conn[c].fp, i, dirty)
    <3> HIDE DEF fp
    <3>4. conn' = [conn EXCEPT ![c].fp = fp]
      BY <3>3 DEF fp
    <3> QED BY <3>4, ConnFields
  <2> QED BY <2>1, <2>2, <2>3
<1> QED BY <1>1, <1>2, <1>3, <1>4, AnswerFitStep

LEMMA EndGroups ==
  ASSUME NetInv, GroupInv, NEW c \in Clients, EndLocks(c) \/ EndFiles(c)
  PROVE  GroupInv'
<1> DEFINE b == conn[c].backend
<1>1. conn \in [Clients -> Connection] /\ conn[c] \in Connection /\ b \in 0..Len(backend) /\ Len(backend) \in Nat
  BY PairParts, BackendsAre DEF NetInv, Typed
<1>2. cl' = cl /\ files' = files /\ live' = live /\ conn[c].st # "group"
  BY DEF EndLocks, EndFiles
<1>3. CASE EndLocks(c)
  <2> DEFINE half == [conn[c] EXCEPT !.lockers = 0]
             h == [half EXCEPT !.st = "ending"]
  <2>1. conn' = [conn EXCEPT ![c] = h]
    BY <1>1, <1>3 DEF EndLocks
  <2>2. half \in Connection /\ half.backend = b /\ half.fresh = conn[c].fresh
    BY <1>1 DEF Connection
  <2>3. h.backend = half.backend /\ h.fresh = half.fresh
    <3> HIDE DEF half
    <3> QED BY <2>2 DEF Connection
  <2> HIDE DEF h
  <2>4. conn'[c].backend = b /\ conn'[c].fresh = conn[c].fresh /\ \A d \in Clients : d # c => conn'[d] = conn[d]
    BY <1>1, <2>1, <2>2, <2>3
  <2>5. SameGroups
    <3>1. CASE conn[c].lockers > 0
      <4>1. b # 0
        BY <3>1 DEF NetInv, Held
      <4>2. b \in 1..Len(backend) /\ backend' = Unlocked(c, b)
        BY <1>1, <1>3, <3>1, <4>1 DEF EndLocks
      <4> HIDE DEF b
      <4> QED BY <4>2, UnlockedBytes
    <3>2. CASE ~(conn[c].lockers > 0)
      BY <1>3, <3>2, SameTables DEF EndLocks
    <3> QED BY <3>1, <3>2
  <2>6. ASSUME NEW d \in Clients PROVE Fits(d)
    <3>1. CASE d = c
      BY <1>2, <2>4, <3>1 DEF Fits
    <3>2. CASE d # c
      BY <1>2, <2>4, <3>2 DEF Fits
    <3> QED BY <3>1, <3>2
  <2> QED BY <1>2, <2>5, <2>6, FitStep
<1>4. CASE EndFiles(c)
  <2> DEFINE h == [conn[c] EXCEPT !.st = "done", !.fp = NoFp, !.backend = 0, !.fresh = FALSE]
  <2>1. conn' = [conn EXCEPT ![c] = h]
    BY <1>4 DEF EndFiles
  <2>2. h.backend = 0 /\ ~h.fresh /\ h.st = "done"
    BY <1>1 DEF Connection
  <2> HIDE DEF h
  <2>3. conn'[c] = h /\ \A d \in Clients : d # c => conn'[d] = conn[d]
    BY <1>1, <2>1
  <2>4. SameGroups
    <3>1. CASE b = 0
      BY <1>4, <3>1, SameTables DEF EndFiles
    <3>2. CASE b # 0
      <4> DEFINE B == WithKey(backend[b], Flushed(backend[b].key, conn[c].fp))
      <4>1. b \in 1..Len(backend) /\ backend' = Put(backend, b, B)
        BY <1>1, <1>4, <3>2 DEF EndFiles, Put, WithKey
      <4>2. backend[b] \in Backend
        BY <4>1, BackendsAre DEF NetInv, Typed
      <4>3. B.groups = backend[b].groups
        BY <4>2 DEF Backend, WithKey
      <4> HIDE DEF B, b
      <4> QED BY <4>1, <4>3, BytesPut
    <3> QED BY <3>1, <3>2
  <2>5. ASSUME NEW d \in Clients PROVE FreshRight(d)' /\ RootRight(d)' /\ AsksAtRoot(d)' /\ UnlinkingStays(d)
    <3>1. CASE d # c
      <4>1. Fits(d)
        BY <1>2, <2>3, <3>1 DEF Fits
      <4> QED BY <1>2, <4>1, FitsRight
    <3>2. CASE d = c
      BY <1>2, <2>2, <2>3, <3>2 DEF GroupInv, FreshRight, RootRight, AsksAtRoot, UnlinkingStays, Unlinking
    <3> QED BY <3>1, <3>2
  <2>6. \A n \in Names : backend'[Root].groups[n] = backend[Root].groups[n]
    BY <2>4, RootIs DEF SameGroups
  <2> QED BY <1>2, <2>5, <2>6, QuietGroups
<1> QED BY <1>3, <1>4

-----------------------------------------------------------------------------
(* Steps on groups *)

\* Who is unlinking a group has the root locked for writing.
LEMMA UnlinkerHasRoot ==
  ASSUME NetInv, GroupInv, NEW c \in Clients, NEW n, Unlinking(c, n)
  PROVE  conn[c].backend = Root /\ Has(c) = "w" /\ backend[Root].writer = c
<1>1. PairRight(cl[c], conn[c], Has(c)) /\ conn[c].st = "group" /\ cl[c].req.cmd \in {"unlink_all", "unlink_group"}
  BY PairParts DEF Unlinking
<1>2. Has(c) = "w" /\ conn[c].backend # 0
  BY <1>1 DEF PairRight, RequestRight, HandlerRight
<1>3. conn[c].backend = Root
  BY <1>1, <1>2 DEF GroupInv, AsksAtRoot, RootRight, GroupCmds
<1> QED BY <1>2, <1>3 DEF Has

\* The group that GroupStep leads to from the root.
LEMMA ResolvedIs ==
  ASSUME OneLevel, NetInv, NEW path \in Paths
  PROVE  \/ path = << >> /\ GetGroupFiles(path) = Start
         \/ path \in Groups /\ GetGroupFiles(path) = GroupStep(Start, path)
<1>1. path \in Seq(STRING) /\ Len(path) \in Nat /\ Len(path) <= 1
  BY PathsAssumption DEF OneLevel
<1>2. PICK f : WalkTo(f, path, Len(path)) /\ GetGroupFiles(path) = f[Len(path)]
  BY <1>1, WalkIs
<1>3. f[0] = Start /\ \A i \in 1..Len(path) : f[i] = GroupStep(f[i - 1], SubSeq(path, 1, i))
  BY <1>1, <1>2 DEF WalkTo
<1>4. CASE Len(path) = 0
  BY <1>1, <1>2, <1>3, <1>4
<1>5. CASE Len(path) = 1
  <2>1. path \in Groups
    BY <1>5 DEF Groups
  <2>2. SubSeq(path, 1, 1) = path
    <3>1. /\ SubSeq(path, 1, 1) \in Seq(STRING) /\ Len(SubSeq(path, 1, 1)) = 1
          /\ \A i \in 1..1 : SubSeq(path, 1, 1)[i] = path[i]
      BY <1>1, <1>5
    <3> QED BY <1>1, <1>5, <3>1
  <2>3. f[1] = GroupStep(f[0], SubSeq(path, 1, 1))
    BY <1>3, <1>5
  <2> QED BY <1>2, <1>3, <1>5, <2>1, <2>2, <2>3
<1>6. Len(path) = 0 \/ Len(path) = 1
  <2>1. ASSUME NEW m \in Nat, m <= 1 PROVE m = 0 \/ m = 1
    BY <2>1
  <2> QED BY <1>1, <2>1
<1> QED BY <1>4, <1>5, <1>6

\* A step that leads group n to backend b, and no other group elsewhere.
Leads(n, b) ==
  /\ Grown(backend, backend') /\ b # 0
  /\ files' \in [Groups -> Nat] /\ live' \in [Groups -> Nat]
  /\ \A p \in Groups : p # <<n>> => files'[p] = files[p] /\ live'[p] = live[p]
  /\ \A m \in Names : m # n => backend'[Root].groups[m] = backend[Root].groups[m]
  /\ Current(<<n>>)' = b

LEMMA LeadsRight ==
  ASSUME OneLevel, NetInv, GroupInv, NEW n \in Names, NEW b, Leads(n, b),
         Current(<<n>>) # 0 => Current(<<n>>) = b, CacheRight(n)',
         \A d \in Clients : /\ cl'[d].path = cl[d].path /\ RootRight(d)' /\ AsksAtRoot(d)' /\ UnlinkingStays(d)
                            /\ conn'[d].fresh => /\ conn'[d].backend # 0
                                                 /\ \/ conn[d].fresh /\ conn'[d].backend = conn[d].backend
                                                    \/ conn'[d].backend = Current(cl[d].path)'
  PROVE  GroupInv'
<1>1. ASSUME NEW d \in Clients, conn[d].fresh PROVE Current(cl[d].path)' = conn[d].backend
  <2>1. conn[d].backend # 0 /\ conn[d].backend = Current(cl[d].path) /\ cl[d].path \in Paths
    BY <1>1, PairParts DEF GroupInv, FreshRight
  <2>2. CASE cl[d].path = << >>
    BY <2>1, <2>2 DEF Current
  <2>3. CASE cl[d].path = <<n>>
    BY <2>1, <2>3 DEF Leads
  <2>4. CASE cl[d].path # << >> /\ cl[d].path # <<n>>
    <3>1. cl[d].path \in Groups
      BY <2>1, <2>4 DEF Groups
    <3> QED BY <2>1, <2>4, <3>1 DEF Leads, Current
  <2> QED BY <2>2, <2>3, <2>4
<1>2. ASSUME NEW d \in Clients PROVE FreshRight(d)' /\ RootRight(d)' /\ AsksAtRoot(d)'
  BY <1>1 DEF FreshRight
<1>3. ASSUME NEW m \in Names PROVE CacheRight(m)'
  <2>1. CASE m = n
    BY <2>1
  <2>2. CASE m # n
    <3>1. <<m>> \in Groups /\ <<m>> # <<n>>
      BY <2>2, NameIs
    <3>2. CacheRight(m)
      BY DEF GroupInv
    <3>3. (\A c \in Clients : ~Unlinking(c, m)') => \A c \in Clients : ~Unlinking(c, m)
      BY DEF UnlinkingStays
    <3> QED BY <2>2, <3>1, <3>2, <3>3 DEF Leads, CacheRight
  <2> QED BY <2>1, <2>2
<1> QED BY <1>2, <1>3 DEF GroupInv

\* get_group_files for a group of the root.
LEMMA StepIs ==
  ASSUME NetInv, NEW p, NEW n, p = <<n>>
  PROVE  LET r == GroupStep(Start, p)
             w == WithGroup(backend, Root, n)
         IN  \/ live[p] # 0 /\ r.bs = backend /\ r.b = live[p] /\ r.files = [files EXCEPT ![p] = live[p]]
             \/ live[p] = 0 /\ files[p] # 0 /\ r.bs = backend /\ r.b = files[p] /\ r.files = files
             \/ live[p] = 0 /\ files[p] = 0 /\ r.bs = w.bs /\ r.b = w.b /\ r.files = [files EXCEPT ![p] = w.b]
<1> DEFINE r == GroupStep(Start, p)
           w == WithGroup(backend, Root, n)
<1>1. p[Len(p)] = n
  OBVIOUS
<1>2. /\ Start.bs = backend /\ Start.b = Root /\ Start.files = files /\ Start.islive
      /\ Start = [bs |-> backend, b |-> Root, files |-> files, islive |-> TRUE]
  BY DEF Start
<1>3. r = IF live[p] # 0 THEN [Start EXCEPT !.b = live[p], !.files[p] = live[p]]
          ELSE IF files[p] # 0 THEN [Start EXCEPT !.b = files[p], !.islive = FALSE]
          ELSE [bs |-> w.bs, b |-> w.b, files |-> [files EXCEPT ![p] = w.b], islive |-> FALSE]
  BY <1>1, <1>2 DEF GroupStep
<1>4. CASE live[p] # 0
  <2> DEFINE fs == [files EXCEPT ![p] = live[p]]
  <2>1. r = [Start EXCEPT !.b = live[p], !.files = fs]
    BY <1>2, <1>3, <1>4
  <2> HIDE DEF fs, r
  <2>2. r.bs = backend /\ r.b = live[p] /\ r.files = fs
    BY <1>2, <2>1
  <2> QED BY <1>4, <2>2 DEF fs, r
<1>5. CASE live[p] = 0 /\ files[p] # 0
  <2>1. r = [Start EXCEPT !.b = files[p], !.islive = FALSE]
    BY <1>3, <1>5
  <2> HIDE DEF r
  <2>2. r.bs = backend /\ r.b = files[p] /\ r.files = files
    BY <1>2, <2>1
  <2> QED BY <1>5, <2>2 DEF r
<1>6. CASE live[p] = 0 /\ files[p] = 0
  <2> DEFINE fs == [files EXCEPT ![p] = w.b]
  <2>1. r = [bs |-> w.bs, b |-> w.b, files |-> fs, islive |-> FALSE]
    BY <1>3, <1>6
  <2> HIDE DEF fs, r, w
  <2>2. r.bs = w.bs /\ r.b = w.b /\ r.files = fs
    BY <2>1
  <2> QED BY <1>6, <2>2 DEF fs, r, w
<1> QED BY <1>4, <1>5, <1>6

LEMMA ResolveGroups ==
  ASSUME OneLevel, NetInv, GroupInv, NEW c \in Clients, Resolve(c)
  PROVE  GroupInv'
<1> DEFINE path == cl[c].path
           g == GetGroupFiles(path)
           half == [conn[c] EXCEPT !.backend = g.b]
           h == [half EXCEPT !.fresh = TRUE]
<1>1. cl[c] \in Client /\ conn[c] \in Connection /\ path \in Paths /\ conn \in [Clients -> Connection]
  BY PairParts DEF NetInv, Typed
<1>2. conn[c].st = "recv" /\ cl' = cl /\ live' = live /\ backend' = g.bs /\ files' = g.files
  BY DEF Resolve
<1>3. conn' = [conn EXCEPT ![c] = h]
  <2>1. conn' = [conn EXCEPT ![c].backend = g.b, ![c].fresh = TRUE]
    BY DEF Resolve
  <2> HIDE DEF g
  <2> QED BY <1>1, <2>1
<1>4. StepGood(g)
  BY <1>1, Resolved DEF NetInv
<1>5. Backends(g.bs) /\ Len(g.bs) \in Nat /\ g.b \in 1..Len(g.bs) /\ g.files \in [Groups -> 0..Len(g.bs)] /\ Grown(backend, g.bs)
  BY <1>4, BackendsAre DEF StepGood, Grown
<1> HIDE DEF g
<1>6. half = [st |-> conn[c].st, backend |-> g.b, lockers |-> conn[c].lockers, fp |-> conn[c].fp, fresh |-> conn[c].fresh]
  BY <1>1 DEF Connection
<1> HIDE DEF half
<1>7. h.backend = g.b /\ h.fresh /\ h.st = "recv"
  BY <1>2, <1>6
<1> HIDE DEF h
<1>8. conn'[c] = h /\ \A d \in Clients : d # c => conn'[d] = conn[d]
  BY <1>1, <1>3
<1>9. ASSUME NEW d \in Clients PROVE AsksAtRoot(d)' /\ UnlinkingStays(d)
  <2>1. AsksAtRoot(d)'
    BY <1>2 DEF GroupInv, AsksAtRoot
  <2>2. d # c => UnlinkingStays(d)
    BY <1>2, <1>8 DEF UnlinkingStays, Unlinking
  <2>3. d = c => UnlinkingStays(d)
    BY <1>2 DEF UnlinkingStays, Unlinking
  <2> QED BY <2>1, <2>2, <2>3
<1>10. CASE path = << >> /\ g = Start
  <2>1. g.bs = backend /\ g.b = Root /\ g.files = files
    BY <1>10 DEF Start
  <2>2. ASSUME NEW d \in Clients PROVE FreshRight(d)' /\ RootRight(d)'
    <3>1. CASE d # c
      BY <1>2, <1>8, <2>1, <3>1 DEF GroupInv, FreshRight, RootRight, Current
    <3>2. CASE d = c
      BY <1>2, <1>7, <1>8, <1>10, <2>1, <3>2 DEF FreshRight, RootRight, Current, Root
    <3> QED BY <3>1, <3>2
  <2> QED BY <1>2, <1>9, <2>1, <2>2, QuietGroups
<1>11. CASE path \in Groups /\ g = GroupStep(Start, path)
  <2>1. PICK n \in Names : path = <<n>> /\ <<n>> # << >> /\ <<n>> \in Groups
    BY <1>11, GroupIs DEF Groups
  <2> DEFINE w == WithGroup(backend, Root, n)
  <2>2. /\ Root \in 1..Len(backend) /\ Len(backend) \in Nat /\ Backends(backend)
        /\ files \in [Groups -> 0..Len(backend)] /\ live \in [Groups -> 0..Len(backend)]
    BY RootIs DEF NetInv, Typed
  <2>3. /\ Grown(backend, w.bs) /\ w.b \in 1..Len(w.bs) /\ w.bs[Root].groups[n] = w.b
        /\ \A m \in Names : m # n => w.bs[Root].groups[m] = backend[Root].groups[m]
    BY <2>1, <2>2, WithGroupIs
  <2>4. \/ live[<<n>>] # 0 /\ g.bs = backend /\ g.b = live[<<n>>] /\ g.files = [files EXCEPT ![<<n>>] = live[<<n>>]]
        \/ live[<<n>>] = 0 /\ files[<<n>>] # 0 /\ g.bs = backend /\ g.b = files[<<n>>] /\ g.files = files
        \/ live[<<n>>] = 0 /\ files[<<n>>] = 0 /\ g.bs = w.bs /\ g.b = w.b /\ g.files = [files EXCEPT ![<<n>>] = w.b]
    <3>1. g = GroupStep(Start, <<n>>)
      BY <1>11, <2>1
    <3> HIDE DEF path
    <3> QED BY <3>1, StepIs
  <2> HIDE DEF w
  <2>5. files'[<<n>>] = g.b \/ live[<<n>>] # 0
    BY <1>2, <2>1, <2>2, <2>4
  <2>6. Current(<<n>>)' = g.b
    BY <1>2, <2>1, <2>4, <2>5 DEF Current
  <2>7. g.b # 0
    BY <1>5
  <2>8. Leads(n, g.b)
    <3>1. \A p \in Groups : p # <<n>> => files'[p] = files[p]
      BY <1>2, <2>2, <2>4
    <3>2. files' \in [Groups -> Nat] /\ live' \in [Groups -> Nat]
      BY <1>2, <1>5, <2>2
    <3>3. \A m \in Names : m # n => backend'[Root].groups[m] = backend[Root].groups[m]
      BY <1>2, <2>3, <2>4
    <3> HIDE DEF path
    <3> QED BY <1>2, <1>5, <2>1, <2>6, <2>7, <3>1, <3>2, <3>3 DEF Leads
  <2>9. Current(<<n>>) # 0 => Current(<<n>>) = g.b
    BY <2>1, <2>4 DEF Current
  <2>10. CacheRight(n)'
    <3>1. CASE live[<<n>>] # 0
      BY <1>2, <2>1, <3>1 DEF CacheRight
    <3>2. CASE live[<<n>>] = 0 /\ files[<<n>>] # 0
      <4>1. files' = files /\ backend' = backend
        BY <1>2, <2>4, <3>2
      <4>2. (\A d \in Clients : ~Unlinking(d, n)') => \A d \in Clients : ~Unlinking(d, n)
        BY <1>9, <2>1 DEF UnlinkingStays
      <4> QED BY <1>2, <2>1, <4>1, <4>2 DEF GroupInv, CacheRight
    <3>3. CASE live[<<n>>] = 0 /\ files[<<n>>] = 0
      <4>1. backend'[Root].groups[n] = g.b /\ files'[<<n>>] = g.b
        BY <1>2, <2>3, <2>4, <2>5, <3>3
      <4> QED BY <2>1, <4>1 DEF CacheRight
    <3> QED BY <3>1, <3>2, <3>3
  <2>11. ASSUME NEW d \in Clients
         PROVE  /\ cl'[d].path = cl[d].path /\ RootRight(d)' /\ AsksAtRoot(d)' /\ UnlinkingStays(d)
                /\ conn'[d].fresh => /\ conn'[d].backend # 0
                                     /\ \/ conn[d].fresh /\ conn'[d].backend = conn[d].backend
                                        \/ conn'[d].backend = Current(cl[d].path)'
    <3>1. CASE d = c
      BY <1>2, <1>7, <1>8, <1>9, <2>1, <2>6, <2>7, <3>1 DEF RootRight
    <3>2. CASE d # c
      BY <1>2, <1>8, <1>9, <3>2 DEF GroupInv, RootRight, FreshRight
    <3> QED BY <3>1, <3>2
  <2> HIDE DEF path
  <2> QED BY <2>1, <2>8, <2>9, <2>10, <2>11, LeadsRight
<1> QED BY <1>1, <1>10, <1>11, ResolvedIs DEF g

\* Connection c goes on to state st, and those of T need not agree any more.
Marks(c, st, T) == GoesOn(c, st) /\ \A d \in Clients : conn'[d].fresh => conn[d].fresh /\ d \notin T

LEMMA MarksIs ==
  ASSUME NetInv, NEW c \in Clients, NEW T, NEW st \in {"recv", "group"}, NEW base,
         base = [d \in Clients |-> IF d \in T THEN Freshless(conn[d]) ELSE conn[d]],
         conn' = [base EXCEPT ![c].st = st]
  PROVE  Marks(c, st, T)
<1>1. OnlyFresh(base)
  BY StaleIs
<1>2. GoesOn(c, st)
  BY <1>1, GoesOnIs
<1>3. conn \in [Clients -> Connection] /\ base \in [Clients -> Connection]
  BY <1>1 DEF NetInv, Typed, OnlyFresh
<1>4. ASSUME NEW d \in Clients, conn'[d].fresh PROVE conn[d].fresh /\ d \notin T
  <2>1. base[d].fresh
    <3>1. CASE d = c
      <4>1. conn'[c] = [base[c] EXCEPT !.st = st] /\ base[c] \in Connection
        BY <1>3
      <4>2. [base[c] EXCEPT !.st = st].fresh = base[c].fresh
        BY <4>1 DEF Connection
      <4> QED BY <1>4, <3>1, <4>1, <4>2
    <3>2. CASE d # c
      BY <1>3, <1>4, <3>2
    <3> QED BY <3>1, <3>2
  <2>2. base[d] = IF d \in T THEN Freshless(conn[d]) ELSE conn[d]
    OBVIOUS
  <2>3. ~Freshless(conn[d]).fresh
    BY <1>3 DEF Freshless, Connection
  <2> QED BY <2>1, <2>2, <2>3
<1> QED BY <1>2, <1>4 DEF Marks

LEMMA MarksNone ==
  ASSUME NetInv, NEW c \in Clients, NEW st \in {"recv", "group"}, conn' = [conn EXCEPT ![c].st = st]
  PROVE  Marks(c, st, {})
<1>1. conn = [d \in Clients |-> IF d \in {} THEN Freshless(conn[d]) ELSE conn[d]]
  BY DEF NetInv, Typed
<1> QED BY <1>1, MarksIs

LEMMA MarksStale ==
  ASSUME NetInv, NEW c \in Clients, NEW st \in {"recv", "group"}, NEW p, conn' = [Stale(p) EXCEPT ![c].st = st]
  PROVE  Marks(c, st, {d \in Clients : cl[d].path = p})
<1> DEFINE T == {d \in Clients : cl[d].path = p}
<1>1. Stale(p) = [d \in Clients |-> IF d \in T THEN Freshless(conn[d]) ELSE conn[d]]
  BY DEF Stale, Freshless
<1> HIDE DEF T
<1>2. Marks(c, st, T)
  BY <1>1, MarksIs
<1> QED BY <1>2 DEF T

\* A step that begins to change the groups, and leaves the cache alone.
LEMMA BeginStep ==
  ASSUME NetInv, GroupInv, NEW c \in Clients, NEW T, Marks(c, "group", T), conn[c].st = "recv",
         cl' = cl, files' = files, live' = live, \A n \in Names : CacheRight(n)'
  PROVE  GroupInv'
<1>1. ASSUME NEW d \in Clients PROVE Fits(d)
  BY <1>1 DEF Marks, GoesOn, Fits
<1> QED BY <1>1, FitsRight DEF GroupInv

\* The handler that serves a request for groups is one of the root.
LEMMA AtRoot ==
  ASSUME GroupInv, NEW c \in Clients, cl[c].req.cmd \in GroupCmds
  PROVE  cl[c].path = << >> /\ (conn[c].backend # 0 => conn[c].backend = Root)
         /\ Append(cl[c].path, cl[c].req.name) = <<cl[c].req.name>>
<1>1. cl[c].path = << >>
  BY DEF GroupInv, AsksAtRoot
<1>2. Append(<< >>, cl[c].req.name) = <<cl[c].req.name>>
  OBVIOUS
<1> QED BY <1>1, <1>2 DEF GroupInv, RootRight

LEMMA ServeGroupGroups ==
  ASSUME OneLevel, NetInv, GroupInv, NEW c \in Clients, ServeGroup(c)
  PROVE  GroupInv'
<1>1. /\ conn[c].st = "recv" /\ cl[c].req.cmd \in {"add_group", "unlink_group"} /\ conn[c].backend \in 1..Len(backend)
      /\ cl[c].req \in Request
  BY ServingIs, PairParts DEF ServeGroup, Cmds, GroupCmds
<1>2. PICK name \in Names : name = cl[c].req.name
  BY <1>1, RequestParts
<1>3. cl' = cl /\ files' = files /\ live' = live
  BY DEF ServeGroup
<1>4. conn[c].backend = Root /\ Append(cl[c].path, cl[c].req.name) = <<name>>
  BY <1>1, <1>2, AtRoot DEF GroupCmds
<1>5. /\ Root \in 1..Len(backend) /\ Len(backend) \in Nat /\ Backends(backend) /\ backend \in Seq(Backend)
      /\ backend[Root] \in Backend /\ backend[Root].groups \in [Names -> 0..Len(backend)]
  BY RootIs, BackendsAre DEF NetInv, Typed, Backends
<1>6. CASE cl[c].req.cmd = "add_group"
  <2>1. conn' = [conn EXCEPT ![c].st = "group"] /\ backend' = WithGroup(backend, Root, name).bs
    BY <1>2, <1>4, <1>6 DEF ServeGroup, Cmd
  <2>2. Marks(c, "group", {})
    BY <2>1, MarksNone
  <2>3. /\ Grown(backend, backend')
        /\ \A m \in Names : m # name => backend'[Root].groups[m] = backend[Root].groups[m]
    BY <1>5, <2>1, WithGroupIs
  <2>4. ASSUME NEW n \in Names PROVE CacheRight(n)'
    <3>1. SUFFICES ASSUME live[<<n>>] = 0, files[<<n>>] # 0, \A d \in Clients : ~Unlinking(d, n)'
                   PROVE  backend'[Root].groups[n] = files[<<n>>]
      BY <1>3 DEF CacheRight
    <3>2. ASSUME NEW d \in Clients PROVE ~Unlinking(d, n)
      <4>1. CASE d = c
        BY <1>1, <4>1 DEF Unlinking
      <4>2. CASE d # c
        BY <1>3, <2>2, <3>1, <4>2 DEF Unlinking, Marks, GoesOn
      <4> QED BY <4>1, <4>2
    <3>3. backend[Root].groups[n] = files[<<n>>]
      BY <3>1, <3>2 DEF GroupInv, CacheRight
    <3> QED BY <1>5, <2>3, <3>1, <3>3 DEF Grown
  <2> QED BY <1>1, <1>3, <2>2, <2>4, BeginStep
<1>7. CASE cl[c].req.cmd = "unlink_group"
  <2>1. conn' = [Stale(<<name>>) EXCEPT ![c].st = "group"] /\ backend' = [backend EXCEPT ![Root].groups[name] = 0]
    BY <1>2, <1>4, <1>7 DEF ServeGroup, Cmd
  <2>2. Marks(c, "group", {d \in Clients : cl[d].path = <<name>>})
    BY <2>1, MarksStale
  <2>3. \A m \in Names : m # name => backend'[Root].groups[m] = backend[Root].groups[m]
    <3> DEFINE gs == [backend[Root].groups EXCEPT ![name] = 0]
    <3>1. \A m \in Names : m # name => gs[m] = backend[Root].groups[m]
      BY <1>5
    <3>2. backend' = [backend EXCEPT ![Root] = WithGroups(backend[Root], gs)]
      BY <2>1 DEF WithGroups
    <3> HIDE DEF gs
    <3>3. WithGroups(backend[Root], gs).groups = gs
      BY <1>5 DEF WithGroups, Backend
    <3> QED BY <1>5, <3>1, <3>2, <3>3
  <2>4. ASSUME NEW n \in Names PROVE CacheRight(n)'
    <3>1. CASE n = name
      <4>1. Unlinking(c, n)'
        BY <1>2, <1>3, <1>7, <2>2, <3>1 DEF Unlinking, Marks, GoesOn
      <4> QED BY <4>1 DEF CacheRight
    <3>2. CASE n # name
      <4>1. SUFFICES ASSUME live[<<n>>] = 0, files[<<n>>] # 0, \A d \in Clients : ~Unlinking(d, n)'
                     PROVE  backend'[Root].groups[n] = files[<<n>>]
        BY <1>3 DEF CacheRight
      <4>2. ASSUME NEW d \in Clients PROVE ~Unlinking(d, n)
        <5>1. CASE d = c
          BY <1>1, <5>1 DEF Unlinking
        <5>2. CASE d # c
          BY <1>3, <2>2, <4>1, <5>2 DEF Unlinking, Marks, GoesOn
        <5> QED BY <5>1, <5>2
      <4>3. backend[Root].groups[n] = files[<<n>>]
        BY <4>1, <4>2 DEF GroupInv, CacheRight
      <4> QED BY <2>3, <3>2, <4>3
    <3> QED BY <3>1, <3>2
  <2> QED BY <1>1, <1>3, <2>2, <2>4, BeginStep
<1> QED BY <1>1, <1>6, <1>7

\* A group is opened on the server itself: nobody has the root locked for
\* writing, so that the cache has what the group table of the root has.
LEMMA ServerGroupGroups ==
  ASSUME OneLevel, NetInv, GroupInv, NEW n \in Names, ServerGroup(n)
  PROVE  GroupInv'
<1> DEFINE g == WithGroup(backend, Root, n)
<1>1. /\ cl' = cl /\ conn' = conn /\ files' = files /\ backend' = g.bs /\ live' = [live EXCEPT ![<<n>>] = g.b]
      /\ live[<<n>>] = 0 /\ backend[Root].writer = Nobody
  BY DEF ServerGroup
<1>2. /\ Root \in 1..Len(backend) /\ Len(backend) \in Nat /\ Backends(backend)
      /\ files \in [Groups -> 0..Len(backend)] /\ live \in [Groups -> 0..Len(backend)]
  BY RootIs DEF NetInv, Typed
<1>3. /\ Grown(backend, g.bs) /\ g.b \in 1..Len(g.bs) /\ (backend[Root].groups[n] # 0 => g.b = backend[Root].groups[n])
      /\ \A m \in Names : m # n => g.bs[Root].groups[m] = backend[Root].groups[m]
  BY <1>2, WithGroupIs
<1> HIDE DEF g
<1>4. g.b \in Nat /\ g.b # 0
  <2>1. Len(g.bs) \in Nat
    BY <1>3, BackendsAre DEF Grown
  <2> QED BY <1>3, <2>1
<1>5. <<n>> \in Groups /\ <<n>> # << >>
  BY NameIs
<1>6. \A d \in Clients : ~Unlinking(d, n)
  BY <1>1, UnlinkerHasRoot, ClientsAssumption
<1>7. files[<<n>>] # 0 => g.b = files[<<n>>]
  <2>1. CacheRight(n)
    BY DEF GroupInv
  <2> QED BY <1>1, <1>3, <1>6, <2>1 DEF CacheRight
<1>8. live'[<<n>>] = g.b /\ Current(<<n>>)' = g.b
  BY <1>1, <1>2, <1>4, <1>5 DEF Current
<1>9. Leads(n, g.b)
  <2>1. \A p \in Groups : p # <<n>> => files'[p] = files[p] /\ live'[p] = live[p]
    BY <1>1, <1>2
  <2>2. files \in [Groups -> Nat] /\ live \in [Groups -> Nat]
    BY <1>2
  <2>3. files' \in [Groups -> Nat] /\ live' \in [Groups -> Nat]
    BY <1>1, <1>4, <2>2
  <2> QED BY <1>1, <1>3, <1>4, <1>8, <2>1, <2>3 DEF Leads
<1>10. Current(<<n>>) # 0 => Current(<<n>>) = g.b
  BY <1>1, <1>5, <1>7 DEF Current
<1>11. CacheRight(n)'
  BY <1>4, <1>8 DEF CacheRight
<1>12. ASSUME NEW d \in Clients
       PROVE  /\ cl'[d].path = cl[d].path /\ RootRight(d)' /\ AsksAtRoot(d)' /\ UnlinkingStays(d)
              /\ conn'[d].fresh => /\ conn'[d].backend # 0
                                   /\ \/ conn[d].fresh /\ conn'[d].backend = conn[d].backend
                                      \/ conn'[d].backend = Current(cl[d].path)'
  <2>1. RootRight(d)' /\ AsksAtRoot(d)' /\ UnlinkingStays(d)
    BY <1>1 DEF GroupInv, RootRight, AsksAtRoot, UnlinkingStays, Unlinking
  <2> QED BY <1>1, <2>1 DEF GroupInv, FreshRight
<1> QED BY <1>9, <1>10, <1>11, <1>12, LeadsRight

\* What the end of a request for groups leaves of the clients.
LEMMA EndStep ==
  ASSUME NetInv, GroupInv, NEW c \in Clients, NEW T, NEW ok, NEW ret, Reply(c, ok, ret), Marks(c, "recv", T)
  PROVE  /\ \A d \in Clients : /\ cl'[d].path = cl[d].path /\ RootRight(d)' /\ AsksAtRoot(d)'
                               /\ d # c => UnlinkingStays(d)
                               /\ conn'[d].backend = conn[d].backend
                               /\ conn'[d].fresh => conn[d].fresh /\ d \notin T
         /\ \A n : ~Unlinking(c, n)'
<1>1. cl'[c].path = cl[c].path /\ cl'[c].req = NoReq /\ \A d \in Clients : d # c => cl'[d] = cl[d]
  BY ReplyFits
<1>2. /\ conn'[c].st = "recv" /\ \A d \in Clients : d # c => conn'[d].st = conn[d].st
      /\ \A d \in Clients : conn'[d].backend = conn[d].backend /\ (conn'[d].fresh => conn[d].fresh /\ d \notin T)
  BY DEF Marks, GoesOn
<1>3. \A n : ~Unlinking(c, n)'
  BY <1>2 DEF Unlinking
<1>4. ASSUME NEW d \in Clients PROVE cl'[d].path = cl[d].path /\ RootRight(d)' /\ AsksAtRoot(d)'
  <2>1. CASE d = c
    BY <1>1, <1>2, <2>1, NoCmd DEF GroupInv, RootRight, AsksAtRoot
  <2>2. CASE d # c
    BY <1>1, <1>2, <2>2 DEF GroupInv, RootRight, AsksAtRoot
  <2> QED BY <2>1, <2>2
<1>5. ASSUME NEW d \in Clients, d # c PROVE UnlinkingStays(d)
  BY <1>1, <1>2, <1>5 DEF UnlinkingStays, Unlinking
<1> QED BY <1>2, <1>3, <1>4, <1>5

LEMMA ServeGroupFilesGroups ==
  ASSUME OneLevel, NetInv, GroupInv, NEW c \in Clients, ServeGroupFiles(c)
  PROVE  GroupInv'
<1>1. /\ conn[c].st = "group" /\ cl[c].req.cmd \in {"add_group", "unlink_group"} /\ cl[c].req \in Request
      /\ PairRight(cl[c], conn[c], Has(c)) /\ conn[c].backend # 0
  <2>1. conn[c].st = "group" /\ cl[c].req.cmd \in {"add_group", "unlink_group"}
    BY DEF ServeGroupFiles, Cmd
  <2> QED BY <2>1, PairParts DEF PairRight, HandlerRight
<1>2. PICK name \in Names : name = cl[c].req.name
  BY <1>1, RequestParts
<1>3. conn[c].backend = Root /\ Append(cl[c].path, cl[c].req.name) = <<name>>
  BY <1>1, <1>2, AtRoot DEF GroupCmds
<1>4. <<name>> \in Groups /\ <<name>> # << >>
  BY NameIs
<1>5. backend' = backend /\ live' = live /\ Reply(c, TRUE, 0)
  BY DEF ServeGroupFiles
<1>6. /\ Root \in 1..Len(backend) /\ Len(backend) \in Nat /\ Backends(backend) /\ files \in [Groups -> Nat]
      /\ live \in [Groups -> Nat] /\ backend[Root].groups \in [Names -> Nat]
  <2>1. Root \in 1..Len(backend) /\ Len(backend) \in Nat /\ Backends(backend) /\ backend[Root].groups \in [Names -> 0..Len(backend)]
    BY RootIs
  <2>2. files \in [Groups -> 0..Len(backend)] /\ live \in [Groups -> 0..Len(backend)]
    BY DEF NetInv, Typed
  <2> QED BY <2>1, <2>2
<1>7. CASE cl[c].req.cmd = "add_group"
  <2>1. conn' = [conn EXCEPT ![c].st = "recv"]
    BY <1>7 DEF ServeGroupFiles, Cmd
  <2>2. Marks(c, "recv", {})
    BY <2>1, MarksNone
  <2>3. PICK b \in Nat : b = backend[Root].groups[name] /\ b # 0
    BY <1>1, <1>2, <1>3, <1>6, <1>7 DEF NetInv, Made
  <2>4. files' = [files EXCEPT ![<<name>>] = b]
    <3>1. files' = [files EXCEPT ![<<name>>] = WithGroup(backend, Root, name).b]
      BY <1>2, <1>3, <1>7 DEF ServeGroupFiles, Cmd
    <3>2. WithGroup(backend, Root, name).b = b
      BY <2>3 DEF WithGroup
    <3> QED BY <3>1, <3>2
  <2>5. \A d \in Clients : ~Unlinking(d, name)
    <3>1. ~Unlinking(c, name)
      BY <1>7 DEF Unlinking
    <3>2. Has(c) # "un"
      BY <1>1, <1>7 DEF PairRight, RequestRight
    <3>3. ASSUME NEW d \in Clients, d # c, Unlinking(d, name) PROVE FALSE
      <4>1. conn[d].backend = conn[c].backend /\ Has(d) = "w"
        BY <1>3, <3>3, UnlinkerHasRoot
      <4> QED BY <3>2, <3>3, <4>1, HoldersExclude DEF NetInv
    <3> QED BY <3>1, <3>3
  <2>6. live[<<name>>] = 0 /\ files[<<name>>] # 0 => files[<<name>>] = b
    BY <2>3, <2>5 DEF GroupInv, CacheRight
  <2>7. files'[<<name>>] = b /\ files' \in [Groups -> Nat] /\ \A p \in Groups : p # <<name>> => files'[p] = files[p]
    BY <1>4, <1>6, <2>3, <2>4
  <2>8. CacheRight(name)'
    BY <1>5, <2>3, <2>7 DEF CacheRight
  <2>9. PICK to : to = Current(<<name>>)'
    OBVIOUS
  <2>10. to = IF live[<<name>>] # 0 THEN live[<<name>>] ELSE b
    BY <1>4, <1>5, <2>7, <2>9 DEF Current
  <2>11. Current(<<name>>) # 0 => Current(<<name>>) = to
    BY <1>4, <2>6, <2>10 DEF Current
  <2>12. Leads(name, to)
    <3>1. Grown(backend, backend')
      BY <1>5, <1>6, GrownSame
    <3> QED BY <1>5, <1>6, <2>3, <2>7, <2>9, <2>10, <3>1 DEF Leads
  <2>13. ASSUME NEW d \in Clients
         PROVE  /\ cl'[d].path = cl[d].path /\ RootRight(d)' /\ AsksAtRoot(d)' /\ UnlinkingStays(d)
                /\ conn'[d].fresh => /\ conn'[d].backend # 0
                                     /\ \/ conn[d].fresh /\ conn'[d].backend = conn[d].backend
                                        \/ conn'[d].backend = Current(cl[d].path)'
    <3>1. /\ cl'[d].path = cl[d].path /\ RootRight(d)' /\ AsksAtRoot(d)' /\ (d # c => UnlinkingStays(d))
          /\ conn'[d].backend = conn[d].backend /\ (conn'[d].fresh => conn[d].fresh)
      BY <1>5, <2>2, EndStep
    <3>2. UnlinkingStays(c)
      BY <1>7 DEF UnlinkingStays, Unlinking
    <3> QED BY <3>1, <3>2 DEF GroupInv, FreshRight
  <2> QED BY <2>8, <2>11, <2>12, <2>13, LeadsRight
<1>8. CASE cl[c].req.cmd = "unlink_group"
  <2> DEFINE T == {d \in Clients : cl[d].path = <<name>>}
  <2>1. conn' = [Stale(<<name>>) EXCEPT ![c].st = "recv"] /\ files' = [files EXCEPT ![<<name>>] = 0]
    BY <1>2, <1>3, <1>8 DEF ServeGroupFiles, Cmd
  <2>2. Marks(c, "recv", T)
    BY <2>1, MarksStale
  <2>3. files'[<<name>>] = 0 /\ \A p \in Groups : p # <<name>> => files'[p] = files[p]
    BY <1>4, <1>6, <2>1
  <2>4. ASSUME NEW d \in Clients
        PROVE  /\ cl'[d].path = cl[d].path /\ RootRight(d)' /\ AsksAtRoot(d)' /\ (d # c => UnlinkingStays(d))
               /\ conn'[d].backend = conn[d].backend /\ (conn'[d].fresh => conn[d].fresh /\ d \notin T)
    <3> HIDE DEF T
    <3> QED BY <1>5, <2>2, EndStep
  <2>5. ASSUME NEW d \in Clients PROVE FreshRight(d)'
    <3>1. SUFFICES ASSUME conn'[d].fresh PROVE conn'[d].backend # 0 /\ conn'[d].backend = Current(cl[d].path)'
      BY DEF FreshRight
    <3>2. PICK p \in Paths : p = cl[d].path
      BY PairParts
    <3>3. conn[d].backend # 0 /\ conn[d].backend = Current(p) /\ p # <<name>> /\ p = cl'[d].path
      BY <2>4, <3>1, <3>2 DEF GroupInv, FreshRight
    <3>4. Current(p)' = Current(p)
      <4>1. CASE p = << >>
        BY <4>1 DEF Current
      <4>2. CASE p # << >>
        <5>1. p \in Groups
          BY <4>2 DEF Groups
        <5> QED BY <1>5, <2>3, <3>3, <5>1 DEF Current
      <4> QED BY <4>1, <4>2
    <3> QED BY <2>4, <3>3, <3>4
  <2>6. ASSUME NEW m \in Names PROVE CacheRight(m)'
    <3>1. CASE m = name
      BY <2>3, <3>1 DEF CacheRight
    <3>2. CASE m # name
      <4>1. <<m>> \in Groups /\ <<m>> # <<name>>
        BY <3>2, NameIs
      <4>2. ~Unlinking(c, m)
        BY <1>2, <1>8, <3>2 DEF Unlinking
      <4>3. (\A d \in Clients : ~Unlinking(d, m)') => \A d \in Clients : ~Unlinking(d, m)
        BY <2>4, <4>2 DEF UnlinkingStays
      <4> QED BY <1>5, <2>3, <4>1, <4>3 DEF GroupInv, CacheRight
    <3> QED BY <3>1, <3>2
  <2> QED BY <2>4, <2>5, <2>6 DEF GroupInv
<1> QED BY <1>1, <1>7, <1>8

LEMMA ServeUnlinkAllGroups ==
  ASSUME OneLevel, NetInv, GroupInv, NEW c \in Clients, ServeUnlinkAll(c)
  PROVE  GroupInv'
<1> DEFINE T == {d \in Clients : cl[d].path \in Groups}
           base == [d \in Clients |-> IF d \in T THEN Freshless(conn[d]) ELSE conn[d]]
<1>1. cl[c].req.cmd = "unlink_all" /\ live' = live
  BY DEF ServeUnlinkAll, Serving, Cmd
<1>2. cl[c].path = << >>
  BY <1>1, AtRoot DEF GroupCmds
<1>3. {p \in Groups : IsStrictPrefix(cl[c].path, p)} = Groups
  BY <1>2, BelowRoot
<1>4. [d \in Clients |-> IF cl[d].path \in {p \in Groups : IsStrictPrefix(cl[c].path, p)}
                         THEN [conn[d] EXCEPT !.fresh = FALSE] ELSE conn[d]] = base
  BY <1>3 DEF Freshless
<1>5. CASE /\ Serving(c, {"unlink_all"}) /\ conn' = [base EXCEPT ![c].st = "group"]
           /\ cl' = cl /\ files' = files
  <2>1. conn[c].st = "recv"
    BY <1>5, ServingIs DEF Cmds, GroupCmds
  <2> HIDE DEF T
  <2>2. Marks(c, "group", T)
    BY <1>5, MarksIs
  <2>3. ASSUME NEW n \in Names PROVE CacheRight(n)'
    <3>1. Unlinking(c, n)'
      BY <1>1, <1>5, <2>2 DEF Unlinking, Marks, GoesOn
    <3> QED BY <3>1 DEF CacheRight
  <2> QED BY <1>1, <1>5, <2>1, <2>2, <2>3, BeginStep
<1>6. CASE /\ conn[c].st = "group" /\ conn' = [base EXCEPT ![c].st = "recv"]
           /\ files' = [p \in Groups |-> IF p \in Groups THEN 0 ELSE files[p]]
           /\ Reply(c, TRUE, 0)
  <2> HIDE DEF T
  <2>1. Marks(c, "recv", T)
    BY <1>6, MarksIs
  <2>2. ASSUME NEW d \in Clients
        PROVE  /\ cl'[d].path = cl[d].path /\ RootRight(d)' /\ AsksAtRoot(d)'
               /\ conn'[d].backend = conn[d].backend /\ (conn'[d].fresh => conn[d].fresh /\ d \notin T)
    BY <1>6, <2>1, EndStep
  <2>3. ASSUME NEW n \in Names PROVE CacheRight(n)'
    <3>1. files'[<<n>>] = 0
      BY <1>6, NameIs
    <3> QED BY <3>1 DEF CacheRight
  <2>4. ASSUME NEW d \in Clients PROVE FreshRight(d)'
    <3>1. SUFFICES ASSUME conn'[d].fresh PROVE conn'[d].backend # 0 /\ conn'[d].backend = Current(cl[d].path)'
      BY DEF FreshRight
    <3>2. cl[d].path \in Paths /\ d \notin T /\ conn[d].backend # 0 /\ conn[d].backend = Current(cl[d].path)
      BY <2>2, <3>1, PairParts DEF GroupInv, FreshRight
    <3>3. cl[d].path = << >>
      BY <3>2 DEF T, Groups
    <3> QED BY <2>2, <3>2, <3>3 DEF Current
  <2> QED BY <2>2, <2>3, <2>4 DEF GroupInv
<1>7. \/ /\ Serving(c, {"unlink_all"}) /\ conn' = [base EXCEPT ![c].st = "group"]
         /\ cl' = cl /\ files' = files
      \/ /\ conn[c].st = "group" /\ conn' = [base EXCEPT ![c].st = "recv"]
         /\ files' = [p \in Groups |-> IF p \in Groups THEN 0 ELSE files[p]]
         /\ Reply(c, TRUE, 0)
  <2> HIDE DEF base
  <2> QED BY <1>3, <1>4 DEF ServeUnlinkAll
<1> QED BY <1>5, <1>6, <1>7

-----------------------------------------------------------------------------
(* The invariant, and the exclusion of clients *)

LEMMA GroupInit ==
  ASSUME OneLevel, Init
  PROVE  GroupInv
<1> DEFINE client == [up |-> FALSE, path |-> << >>, req |-> NoReq, rep |-> NoReq, lock |-> "un", io |-> NoIo]
           handler == [st |-> "done", backend |-> 0, lockers |-> 0, fp |-> NoFp, fresh |-> FALSE]
<1>1. cl = [c \in Clients |-> client] /\ conn = [c \in Clients |-> handler] /\ files = [p \in Groups |-> 0]
  BY DEF Init
<1>2. client.req = NoReq /\ ~handler.fresh /\ handler.backend = 0
  OBVIOUS
<1> HIDE DEF client, handler
<1>3. ASSUME NEW c \in Clients PROVE FreshRight(c) /\ RootRight(c) /\ AsksAtRoot(c)
  BY <1>1, <1>2, NoCmd DEF FreshRight, RootRight, AsksAtRoot
<1>4. ASSUME NEW n \in Names PROVE CacheRight(n)
  BY <1>1, NameIs DEF CacheRight
<1> QED BY <1>3, <1>4 DEF GroupInv

LEMMA GroupsStay ==
  ASSUME OneLevel, NetInv, GroupInv, [Next]_vars
  PROVE  GroupInv'
<1>1. CASE UNCHANGED vars
  BY <1>1 DEF vars, GroupInv, FreshRight, RootRight, AsksAtRoot, CacheRight, Current, Unlinking
<1>2. ASSUME NEW c \in Clients, NEW p \in Paths, Connect(c, p) PROVE GroupInv'
  BY <1>2, ConnectGroups
<1>3. ASSUME NEW c \in Clients,
             \/ Disconnect(c) \/ CallLock(c) \/ CallUnlock(c) \/ CallFile(c) \/ CallClose(c)
             \/ CallGroup(c) \/ CallUnlinkAll(c) \/ Receive(c)
      PROVE  GroupInv'
  BY <1>3, ClientGroups, CallsGroups
<1>4. ASSUME NEW c \in Clients, Handler(c) PROVE GroupInv'
  BY <1>4, ResolveGroups, LockGroups, FileGroups, ServeGroupGroups, ServeGroupFilesGroups, ServeUnlinkAllGroups,
     EndGroups DEF Handler
<1>5. ASSUME NEW n \in Names, ServerGroup(n) PROVE GroupInv'
  BY <1>5, ServerGroupGroups
<1> QED BY <1>1, <1>2, <1>3, <1>4, <1>5 DEF Next

\* What a client that has not asked to give its lock back believes in, the
\* server has counted.
LEMMA HoldsIs ==
  ASSUME NetInv, NEW c \in Clients, NEW modes, Holds(c, modes), "un" \notin modes
  PROVE  Has(c) = cl[c].lock /\ Has(c) \in modes
<1>1. ClientRight(cl[c], Has(c))
  BY PairParts DEF PairRight
<1>2. cl[c].up /\ cl[c].lock \in modes /\ cl[c].rep.cmd # "unlock"
  BY DEF Holds
<1>3. cl[c].rep.cmd \notin LockCmds
  BY <1>1, <1>2 DEF ClientRight
<1> QED BY <1>1, <1>2, <1>3 DEF ClientRight, WillBelieve

\* RemoteExclusion, where all groups are groups of the root: two clients that
\* name the same group and were led to it since it was last unlinked work on
\* one backend, so that one that has it locked for writing is alone there.
\* Deeper groups are excluded: unlink_group by name takes the group itself
\* out of the cache of the server, and not those below it.
THEOREM ClientsExclude == OneLevel => (Spec => []RemoteExclusion)
<1> SUFFICES ASSUME OneLevel PROVE Spec => []RemoteExclusion
  OBVIOUS
<1>1. Init => GroupInv
  BY GroupInit
<1>2. NetInv /\ GroupInv /\ [Next]_vars => GroupInv'
  BY GroupsStay
<1>3. NetInv /\ GroupInv => RemoteExclusion
  <2> SUFFICES ASSUME NetInv, GroupInv, NEW c \in Clients, NEW d \in Clients, c # d, cl[c].path = cl[d].path,
                      conn[c].fresh, conn[d].fresh, Holds(c, {"w"}), Holds(d, {"r", "w"})
               PROVE  FALSE
    BY DEF RemoteExclusion
  <2>1. conn[c].backend = conn[d].backend
    BY DEF GroupInv, FreshRight
  <2>2. Has(c) = "w" /\ Has(d) \in {"r", "w"}
    BY HoldsIs
  <2>3. Has(d) = "un"
    BY <2>1, <2>2, HoldersExclude DEF NetInv
  <2> QED BY <2>2, <2>3
<1> QED BY <1>1, <1>2, <1>3, Invariant, PTL DEF Spec
=============================================================================
