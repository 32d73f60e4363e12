----------------------------- MODULE NetServer -----------------------------
(***************************************************************************)
(* The TCP server of jdb_server.py and its clients of jdb_net.py.          *)
(*                                                                         *)
(* A client is one JNetFiles object: a socket, the path of the group that  *)
(* it names in every request, the lock that its FileLock believes it has,  *)
(* and at most one open JNetIO for the KEY file (open() keeps one in       *)
(* fp_dict).  A call sends one request and waits for the reply under       *)
(* JNetFiles.lock, so a connection has one request under way.  The client  *)
(* may die at any moment.  Each connection has a handler thread with its   *)
(* own copy of the backend, file objects and lock counts.                  *)
(*                                                                         *)
(* A backend is a JMemFiles object with all of its copies: KEY file, lock  *)
(* counters and group_table; Buffered stands for a disk backend, whose     *)
(* file objects may keep what was written until they are flushed.          *)
(***************************************************************************)
EXTENDS ByteFile, SequencesExt, FiniteSets

CONSTANTS
    Clients,
    Paths,          \* group paths, sequences of names; << >> is the root
    Buffered,       \* file objects of the backend buffer their writes
    MaxLocks,       \* bound on lock requests
    MaxOps,         \* bound on requests for the KEY file and for groups
    MaxSize,        \* bound on the length of a KEY file
    LockCalls,      \* the calls of LCK_rlock and LCK_wlock: [cmd, block]
    ReadCalls,      \* the calls of read, readline, readlines, seek, flush
    WriteCalls      \* the calls of write and truncate

Nobody == "nobody"   \* the writer of a backend that no client has locked for writing
ASSUME ClientsAssumption == IsFiniteSet(Clients) /\ Nobody \notin Clients
ASSUME PathsAssumption ==
    /\ << >> \in Paths /\ Paths \subseteq Seq(STRING)
    /\ \A p \in Paths : \A i \in 1..Len(p) : SubSeq(p, 1, i) \in Paths
ASSUME BoundAssumption == {MaxLocks, MaxOps, MaxSize} \subseteq Nat
ASSUME CallsAssumption ==
    /\ LockCalls \subseteq [cmd : {"rlock", "wlock"}, block : BOOLEAN]
    /\ ReadCalls \subseteq [cmd : {"read", "readline", "readlines"}, n : Int]
                            \cup [cmd : {"seek"}, n : Int, whence : 0..2] \cup [cmd : {"flush"}]
    /\ WriteCalls \subseteq [cmd : {"write"}, b : Seq(Byte)] \cup [cmd : {"truncate"}, n : Int]

VARIABLES
    cl,       \* the clients
    conn,     \* the handlers
    backend,  \* the backends, in the order of their creation; 1 is the root
    files,    \* server.group_files: backend of each path, 0 if absent
    live,     \* the groups that the server's own JDb has open: io.groups
    left      \* what the bounds leave: lock requests, other requests

vars == <<cl, conn, backend, files, live, left>>

Groups == Paths \ {<< >>}
Names == {p[Len(p)] : p \in Groups}
NoFp == [open |-> FALSE, idx |-> 0, dirty |-> << >>]
NoReq == [cmd |-> "none"]
NoIo == [open |-> FALSE, found |-> FALSE, offset |-> 0]

Root == 1
NewBackend == [key |-> << >>, readers |-> 0, writer |-> Nobody, wcnt |-> 0, groups |-> [n \in Names |-> 0]]

Init ==
    /\ cl = [c \in Clients |-> [up |-> FALSE, path |-> << >>, req |-> NoReq, rep |-> NoReq, lock |-> "un",
                                io |-> NoIo]]
    /\ conn = [c \in Clients |-> [st |-> "done", backend |-> 0, lockers |-> 0, fp |-> NoFp, fresh |-> FALSE]]
    /\ backend = <<[NewBackend EXCEPT !.key = <<2, EndOfLine>>]>>
    /\ files = [p \in Groups |-> 0]
    /\ live = [p \in Groups |-> 0]
    /\ left = [locks |-> MaxLocks, ops |-> MaxOps]

----------------------------------------------------------------------------
\* The lock counters of a backend (LCK_* of JMemFiles).

CanRlock(c, b) == backend[b].writer \in {Nobody, c}
CanWlock(c, b) == backend[b].writer = c \/ (backend[b].writer = Nobody /\ backend[b].readers = 0)

Rlocked(b) == [backend EXCEPT ![b].readers = @ + 1]
Wlocked(c, b) ==
    IF backend[b].writer = c THEN [backend EXCEPT ![b].wcnt = @ + 1]
    ELSE [backend EXCEPT ![b].writer = c, ![b].wcnt = 1]

\* LCK_unlock takes a reader off for everyone but the writer.
Unlocked(c, b) ==
    LET w == backend[b].wcnt - 1
        r == backend[b].readers - 1
    IN  IF backend[b].writer = c
        THEN [backend EXCEPT ![b].wcnt = IF w > 0 THEN w ELSE 0, ![b].writer = IF w > 0 THEN @ ELSE Nobody]
        ELSE [backend EXCEPT ![b].readers = IF r > 0 THEN r ELSE 0]

----------------------------------------------------------------------------
\* Groups: add_group of JMemFiles and get_group_files of the server.

\* The backend behind name in the group_table of b, made if there is none:
\* the backends with it and its number.
WithGroup(bs, b, name) ==
    IF bs[b].groups[name] # 0 THEN [bs |-> bs, b |-> bs[b].groups[name]]
    ELSE [bs |-> Append([bs EXCEPT ![b].groups[name] = Len(bs) + 1], NewBackend), b |-> Len(bs) + 1]

\* Faulty variant of GetGroupFiles: the shared cache is not asked, and
\* every connection makes a backend of its own.
GetGroupFilesPrivate(path) ==
    IF path = << >> THEN [bs |-> backend, b |-> Root, files |-> files]
    ELSE [bs |-> Append(backend, NewBackend), b |-> Len(backend) + 1, files |-> files]

\* One segment of get_group_files: the server's live group, the shared cache,
\* or a new backend.  A segment below one that is not live is not looked up
\* among the live groups.
GroupStep(s, p) ==
    LET new == WithGroup(s.bs, s.b, p[Len(p)])
    IN  IF s.islive /\ live[p] # 0 THEN [s EXCEPT !.b = live[p], !.files[p] = live[p]]
        ELSE IF s.files[p] # 0 THEN [s EXCEPT !.b = s.files[p], !.islive = FALSE]
        ELSE [bs |-> new.bs, b |-> new.b, files |-> [s.files EXCEPT ![p] = new.b], islive |-> FALSE]

\* get_group_files, from the root down.
GetGroupFiles(path) ==
    LET walk[i \in 0..Len(path)] ==
            IF i = 0 THEN [bs |-> backend, b |-> Root, files |-> files, islive |-> TRUE]
            ELSE GroupStep(walk[i - 1], SubSeq(path, 1, i))
    IN  walk[Len(path)]

----------------------------------------------------------------------------
\* Clients.

Idle(c) == cl[c].up /\ cl[c].req = NoReq /\ cl[c].rep = NoReq

Send(c, req) == cl' = [cl EXCEPT ![c].req = req]

\* JNetFiles.__init__ of a client that names the given group.
Connect(c, path) ==
    /\ ~cl[c].up /\ conn[c].st = "done" /\ left.locks > 0
    /\ cl' = [cl EXCEPT ![c] = [@ EXCEPT !.up = TRUE, !.path = path]]
    /\ conn' = [conn EXCEPT ![c] = [st |-> "recv", backend |-> IF path = << >> THEN Root ELSE 0, lockers |-> 0,
                                    fp |-> NoFp, fresh |-> path = << >>]]
    /\ UNCHANGED <<backend, files, live, left>>

\* The client dies or closes its socket; what it has sent may be lost.
Disconnect(c) ==
    /\ cl[c].up
    /\ \E req \in {cl[c].req, NoReq} :
          /\ conn[c].st # "recv" => req = cl[c].req
          /\ cl' = [cl EXCEPT ![c] = [@ EXCEPT !.up = FALSE, !.req = req, !.rep = NoReq, !.lock = "un", !.io = NoIo]]
    /\ UNCHANGED <<conn, backend, files, live, left>>

\* LCK_rlock and LCK_wlock, as FileLock calls them: with no lock held.
CallLock(c) ==
    /\ Idle(c) /\ cl[c].lock = "un" /\ left.locks > 0
    /\ \E call \in LockCalls : Send(c, call)
    /\ left' = [left EXCEPT !.locks = @ - 1]
    /\ UNCHANGED <<conn, backend, files, live>>

\* LCK_unlock: a session closes its file first.
CallUnlock(c) ==
    /\ Idle(c) /\ cl[c].lock # "un" /\ ~cl[c].io.open
    /\ Send(c, [cmd |-> "unlock"])
    /\ UNCHANGED <<conn, backend, files, live, left>>

\* Faulty variant of FileCalls: a read session writes.
FileCallsAnyLock(c) ==
    LET may == cl[c].io.offset < MaxSize
    IN  IF ~cl[c].io.open THEN {[cmd |-> "open", mode |-> "rb+"]}
        ELSE IF ~cl[c].io.found THEN {[cmd |-> "open", mode |-> "wb+"]}
        ELSE ReadCalls \cup (IF may THEN WriteCalls ELSE {})

\* The calls of JNetIO and KEY_open, with their arguments.  A file that was
\* not found is opened again for writing, by _init_KEY.
FileCalls(c) ==
    LET may == cl[c].lock = "w" /\ cl[c].io.offset < MaxSize
    IN  IF ~cl[c].io.open THEN {[cmd |-> "open", mode |-> "rb+"]}
        ELSE IF ~cl[c].io.found THEN IF may THEN {[cmd |-> "open", mode |-> "wb+"]} ELSE {}
        ELSE ReadCalls \cup (IF may THEN WriteCalls ELSE {})

\* Whether seek asks the server: JNetIO answers from its own offset when
\* that is where it would end.
SeekAsks(c, call) ==
    (call.whence = 0 /\ call.n # cl[c].io.offset) \/ (call.whence = 1 /\ call.n # 0) \/ call.whence = 2

CallFile(c) ==
    /\ Idle(c) /\ cl[c].lock # "un" /\ left.ops > 0
    /\ \E call \in FileCalls(c) :
          /\ call.cmd = "seek" => SeekAsks(c, call)
          /\ Send(c, call)
    /\ left' = [left EXCEPT !.ops = @ - 1]
    /\ UNCHANGED <<conn, backend, files, live>>

\* JNetIO.close: a file that was not found has nothing to close.
CallClose(c) ==
    /\ Idle(c) /\ cl[c].io.open
    /\ cl' = IF cl[c].io.found THEN [cl EXCEPT ![c].req = [cmd |-> "close"]]
             ELSE [cl EXCEPT ![c].io = NoIo]
    /\ UNCHANGED <<conn, backend, files, live, left>>

\* add_group and unlink_group, which the program calls with a read or a
\* write session on the parent.
CallGroup(c) ==
    /\ Idle(c) /\ left.ops > 0
    /\ \E n \in Names : Append(cl[c].path, n) \in Groups /\
          \/ cl[c].lock # "un" /\ Send(c, [cmd |-> "add_group", name |-> n])
          \/ cl[c].lock = "w" /\ Send(c, [cmd |-> "unlink_group", name |-> n])
    /\ left' = [left EXCEPT !.ops = @ - 1]
    /\ UNCHANGED <<conn, backend, files, live>>
\* ... and unlink_group(None), by clear.
CallUnlinkAll(c) ==
    /\ Idle(c) /\ left.ops > 0 /\ cl[c].lock = "w"
    /\ \E p \in Groups : Front(p) = cl[c].path
    /\ Send(c, [cmd |-> "unlink_all"])
    /\ left' = [left EXCEPT !.ops = @ - 1]
    /\ UNCHANGED <<conn, backend, files, live>>

\* Faulty variant of NextOffset: a write does not move the offset.
NextOffsetNoWrite(io, cmd, ret) ==
    CASE cmd \in {"open", "seek"} -> ret
      [] cmd \in {"read", "readline", "readlines"} -> io.offset + Len(ret)
      [] OTHER -> io.offset

\* The offset that JNetIO keeps after a call that went well.
NextOffset(io, cmd, ret) ==
    CASE cmd \in {"open", "seek"} -> ret
      [] cmd \in {"read", "readline", "readlines"} -> io.offset + Len(ret)
      [] cmd = "write" -> io.offset + ret
      [] OTHER -> io.offset

\* The lock after a reply: a lock call is granted, or fails with BlockingIOError.
LockAfter(c, rep) ==
    IF rep.cmd \notin {"rlock", "wlock", "unlock"} \/ ~rep.ok THEN cl[c].lock
    ELSE CASE rep.cmd = "rlock" -> "r" [] rep.cmd = "wlock" -> "w" [] OTHER -> "un"

\* The JNetIO after a reply: one that found no file is kept, too.
IoAfter(c, rep) ==
    IF rep.cmd \in {"rlock", "wlock", "unlock", "add_group", "unlink_group", "unlink_all"} THEN cl[c].io
    ELSE IF rep.cmd = "close" THEN NoIo
    ELSE IF rep.ok THEN [open |-> TRUE, found |-> TRUE, offset |-> NextOffset(cl[c].io, rep.cmd, rep.ret)]
    ELSE [cl[c].io EXCEPT !.open = TRUE]

\* The reply arrives.
Receive(c) ==
    LET rep == cl[c].rep IN
    /\ cl[c].up /\ rep # NoReq
    /\ cl' = [cl EXCEPT ![c] = [@ EXCEPT !.rep = NoReq, !.lock = LockAfter(c, rep), !.io = IoAfter(c, rep)]]
    /\ UNCHANGED <<conn, backend, files, live, left>>

----------------------------------------------------------------------------
\* The handler of a connection (ServerHandler.handle).

Cmd(c) == cl[c].req.cmd

\* A request is waiting, its group is known and it was not answered yet.
Serving(c, cmds) ==
    /\ conn[c].st = "recv" /\ conn[c].backend # 0 /\ Cmd(c) \in cmds

\* The reply goes out; nobody reads it if the client has gone.
Reply(c, ok, ret) ==
    cl' = [cl EXCEPT ![c].req = NoReq,
                     ![c].rep = IF cl[c].up THEN [cmd |-> Cmd(c), ok |-> ok, ret |-> ret] ELSE NoReq]

\* A request for a group that this connection has not used yet.
Resolve(c) ==
    LET g == GetGroupFiles(cl[c].path) IN
    /\ conn[c].st = "recv" /\ conn[c].backend = 0 /\ cl[c].req # NoReq
    /\ conn' = [conn EXCEPT ![c].backend = g.b, ![c].fresh = TRUE]
    /\ backend' = g.bs
    /\ files' = g.files
    /\ UNCHANGED <<cl, live, left>>

\* rlock and wlock: counted when granted; a blocking request waits.
ServeLock(c) ==
    LET b == conn[c].backend
        can == IF Cmd(c) = "rlock" THEN CanRlock(c, b) ELSE CanWlock(c, b)
    IN
    /\ Serving(c, {"rlock", "wlock"})
    /\ \/ /\ can
          /\ backend' = IF Cmd(c) = "rlock" THEN Rlocked(b) ELSE Wlocked(c, b)
          /\ conn' = [conn EXCEPT ![c].lockers = @ + 1]
          /\ Reply(c, TRUE, 0)
       \/ /\ ~can /\ ~cl[c].req.block
          /\ Reply(c, FALSE, 0)
          /\ UNCHANGED <<conn, backend>>
    /\ UNCHANGED <<files, live, left>>

ServeUnlock(c) ==
    /\ Serving(c, {"unlock"})
    /\ backend' = Unlocked(c, conn[c].backend)
    /\ conn' = [conn EXCEPT ![c].lockers = @ - 1]
    /\ Reply(c, TRUE, 0)
    /\ UNCHANGED <<files, live, left>>

\* The file with what a file object has not written out yet.
Flushed(key, fp) == IF fp.dirty = << >> THEN key ELSE Write([buf |-> key, idx |-> fp.dirty[1]], fp.dirty[2]).f.buf

\* KEY open: the file must not be empty to be opened for reading, and the
\* reply carries the position.
ServeOpen(c) ==
    LET b == conn[c].backend
        found == backend[b].key # << >> \/ cl[c].req.mode = "wb+"
    IN
    /\ Serving(c, {"open"})
    /\ conn' = [conn EXCEPT ![c].fp = IF found THEN [open |-> TRUE, idx |-> 0, dirty |-> << >>] ELSE @]
    /\ Reply(c, found, 0)
    /\ UNCHANGED <<backend, files, live, left>>

\* What the file object answers to a request.
Execute(f, req) ==
    CASE req.cmd = "read" -> Read(f, req.n)
      [] req.cmd = "readline" -> ReadLine(f, req.n)
      [] req.cmd = "readlines" -> ReadLines(f, req.n)
      [] req.cmd = "seek" -> Seek(f, req.n, req.whence)
      [] req.cmd = "truncate" -> Truncate(f, req.n)
      [] req.cmd = "write" -> Write(f, req.b)
      [] OTHER -> Tell(f)

\* The other requests for the KEY file.  A disk file may keep a write back.
ServeFile(c) ==
    LET b == conn[c].backend
        fp == conn[c].fp
        r == Execute([buf |-> Flushed(backend[b].key, fp), idx |-> fp.idx], cl[c].req)
    IN
    /\ Serving(c, {"read", "readline", "readlines", "seek", "truncate", "write", "flush"})
    /\ fp.open
    /\ \E keep \in IF Buffered /\ Cmd(c) = "write" THEN BOOLEAN ELSE {FALSE} :
          /\ backend' = [backend EXCEPT ![b].key = IF keep THEN Flushed(@, fp) ELSE r.f.buf]
          /\ conn' = [conn EXCEPT ![c].fp.idx = r.f.idx,
                                  ![c].fp.dirty = IF keep THEN <<fp.idx, cl[c].req.b>> ELSE << >>]
    /\ Reply(c, r.ok, r.ret)
    /\ UNCHANGED <<files, live, left>>

ServeClose(c) ==
    LET b == conn[c].backend IN
    /\ Serving(c, {"close"})
    /\ backend' = [backend EXCEPT ![b].key = Flushed(@, conn[c].fp)]
    /\ conn' = [conn EXCEPT ![c].fp = NoFp]
    /\ Reply(c, TRUE, 0)
    /\ UNCHANGED <<files, live, left>>

\* Connections to a path that is taken off no longer need to agree.
Stale(p) == [d \in Clients |-> IF cl[d].path = p THEN [conn[d] EXCEPT !.fresh = FALSE] ELSE conn[d]]

\* add_group and unlink_group, first the group_table of the backend ...
ServeGroup(c) ==
    LET b == conn[c].backend
        p == Append(cl[c].path, cl[c].req.name)
        g == WithGroup(backend, b, cl[c].req.name)
    IN
    /\ Serving(c, {"add_group", "unlink_group"})
    /\ IF Cmd(c) = "add_group"
       THEN /\ backend' = g.bs
            /\ conn' = [conn EXCEPT ![c].st = "group"]
       ELSE /\ backend' = [backend EXCEPT ![b].groups[cl[c].req.name] = 0]
            /\ conn' = [Stale(p) EXCEPT ![c].st = "group"]
    /\ UNCHANGED <<cl, files, live, left>>

\* ... and then, under group_lock, the cache of the server.
ServeGroupFiles(c) ==
    LET p == Append(cl[c].path, cl[c].req.name)
        g == WithGroup(backend, conn[c].backend, cl[c].req.name)
    IN
    /\ conn[c].st = "group" /\ Cmd(c) \in {"add_group", "unlink_group"}
    /\ files' = [files EXCEPT ![p] = IF Cmd(c) = "add_group" THEN g.b ELSE 0]
    /\ conn' = [IF Cmd(c) = "add_group" THEN conn ELSE Stale(p) EXCEPT ![c].st = "recv"]
    /\ Reply(c, TRUE, 0)
    /\ UNCHANGED <<backend, live, left>>

\* unlink_group(None): the whole table, and every path below this one.
ServeUnlinkAll(c) ==
    LET b == conn[c].backend
        below == {p \in Groups : IsStrictPrefix(cl[c].path, p)}
        stale == [d \in Clients |-> IF cl[d].path \in below THEN [conn[d] EXCEPT !.fresh = FALSE] ELSE conn[d]]
    IN
    \/ /\ Serving(c, {"unlink_all"})
       /\ backend' = [backend EXCEPT ![b].groups = [n \in Names |-> 0]]
       /\ conn' = [stale EXCEPT ![c].st = "group"]
       /\ UNCHANGED <<cl, files, live, left>>
    \/ /\ conn[c].st = "group" /\ Cmd(c) = "unlink_all"
       /\ files' = [p \in Groups |-> IF p \in below THEN 0 ELSE files[p]]
       /\ conn' = [stale EXCEPT ![c].st = "recv"]
       /\ Reply(c, TRUE, 0)
       /\ UNCHANGED <<backend, live, left>>

\* Faulty variant of EndLocks: the locks are forgotten with the connection.
EndLocksForgotten(c) ==
    /\ conn[c].st = "recv" /\ ~cl[c].up /\ cl[c].req = NoReq
    /\ conn' = [conn EXCEPT ![c].lockers = 0, ![c].st = "ending"]
    /\ UNCHANGED <<cl, backend, files, live, left>>

\* Faulty variant of EndLocks: the handler waits for the client to unlock.
EndLocksIfNone(c) ==
    /\ conn[c].st = "recv" /\ ~cl[c].up /\ cl[c].req = NoReq /\ conn[c].lockers = 0
    /\ conn' = [conn EXCEPT ![c].st = "ending"]
    /\ UNCHANGED <<cl, backend, files, live, left>>

\* The end of a handler whose client has gone: locks first, ...
EndLocks(c) ==
    /\ conn[c].st = "recv" /\ ~cl[c].up /\ cl[c].req = NoReq
    /\ backend' = IF conn[c].lockers > 0 THEN Unlocked(c, conn[c].backend) ELSE backend
    /\ conn' = [conn EXCEPT ![c].lockers = 0, ![c].st = "ending"]
    /\ UNCHANGED <<cl, files, live, left>>

\* ... then the files, which writes out what they kept.
EndFiles(c) ==
    LET b == conn[c].backend IN
    /\ conn[c].st = "ending"
    /\ backend' = IF b = 0 THEN backend ELSE [backend EXCEPT ![b].key = Flushed(@, conn[c].fp)]
    /\ conn' = [conn EXCEPT ![c] = [@ EXCEPT !.st = "done", !.fp = NoFp, !.backend = 0, !.fresh = FALSE]]
    /\ UNCHANGED <<cl, files, live, left>>

\* A group opened on the server itself, by its JDb: add_group of the backend,
\* in the registry that the handlers look at.  The JDb is in a session, so that
\* no client has the root locked for writing.
ServerGroup(n) ==
    LET g == WithGroup(backend, Root, n) IN
    /\ <<n>> \in Groups /\ live[<<n>>] = 0 /\ left.ops > 0
    /\ backend[Root].writer = Nobody
    /\ backend' = g.bs
    /\ live' = [live EXCEPT ![<<n>>] = g.b]
    /\ left' = [left EXCEPT !.ops = @ - 1]
    /\ UNCHANGED <<cl, conn, files>>

Handler(c) ==
    \/ Resolve(c) \/ ServeLock(c) \/ ServeUnlock(c) \/ ServeOpen(c) \/ ServeFile(c) \/ ServeClose(c)
    \/ ServeGroup(c) \/ ServeGroupFiles(c) \/ ServeUnlinkAll(c) \/ EndLocks(c) \/ EndFiles(c)

Next ==
    \/ \E c \in Clients :
          \/ \E p \in Paths : Connect(c, p)
          \/ Disconnect(c) \/ CallLock(c) \/ CallUnlock(c) \/ CallFile(c) \/ CallClose(c)
          \/ CallGroup(c) \/ CallUnlinkAll(c) \/ Receive(c) \/ Handler(c)
    \/ \E n \in Names : ServerGroup(n)

Spec == Init /\ [][Next]_vars

FairSpec ==
    /\ Spec
    /\ \A c \in Clients :
          WF_vars(Handler(c)) /\ WF_vars(Receive(c)) /\ WF_vars(CallUnlock(c)) /\ WF_vars(CallClose(c))

----------------------------------------------------------------------------
\* Type invariant: a connection holds one lock at most, a backend has no more
\* readers than there are clients, and one writer.
TypeOK ==
    /\ \A c \in Clients :
          /\ cl[c].path \in Paths /\ cl[c].lock \in {"un", "r", "w"}
          /\ cl[c].io.offset \in Nat
          /\ conn[c].st \in {"recv", "group", "ending", "done"}
          /\ conn[c].backend \in 0..Len(backend) /\ conn[c].lockers \in 0..1 /\ conn[c].fp.idx \in Nat
    /\ \A b \in DOMAIN backend : backend[b].readers \in 0..Cardinality(Clients) /\ backend[b].wcnt \in 0..1
    /\ \A p \in Groups : files[p] \in 0..Len(backend) /\ live[p] \in 0..Len(backend)

\* The lock counters of a backend are those of the connections that are
\* served: what a client took before it went away, also while its request
\* was waiting, is given back once and not twice.
LocksCounted ==
    \A b \in DOMAIN backend :
        LET holders == {c \in Clients : conn[c].backend = b /\ conn[c].lockers > 0}
        IN  /\ backend[b].readers = Cardinality(holders \ {backend[b].writer})
            /\ backend[b].writer = Nobody \/ backend[b].writer \in holders

\* The client has a lock and has not asked to give it back.
Holds(c, modes) ==
    /\ cl[c].up /\ cl[c].lock \in modes
    /\ cl[c].req.cmd # "unlock" /\ cl[c].rep.cmd # "unlock"

\* Clients that work on the same group, since it was last unlinked, exclude
\* each other: they have been given the same backend, and its lock.
RemoteExclusion ==
    \A c, d \in Clients :
        c # d /\ cl[c].path = cl[d].path /\ conn[c].fresh /\ conn[d].fresh /\ Holds(c, {"w"}) => ~Holds(d, {"r", "w"})

\* JNetIO answers tell and some calls of seek from an offset of its own;
\* between calls that is the position of the file object on the server.
OffsetInStep ==
    \A c \in Clients : Idle(c) /\ cl[c].io.found => conn[c].fp.open /\ cl[c].io.offset = conn[c].fp.idx

\* The KEY file of a backend changes only while one connection has it locked
\* for writing and no other has a lock.
WritesExclusive ==
    [][\A b \in DOMAIN backend : backend'[b].key # backend[b].key =>
            backend[b].writer # Nobody /\ backend[b].readers = 0]_vars

\* A client that goes away, at whatever moment, does not keep its handler:
\* the handler ends and has given back locks and files.
HandlerEnds == \A c \in Clients : ~cl[c].up ~> conn[c].st = "done"
=============================================================================
