------------------------------ MODULE ByteFile ------------------------------
(***************************************************************************)
(* JBytesIO (jdb_file.py): a file kept in a byte array.  A file object is  *)
(* f = [buf, idx], the shared array and the position of this object; each  *)
(* operation gives [f, ret, ok].  A byte is 0, 1 or 2: 0 fills gaps and 1  *)
(* ends a line.                                                            *)
(***************************************************************************)
EXTENDS Integers, Sequences

Byte == 0..2
EndOfLine == 1

Done(f, idx, ret) == [f |-> [f EXCEPT !.idx = idx], ret |-> ret, ok |-> TRUE]
Failed(f) == [f |-> f, ret |-> << >>, ok |-> FALSE]

\* The last position that a read of the given size may reach.
ReadEnd(f, size) == IF size < 0 \/ f.idx + size > Len(f.buf) THEN Len(f.buf) ELSE f.idx + size

\* read; readall is read(-1) and readinto reads the length of its buffer.
Read(f, size) ==
    LET stop == ReadEnd(f, size)
    IN  IF stop <= f.idx THEN Done(f, f.idx, << >>)
        ELSE Done(f, stop, SubSeq(f.buf, f.idx + 1, stop))

\* readline.
ReadLine(f, size) ==
    LET stop == ReadEnd(f, size)
        ends == {i \in (f.idx + 1)..stop : f.buf[i] = EndOfLine}
        next == IF ends = {} THEN stop ELSE CHOOSE i \in ends : \A j \in ends : i <= j
    IN  IF f.idx >= Len(f.buf) THEN Done(f, f.idx, << >>)
        ELSE Done(f, next, SubSeq(f.buf, f.idx + 1, next))

\* readlines: whole lines until one takes the total above hint; hint <= 0
\* stands for no hint.  ret is the lines put together.
ReadLines(f, hint) ==
    LET last == Len(f.buf)
        ends == {i \in (f.idx + 1)..last : i = last \/ (f.buf[i] = EndOfLine /\ hint > 0 /\ i - f.idx > hint)}
        next == CHOOSE i \in ends : \A j \in ends : i <= j
    IN  IF f.idx >= last THEN Done(f, f.idx, << >>)
        ELSE Done(f, next, SubSeq(f.buf, f.idx + 1, next))

\* Faulty variant of Seek: a position before the start is taken.
SeekUnchecked(f, offset, whence) ==
    LET next == offset + <<0, f.idx, Len(f.buf)>>[whence + 1]
    IN  Done(f, next, next)

\* seek; whence is 0, 1 or 2.
Seek(f, offset, whence) ==
    LET next == offset + <<0, f.idx, Len(f.buf)>>[whence + 1]
    IN  IF next < 0 THEN Failed(f) ELSE Done(f, next, next)

Tell(f) == Done(f, f.idx, f.idx)

\* truncate: cuts, and never extends; the position stays.
Truncate(f, size) ==
    IF size < 0 THEN Failed(f)
    ELSE Done([f EXCEPT !.buf = SubSeq(@, 1, IF size < Len(@) THEN size ELSE Len(@))], f.idx, size)

\* write: a gap behind the end is filled with zeroes.
Write(f, b) ==
    LET gap == [i \in 1..(IF f.idx > Len(f.buf) THEN f.idx - Len(f.buf) ELSE 0) |-> 0]
        old == f.buf \o gap
    IN  IF b = << >> THEN Done(f, f.idx, 0)
        ELSE Done([f EXCEPT !.buf = SubSeq(old, 1, f.idx) \o b \o SubSeq(old, f.idx + Len(b) + 1, Len(old))],
                  f.idx + Len(b), Len(b))
=============================================================================
