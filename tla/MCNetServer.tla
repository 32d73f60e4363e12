---- MODULE MCNetServer ----
EXTENDS NetServer

MCPaths == {<< >>, <<"a">>}
NestedPaths == {<< >>, <<"a">>, <<"a", "a">>}
MCLocks == {[cmd |-> "rlock", block |-> TRUE], [cmd |-> "wlock", block |-> TRUE], [cmd |-> "wlock", block |-> FALSE]}
MCReads == {[cmd |-> "read", n |-> 1], [cmd |-> "readline", n |-> -1], [cmd |-> "readlines", n |-> 1],
            [cmd |-> "seek", n |-> 3, whence |-> 0], [cmd |-> "seek", n |-> -1, whence |-> 1],
            [cmd |-> "seek", n |-> 0, whence |-> 2]}
MCWrites == {[cmd |-> "write", b |-> <<1>>], [cmd |-> "truncate", n |-> 1]}
WlockOnly == {[cmd |-> "wlock", block |-> TRUE]}
====
