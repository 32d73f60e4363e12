----------------------------- MODULE Dictionary -----------------------------
(***************************************************************************)
(* What the record store promises to its user: a dictionary from keys to   *)
(* values, with earlier versions that undo operations can bring back.      *)
(*                                                                         *)
(* Keeping an earlier version is a best effort (the history docstring of   *)
(* jdb_lite.py): any step may forget some of them.  What is promised is    *)
(* that a step changes the one key it names (two for a rename), that what  *)
(* is read under a key is always a whole value, and that no version shows  *)
(* up that was not there before or displaced by this very step.            *)
(***************************************************************************)
CONSTANTS Keys, Vals, NoVal

VARIABLES
  dict,   \* the value of each key, NoVal for a key that is not there
  past    \* versions that undo may still bring back: pairs of key and value

dvars == <<dict, past>>

Init ==
  /\ dict = [k \in Keys |-> NoVal]
  /\ past = {}

\* The versions left after a step that displaced the value of key k
Forgets(k) ==
  past' \in SUBSET (past \cup ({k} \X ({dict[k]} \ {NoVal})))

Set(k, v) ==
  /\ dict' = [dict EXCEPT ![k] = v]
  /\ Forgets(k)

Delete(k) ==
  /\ dict[k] # NoVal
  /\ dict' = [dict EXCEPT ![k] = NoVal]
  /\ Forgets(k)

\* unremove and unmodify
Undo(k) ==
  /\ \E v \in Vals :
       /\ <<k, v>> \in past
       /\ dict' = [dict EXCEPT ![k] = v]
  /\ Forgets(k)

Rename(k, new) ==
  /\ dict[k] # NoVal
  /\ dict[new] = NoVal
  /\ dict' = [dict EXCEPT ![new] = dict[k], ![k] = NoVal]
  /\ past' = past

Next ==
  \E k \in Keys :
    \/ \E v \in Vals : Set(k, v)
    \/ Delete(k)
    \/ Undo(k)
    \/ \E new \in Keys : Rename(k, new)

Spec == Init /\ [][Next]_dvars
=============================================================================
