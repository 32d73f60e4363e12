---------------------------- MODULE KeyStoreUndo ----------------------------
(***************************************************************************)
(* What undo can still reach: KeyStore with history variables that         *)
(* remember what a key held when the session was opened and what it ever   *)
(* held.                                                                   *)
(***************************************************************************)
EXTENDS KeyStore

CONSTANT
  Again   \* a key deleted in a session may be added again in that session

ASSUME AgainAssumption == Again \in BOOLEAN

VARIABLES
  start,   \* the value of each key when the session was opened
  had      \* the values each key ever had, as pairs

uvars == <<vars, start, had>>

UInit ==
  /\ Init
  /\ start = [k \in Keys |-> NoVal]
  /\ had = {}

UNext ==
  /\ Next
  /\ start' = IF open' /\ ~open THEN [k \in Keys |-> Value(k)] ELSE start
  /\ had' = had \cup {<<k, Value(k)'>> : k \in {l \in Keys : Exists(l)'}}
  /\ Again \/ \A k \in chg_keys : Exists(k) \/ ~Exists(k)'

USpec == UInit /\ [][UNext]_uvars

-----------------------------------------------------------------------------
(* Properties *)

\* In a session whose writes and deletes carry REVERT, what a key held when the
\* session was opened is there until the session is closed: it is still the
\* value of the key, or it is parked in a row of the SAFE region, which no
\* write of this session may take back.
StartKept ==
  open => \A k \in Keys :
    \/ start[k] \in {NoVal, Value(k)}
    \/ \E r \in Parked(k, SafeLine) : Decode(index.rows[r]) = start[k]

\* Every version that history, revert or unremove can find decodes to a value
\* that its key really had: the space of a parked version is never written to
\* while its row is there, and a row that is moved keeps its key.
VersionsGenuine == Versions \subseteq had
=============================================================================
