------------------------------ MODULE RowStore ------------------------------
(***************************************************************************)
(* What PersistantModel (utils/models/model.py) promises a tuner: tables   *)
(* of rows that simply exist.  A get is answered by the row as it was at   *)
(* one moment of the call.  A put looks at the row at one moment of the    *)
(* call and writes at a later one: a whole row if it saw none, unless      *)
(* somebody has made one meanwhile, which then stays; and otherwise the    *)
(* columns in which its value differs from what it saw.  So a put that no  *)
(* other overlaps leaves its value; of puts that overlap, each column is   *)
(* left by one of them or was there before, and the row may be one that    *)
(* nobody put.  A call that raises or dies has left nothing behind.        *)
(* LibTuner is written over this store.                                    *)
(***************************************************************************)
CONSTANTS
  Callers,  \* threads, over all processes
  Names,    \* names of tables
  Keys,     \* keys of rows
  Columns,  \* columns beside the key
  Data,     \* what a column holds
  NoRow,    \* no such row; the value a get passes
  Done,     \* what a put returns
  Raised,   \* the call ended with an exception
  Idle      \* no call, no answer, no look

VARIABLES
  rows,     \* rows[n][k]: the row of table n with key k, or NoRow
  call,     \* call[t]: name, key and value (NoRow: a get), or Idle
  base,     \* base[t]: the row the put of t saw, or Idle before it has looked
  answer    \* answer[t]: how the last call of t ended

vars == <<rows, call, base, answer>>

Values == [Columns -> Data]
Calls == [name : Names, key : Keys, value : Values \cup {NoRow}]

Init ==
  /\ rows = [n \in Names |-> [k \in Keys |-> NoRow]]
  /\ call = [t \in Callers |-> Idle]
  /\ base = [t \in Callers |-> Idle]
  /\ answer = [t \in Callers |-> Idle]

Call(t, c) ==
  /\ call[t] = Idle
  /\ call' = [call EXCEPT ![t] = c]
  /\ answer' = [answer EXCEPT ![t] = Idle]
  /\ UNCHANGED <<rows, base>>

Ends(t, a) ==
  /\ call[t] # Idle
  /\ call' = [call EXCEPT ![t] = Idle]
  /\ base' = [base EXCEPT ![t] = Idle]
  /\ answer' = [answer EXCEPT ![t] = a]

Get(t) ==
  /\ call[t] # Idle
  /\ call[t].value = NoRow
  /\ Ends(t, rows[call[t].name][call[t].key])
  /\ UNCHANGED rows

Look(t) ==
  /\ call[t] # Idle
  /\ call[t].value # NoRow
  /\ base[t] = Idle
  /\ base' = [base EXCEPT ![t] = rows[call[t].name][call[t].key]]
  /\ UNCHANGED <<rows, call, answer>>

\* The row after a put of value over a row that was seen as saw.
Written(row, saw, value) ==
  CASE saw = NoRow /\ row = NoRow -> value
    [] saw = NoRow /\ row # NoRow -> row
    [] OTHER -> [col \in Columns |->
                   IF value[col] = saw[col] THEN row[col] ELSE value[col]]

Put(t) ==
  LET c == call[t] IN
  /\ base[t] # Idle
  /\ Ends(t, Done)
  /\ rows' = [rows EXCEPT ![c.name][c.key] = Written(@, base[t], c.value)]

Raise(t) == Ends(t, Raised) /\ UNCHANGED rows

\* A process dies with all its callers.
Die(ts) ==
  /\ call' = [t \in Callers |-> IF t \in ts THEN Idle ELSE call[t]]
  /\ base' = [t \in Callers |-> IF t \in ts THEN Idle ELSE base[t]]
  /\ answer' = [t \in Callers |-> IF t \in ts THEN Idle ELSE answer[t]]
  /\ UNCHANGED rows

Next ==
  \/ \E t \in Callers :
       \/ \E c \in Calls : Call(t, c)
       \/ Get(t) \/ Look(t) \/ Put(t) \/ Raise(t)
  \/ \E ts \in SUBSET Callers : Die(ts)

Spec == Init /\ [][Next]_vars
=============================================================================
