---------------------------- MODULE KernelTable -----------------------------
(***************************************************************************)
(* What LibEntry promises its callers, whatever the number of threads: a   *)
(* table whose cells are written at most once.  A request names a cell; it *)
(* is answered by the value the cell holds, and the first request of a     *)
(* cell is the one that fills it.  A request may also fail, and then       *)
(* leaves the table as it found it.                                        *)
(***************************************************************************)
CONSTANTS
  Requests,  \* request slots: activations of the implementation
  Cells,     \* what can be asked for
  Values,    \* what a cell can hold
  Nothing    \* an empty cell, no request, no answer

VARIABLES
  table,     \* table[c]: the value of cell c, or Nothing
  asked,     \* asked[r]: the cell request r is about, or Nothing
  answer     \* answer[r]: the value request r was answered with, or Nothing

vars == <<table, asked, answer>>

Init ==
  /\ table = [c \in Cells |-> Nothing]
  /\ asked = [r \in Requests |-> Nothing]
  /\ answer = [r \in Requests |-> Nothing]

Ask(r, c) ==
  /\ asked[r] = Nothing
  /\ asked' = [asked EXCEPT ![r] = c]
  /\ UNCHANGED <<table, answer>>

\* The cell is empty: this request fills it and is answered by it.
Fill(r, v) ==
  /\ asked[r] # Nothing /\ answer[r] = Nothing
  /\ table[asked[r]] = Nothing
  /\ table' = [table EXCEPT ![asked[r]] = v]
  /\ answer' = [answer EXCEPT ![r] = v]
  /\ UNCHANGED asked

\* The cell is filled: the request is answered by what it holds.
Look(r) ==
  /\ asked[r] # Nothing /\ answer[r] = Nothing
  /\ table[asked[r]] # Nothing
  /\ answer' = [answer EXCEPT ![r] = table[asked[r]]]
  /\ UNCHANGED <<table, asked>>

\* The request is over, answered or failed.
Close(r) ==
  /\ asked[r] # Nothing
  /\ asked' = [asked EXCEPT ![r] = Nothing]
  /\ answer' = [answer EXCEPT ![r] = Nothing]
  /\ UNCHANGED table

Next ==
  \E r \in Requests :
    \/ \E c \in Cells : Ask(r, c)
    \/ \E v \in Values : Fill(r, v)
    \/ Look(r)
    \/ Close(r)

Spec == Init /\ [][Next]_vars
=============================================================================
