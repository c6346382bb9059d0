--------------------------- MODULE RollbackSession ---------------------------
(***************************************************************************)
(* RollbackSession (utils/models/session.py): what the commit of a put     *)
(* leaves in the row of its key.  found is the row session.merge has       *)
(* SELECTed, old the row as it is when the commit comes, new the values of *)
(* the put.  Rows are functions from columns; the key is not among them.   *)
(***************************************************************************)
CONSTANT NoRow   \* there is no row with the key

\* The merge found no row: an INSERT.  It gives way to a row that another
\* process has committed meanwhile: IntegrityError, rolled back and swallowed.
Inserted(old, new) == IF old = NoRow THEN new ELSE old

\* It found one: an UPDATE of the columns in which the put differs from the
\* row it found, whatever the others hold by now; no statement if it differs
\* in none.
Updated(found, old, new) ==
  [col \in DOMAIN new |-> IF new[col] # found[col] THEN new[col] ELSE old[col]]

Committed(found, old, new) ==
  IF found = NoRow THEN Inserted(old, new) ELSE Updated(found, old, new)
=============================================================================
