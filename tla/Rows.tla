-------------------------------- MODULE Rows --------------------------------
(***************************************************************************)
(* How a database session writes an object back: the UPDATE it flushes     *)
(* names the columns that differ from what the session has read, and       *)
(* leaves the others as they are in the table by then.                     *)
(***************************************************************************)

(* The row after a session that read the object as read writes it as write. *)
Written(row, read, write) ==
    [c \in DOMAIN row |-> IF write[c] = read[c] THEN row[c] ELSE write[c]]
=============================================================================
