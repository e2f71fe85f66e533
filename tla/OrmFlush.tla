------------------------------ MODULE OrmFlush ------------------------------
(***************************************************************************)
(* What a commit of an SQLAlchemy unit of work writes to a row, as the     *)
(* backend uses it everywhere: a handler loads the row, assigns attributes *)
(* of the Python object and commits.  The UPDATE statement carries only    *)
(* the attributes whose new value differs from the value LOADED, each as a *)
(* literal, and its WHERE clause is the primary key alone.  Nothing is     *)
(* compared with the row as it is at commit time.                          *)
(***************************************************************************)

\* `row` is the row at commit time, `loaded` the value the session read
\* earlier and `new` the object after the handler's assignments.
Flush(row, loaded, new) ==
    [f \in DOMAIN row |-> IF new[f] # loaded[f] THEN new[f] ELSE row[f]]
=============================================================================
