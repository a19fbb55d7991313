------------------------------ MODULE Mem0Ops ------------------------------
(***************************************************************************)
(* What each method of Mem0Backend (memory/mem0_backend.py) does to the    *)
(* backend's health record, as functions of what the mem0 library answered.*)
(* The library itself is external: its answers are the arguments.  Both    *)
(* the in-process backend (Mem0Backend) and the one inside the worker      *)
(* process (Mem0Subprocess) are built from these operators.                *)
(***************************************************************************)
EXTENDS BackendHealth

\* __init__ catches every failure of Memory.from_config; the message goes to
\* error_message only, last_error stays None.
Mem0Init(opened) == IF opened THEN [FreshHealth EXCEPT !.healthy = TRUE]
                              ELSE [FreshHealth EXCEPT !.error_message = TRUE]

\* Mutant: the -1 sentinel the count used to be.
CountedSentinel(h, n, known) ==
    IF known THEN [h EXCEPT !.n_memories = n]
             ELSE [h EXCEPT !.n_memories = -1, !.last_error = TRUE]

(***************************************************************************)
(* _safe_count_memories with the assignment its callers make of the        *)
(* result: n is the number of memories mem0 holds, known says whether      *)
(* get_all answered.  When it did not, 0 is returned, and 0 >= 0.          *)
(***************************************************************************)
Counted(h, n, known) ==
    IF known THEN [h EXCEPT !.n_memories = n]
             ELSE [h EXCEPT !.n_memories = 0, !.last_error = TRUE]

\* Mutant: the early return records the operation and not the error.
AddUnavailableQuietly(h) == RecordOp(h, "add", FALSE)

AddUnavailable(h) == RecordOp(h, "add", TRUE)
AddNoMessages(h)  == RecordOp(h, "add", FALSE)
AddRaises(h)      == RecordError(RecordOp(h, "add", TRUE), FALSE)

\* mem0 answered in a shape add cannot read: the call is counted, and counted
\* again by the except clause.
AddMalformed(h) == AddRaises(RecordOp(h, "add", FALSE))

\* Zero ids on substantive input while mem0's logger complained.
AddSilentlyFails(h) == RecordError(RecordOp(h, "add", FALSE), TRUE)

AddSucceeds(h, n, known) == Counted(RecordOp(h, "add", FALSE), n, known)

SearchUnavailable(h) == RecordOp(h, "search", TRUE)
SearchSucceeds(h)    == RecordOp(h, "search", FALSE)
SearchRaises(h)      == RecordError(RecordOp(h, "search", TRUE), FALSE)

\* The same for search, say of a hit whose score is None.
SearchMalformed(h) == SearchRaises(RecordOp(h, "search", FALSE))

Inspected(h, n, known) == IF h.healthy THEN Counted(h, n, known) ELSE h

\* clear: a failure of delete_all is swallowed and changes nothing.
Cleared(h, deleted) ==
    IF h.healthy /\ deleted THEN [h EXCEPT !.n_memories = 0] ELSE h

=============================================================================
