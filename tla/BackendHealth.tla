--------------------------- MODULE BackendHealth ---------------------------
(***************************************************************************)
(* The health record every memory backend carries (memory/base.py) and the *)
(* two helpers all of them report through.  The text of an error is not    *)
(* modelled, only whether a field holds one: error_message and last_error  *)
(* are TRUE when the Python attribute is not None.  Latencies and time     *)
(* stamps are left out; nothing branches on them.                          *)
(***************************************************************************)
EXTENDS Integers

Health == [healthy: BOOLEAN, error_message: BOOLEAN, last_error: BOOLEAN,
           n_memories: Nat, n_searches: Nat, n_adds: Nat, n_errors: Nat,
           n_silent_extraction_failures: Nat]

\* MemoryBackend.__init__: unhealthy until the subclass says otherwise.
FreshHealth ==
    [healthy |-> FALSE, error_message |-> FALSE, last_error |-> FALSE,
     n_memories |-> 0, n_searches |-> 0, n_adds |-> 0, n_errors |-> 0,
     n_silent_extraction_failures |-> 0]

\* Mutant: the helper as it was before the health flag was added to it.
RecordErrorStaysHealthy(h, silent) ==
    [h EXCEPT !.n_errors = @ + 1, !.last_error = TRUE, !.error_message = TRUE,
              !.n_silent_extraction_failures = IF silent THEN @ + 1 ELSE @]

RecordError(h, silent) ==
    [h EXCEPT !.n_errors = @ + 1,
              !.last_error = TRUE,
              !.error_message = TRUE,
              !.n_silent_extraction_failures = IF silent THEN @ + 1 ELSE @,
              !.healthy = FALSE]

RecordOp(h, kind, error) ==
    [h EXCEPT !.n_searches = IF kind = "search" THEN @ + 1 ELSE @,
              !.n_adds = IF kind = "add" THEN @ + 1 ELSE @,
              !.n_errors = IF error THEN @ + 1 ELSE @]

=============================================================================
