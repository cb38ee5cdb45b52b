---------------------------- MODULE QueryCache -----------------------------
(***************************************************************************)
(* One query in the cache of a browser, as @tanstack/react-query 5 keeps   *)
(* it for the hooks of the web client.  A query has at most one fetch in   *)
(* flight; invalidation restarts it, unless the query has no data yet;     *)
(* cancelling it discards its answer; a fetch that fails after its retries *)
(* leaves the data.  The operators take and return the record of a query.  *)
(***************************************************************************)

\* Writer: the requests that may change what the query reads.  data, answer:
\* {} or {value}, read from the table.  The rest are history: missing and
\* late: the requests saved since the data, or the answer, was read; failed:
\* the last fetch was; deaf: the requests whose invalidation came while the
\* first fetch was out.
Cached(Value, Writer) ==
    [data : SUBSET Value, missing : SUBSET Writer, fetch : {"idle", "sent", "answered"},
     answer : SUBSET Value, late : SUBSET Writer, failed : BOOLEAN, deaf : SUBSET Writer]

NoData ==
    [data |-> {}, missing |-> {}, fetch |-> "idle", answer |-> {}, late |-> {},
     failed |-> FALSE, deaf |-> {}]

\* a fetch that is out is forgotten, with its answer
Idle(c) == [c EXCEPT !.fetch = "idle", !.answer = {}, !.late = {}]

Sent(c) == [Idle(c) EXCEPT !.fetch = "sent"]

\* the API has read the value v
Answered(c, v) == [c EXCEPT !.fetch = "answered", !.answer = {v}]

Arrived(c) == [Idle(c) EXCEPT !.data = c.answer, !.missing = c.late, !.failed = FALSE]

\* the fetch and its retries fail: the old data stays
Failed(c) == [Idle(c) EXCEPT !.failed = TRUE]

\* invalidateQueries for request q
Invalidated(c, q) ==
    IF c.fetch # "idle" /\ c.data = {} THEN [c EXCEPT !.deaf = @ \cup {q}] ELSE Sent(c)

\* what q has saved is not in what was read before
Missing(c, q) ==
    [c EXCEPT !.missing = IF c.data = {} THEN {} ELSE @ \cup {q},
              !.late = IF c.fetch = "answered" THEN @ \cup {q} ELSE @]
=============================================================================
