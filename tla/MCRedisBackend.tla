--------------------------- MODULE MCRedisBackend ---------------------------
(* Small instances of RedisBackend: the calls each run makes. *)
EXTENDS RedisBackend, TLC

CONSTANTS t1, t2, t3

Call(id, kind, task) ==
  [id |-> id, kind |-> kind, task |-> task, hasTimeout |-> FALSE]

get1  == Call(1, "get", t1)
get1b == Call(2, "get", t1)
put1  == Call(3, "put", t1)
delete1  == Call(4, "delete", t1)
getFor1  == [Call(5, "get", t1) EXCEPT !.hasTimeout = TRUE]
getFor2  == [Call(6, "get", t2) EXCEPT !.hasTimeout = TRUE]
retry1   == [Call(7, "get", t1) EXCEPT !.hasTimeout = TRUE]
get3     == Call(8, "get", t3)

AllCalls == {get1, get1b, put1, delete1, getFor1, getFor2, retry1, get3}

Program(calls, early, workers, end, heard) ==
  [calls |-> calls, early |-> early, workers |-> workers, end |-> end,
   heard |-> heard]

\* The working connection passes from one call to the others, and to end(); a
\* get() comes again after its timeout; two tasks share the connections, the
\* promises and the socket; calls do not wait for the subscription; the id of
\* a task is not a UUID.  A call that waits for a worker is not made before the
\* subscription is in place: see EarlyGet.
SmallPrograms ==
  {Program({get1, get1b, put1}, FALSE, {t1}, FALSE, TRUE),
   Program({getFor1, delete1}, FALSE, {}, TRUE, FALSE),
   Program({getFor1, delete1}, FALSE, {t1}, FALSE, FALSE),
   Program({getFor1}, FALSE, {t1}, TRUE, FALSE),
   Program({getFor1, retry1}, FALSE, {}, TRUE, FALSE),
   Program({get1, getFor2}, FALSE, {t1}, FALSE, FALSE),
   Program({getFor2}, TRUE, {t2}, TRUE, FALSE),
   Program({put1, delete1}, TRUE, {}, TRUE, TRUE),
   Program({get1, get3}, FALSE, {t3}, FALSE, FALSE)}

\* A get() that does not wait for the subscription.
EarlyGet == {Program({get1}, TRUE, {t1}, FALSE, FALSE)}
=============================================================================
