---------------------------- MODULE MCRpcBackend ----------------------------
(* Small instances of RpcBackend: which calls meet, and which faults. *)
EXTENDS RpcBackend, TLC

CONSTANTS t1, t2

Call(id, kind, task) == [id |-> id, kind |-> kind, task |-> task]

get1 == Call(1, "get", t1)
get2 == Call(2, "get", t2)
put1 == Call(3, "put", t1)
put2 == Call(4, "put", t2)
delete1 == Call(5, "delete", t1)

AllCalls == {get1, get2, put1, put2, delete1}

Program(calls, workers, end, faults) ==
  [calls |-> calls, workers |-> workers, end |-> end, faults |-> faults]

SmallPrograms ==
  {Program({get1, get2}, {t1}, FALSE, {"cancel"}),
   Program({get1, get2}, {}, TRUE, {}),
   Program({get1, put1}, {t2}, FALSE, {"full"}),
   Program({get1, put1}, {}, FALSE, {"cancel"}),
   Program({get1, delete1}, {t1}, FALSE, {"cancel"}),
   Program({get1}, {t1}, TRUE, {"cancel", "lose"}),
   Program({put1, put2}, {}, TRUE, {}),
   Program({put1}, {}, TRUE, {"connect", "lose", "full"})}
=============================================================================
