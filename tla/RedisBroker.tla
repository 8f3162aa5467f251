----------------------------- MODULE RedisBroker -----------------------------
(***************************************************************************)
(* The Redis broker of src/redis/broker.ts: LPUSH on one connection, whose *)
(* commands ioredis sends and the server executes in order, and the two    *)
(* ways to end it.                                                         *)
(***************************************************************************)
EXTENDS Naturals, Sequences

CONSTANTS Publishes, End

VARIABLES
  connection,  \* this.connection
  line,        \* commands sent and not executed: publishes, and End for QUIT
  pc,          \* pc[o]: how far publish() has come
  copies,      \* copies[o]: how often the server has executed its LPUSH
  endpc,       \* how far end() or disconnect() has come
  owed         \* history: publishes made before end() was called

redisVars == <<connection, line, pc, copies, endpc, owed>>

Init ==
  /\ connection = "open"
  /\ line = <<>>
  /\ pc = [o \in Publishes |-> "idle"]
  /\ copies = [o \in Publishes |-> 0]
  /\ endpc = "idle" /\ owed = {}

\* Commands that have no answer when the connection closes are rejected.
Rejected(S) == [o \in Publishes |-> IF o \in S THEN "rejected" ELSE pc[o]]

Sent == {o \in Publishes : pc[o] = "sent"}
-----------------------------------------------------------------------------
Publish(o) ==
  /\ pc[o] = "idle"
  /\ IF connection = "open"
     THEN pc' = [pc EXCEPT ![o] = "sent"] /\ line' = Append(line, o)
     ELSE pc' = [pc EXCEPT ![o] = "rejected"] /\ UNCHANGED line
  /\ UNCHANGED <<connection, copies, endpc, owed>>

\* The server takes the next LPUSH.
Execute(o) ==
  /\ line # <<>> /\ Head(line) = o
  /\ line' = Tail(line)
  /\ pc' = [pc EXCEPT ![o] = "executed"]
  /\ copies' = [copies EXCEPT ![o] = @ + 1]
  /\ UNCHANGED <<connection, endpc, owed>>

Reply(o) ==
  /\ pc[o] = "executed"
  /\ pc' = [pc EXCEPT ![o] = "resolved"]
  /\ UNCHANGED <<connection, line, copies, endpc, owed>>
-----------------------------------------------------------------------------
\* end(): QUIT goes out behind the commands in flight.
EndCall ==
  /\ endpc = "idle"
  /\ endpc' = "quitting"
  /\ owed' = {o \in Publishes : pc[o] \in {"sent", "executed"}}
  /\ line' = Append(line, End)
  /\ UNCHANGED <<connection, pc, copies>>

\* The server closes the connection; what was sent behind QUIT is rejected.
ExecuteQuit ==
  /\ line # <<>> /\ Head(line) = End
  /\ connection' = "closed"
  /\ endpc' = "destroying"
  /\ line' = <<>>
  /\ pc' = Rejected(Sent)
  /\ UNCHANGED <<copies, owed>>

\* The reply to QUIT comes after all others; disconnect() then does nothing.
EndDone ==
  /\ endpc = "destroying"
  /\ \A o \in Publishes : pc[o] # "executed"
  /\ endpc' = "ended"
  /\ UNCHANGED <<connection, line, pc, copies, owed>>

\* disconnect(): the socket closes at once.  The server may still execute some
\* of what it has been sent.
Disconnect ==
  /\ endpc = "idle"
  /\ endpc' = "ended"
  /\ connection' = "closed"
  /\ line' = <<>>
  /\ pc' = Rejected({o \in Publishes : pc[o] \in {"sent", "executed"}})
  /\ \E n \in 0..Len(line) :
       copies' = [o \in Publishes |->
                    copies[o] + IF \E i \in 1..n : line[i] = o THEN 1 ELSE 0]
  /\ UNCHANGED owed
-----------------------------------------------------------------------------
ServerNext == ExecuteQuit \/ EndDone \/ \E o \in Publishes : Execute(o)

Next ==
  \/ EndCall \/ ServerNext \/ Disconnect
  \/ \E o \in Publishes : Publish(o) \/ Reply(o)

(* The server executes what it is sent and the loop handles its replies. *)
Fairness ==
  /\ WF_redisVars(ServerNext)
  /\ \A o \in Publishes : WF_redisVars(Reply(o))
=============================================================================
