----------------------------- MODULE AmqpBroker -----------------------------
(***************************************************************************)
(* The RabbitMQ broker of src/amqp/broker.ts: publish() and end() over a   *)
(* ResourcePool of two channels, on one connection that is made once and   *)
(* never again.                                                            *)
(*                                                                         *)
(* The server closes a channel on which it refuses a queue; the channel    *)
(* goes back to the pool all the same.  A channel is usable while neither  *)
(* this nor the loss of the connection has happened to it.                 *)
(*                                                                         *)
(* A channel keeps what it is given also when its publish() returns false, *)
(* so each turn of the loop of doPublish() sends the message once more.    *)
(***************************************************************************)
EXTENDS Naturals, Sequences, FiniteSets

CONSTANTS
  Publishes,  \* calls of publish(), one message each
  Channels,   \* channels the connection may open
  Refused,    \* publishes whose queue the server refuses
  End,        \* end()'s call of destroyAll()
  None

VARIABLES
  unused, inUse, resourceCount, waiting, call, leased, created, destroyed,
  closer,      \* this.channels
  connection,  \* what became of this.connection
  broken,      \* channels that the server has closed
  pc,          \* pc[o]: how far publish() has come
  copies,      \* copies[o]: how often the message was written, 2 for any more
  endpc,       \* how far end() has come
  owed         \* history: publishes with a channel when end() was called

Pool == INSTANCE ResourcePool WITH
  Callers <- Publishes, Closers <- {End}, Resources <- Channels,
  maxResources <- 2, CreateMayFail <- TRUE

poolVars == <<unused, inUse, resourceCount, waiting, call, leased, created,
              destroyed, closer>>
endVars  == <<endpc, owed>>
amqpVars == <<poolVars, connection, broken, pc, copies, endVars>>

Connections == {"connecting", "open", "failed", "lost", "closed"}
Working     == {"asserting", "ready", "draining", "flushed", "failed"}

Init ==
  /\ Pool!Init
  /\ connection = "connecting"
  /\ broken = {}
  /\ pc = [o \in Publishes |-> "idle"]
  /\ copies = [o \in Publishes |-> 0]
  /\ endpc = "idle" /\ owed = {}

Usable(c) == connection = "open" /\ c \notin broken

To(o, label) == pc' = [pc EXCEPT ![o] = label]

\* The function given to use() goes on from one label to another.
Works(o, from, to) ==
  /\ pc[o] = from
  /\ To(o, to)
  /\ UNCHANGED <<poolVars, connection, endVars>>
-----------------------------------------------------------------------------
(* The constructor's connect(), and the loss of the connection. *)

Connect ==
  /\ connection = "connecting"
  /\ connection' \in {"open", "failed"}
  /\ UNCHANGED <<poolVars, broken, pc, copies, endVars>>

Lose ==
  /\ connection = "open"
  /\ connection' = "lost"
  /\ UNCHANGED <<poolVars, broken, pc, copies, endVars>>
-----------------------------------------------------------------------------
(* publish() *)

Publish(o) ==
  /\ pc[o] = "idle"
  /\ To(o, "called")
  /\ Pool!Get(o)
  /\ UNCHANGED <<connection, broken, copies, endVars>>

\* The pool's create(): await this.connection, then createChannel().
OpenChannel(o) ==
  /\ connection = "open"
  /\ Pool!CreateOk(o)
  /\ UNCHANGED <<connection, broken, pc, copies, endVars>>

ChannelFails(o) ==
  /\ connection \notin {"connecting", "open"}
  /\ Pool!CreateFail(o)
  /\ To(o, "rejected")
  /\ UNCHANGED <<connection, broken, copies, endVars>>

\* use() has its channel and calls its function, which asserts or checks the
\* queue.  amqplib throws at once on a channel that is closed.
Begin(o) ==
  /\ Pool!Resume(o)
  /\ To(o, IF Usable(leased[o]) THEN "asserting" ELSE "failed")
  /\ UNCHANGED <<connection, broken, copies, endVars>>

AssertOk(o) ==
  /\ o \notin Refused /\ Usable(leased[o])
  /\ Works(o, "asserting", "ready")
  /\ UNCHANGED <<broken, copies>>

AssertFails(o) ==
  /\ o \in Refused \/ ~Usable(leased[o])
  /\ Works(o, "asserting", "failed")
  /\ broken' = IF Usable(leased[o]) THEN broken \union {leased[o]} ELSE broken
  /\ UNCHANGED copies

\* doPublish(): one turn of the loop.
Write(o, to) ==
  /\ Usable(leased[o])
  /\ Works(o, "ready", to)
  /\ copies' = [copies EXCEPT ![o] = IF @ = 0 THEN 1 ELSE 2]
  /\ UNCHANGED broken

WriteOk(o)   == Write(o, "flushed")
WriteFull(o) == Write(o, "draining")

WriteThrows(o) ==
  /\ ~Usable(leased[o])
  /\ Works(o, "ready", "failed")
  /\ UNCHANGED <<broken, copies>>

\* The "drain" event.  A channel that is closed emits none.
Drain(o) ==
  /\ Usable(leased[o])
  /\ Works(o, "draining", "ready")
  /\ UNCHANGED <<broken, copies>>

\* Mutant: returnAfter() without its catch().
Finish_OnSuccess(o) ==
  /\ pc[o] = "flushed"
  /\ To(o, "resolved")
  /\ Pool!Return(o)
  /\ UNCHANGED <<connection, broken, copies, endVars>>

\* Mutant: what rejects is caught and not thrown again.
Finish_Swallows(o) ==
  /\ pc[o] \in {"flushed", "failed"}
  /\ To(o, "resolved")
  /\ Pool!Return(o)
  /\ UNCHANGED <<connection, broken, copies, endVars>>

\* returnAfter()
Finish(o) ==
  /\ pc[o] \in {"flushed", "failed"}
  /\ To(o, IF pc[o] = "flushed" THEN "resolved" ELSE "rejected")
  /\ Pool!Return(o)
  /\ UNCHANGED <<connection, broken, copies, endVars>>

PublishNext(o) ==
  \/ OpenChannel(o) \/ ChannelFails(o) \/ Begin(o) \/ AssertOk(o)
  \/ AssertFails(o) \/ WriteOk(o) \/ WriteFull(o) \/ WriteThrows(o)
  \/ Drain(o) \/ Finish(o)
-----------------------------------------------------------------------------
(* end(), and disconnect() which is the same *)

EndCall ==
  /\ endpc = "idle"
  /\ endpc' = "destroying"
  /\ owed' = Pool!Using
  /\ Pool!DestroyAll(End)
  /\ UNCHANGED <<connection, broken, pc, copies>>

EndDestroy ==
  /\ Pool!DestroyResume(End)
  /\ UNCHANGED <<connection, broken, pc, copies, endVars>>

\* channel.close() of a channel that is closed already rejects destroyAll(),
\* and end() with it; so does a connection that was never made.
EndFails ==
  /\ \/ closer[End] = "closing" /\ \E c \in destroyed : ~Usable(c)
     \/ closer[End] = "closed" /\ connection \in {"failed", "lost"}
  /\ endpc = "destroying"
  /\ endpc' = "failed"
  /\ UNCHANGED <<poolVars, connection, broken, pc, copies, owed>>

EndDestroyed ==
  /\ endpc = "destroying"
  /\ \A c \in destroyed : Usable(c)
  /\ Pool!DestroyDone(End)
  /\ UNCHANGED <<connection, broken, pc, copies, endVars>>

\* Mutant: end() does not await destroyAll().
EndClose_AtOnce ==
  /\ endpc = "destroying"
  /\ connection = "open"
  /\ connection' = "closed"
  /\ endpc' = "closing"
  /\ UNCHANGED <<poolVars, broken, pc, copies, owed>>

\* connection.close(), after which every channel is closed.
EndClose ==
  /\ closer[End] = "closed" /\ endpc = "destroying"
  /\ connection = "open"
  /\ connection' = "closed"
  /\ endpc' = "closing"
  /\ UNCHANGED <<poolVars, broken, pc, copies, owed>>

EndDone ==
  /\ endpc = "closing"
  /\ endpc' = "ended"
  /\ UNCHANGED <<poolVars, connection, broken, pc, copies, owed>>

EndNext == EndDestroy \/ EndFails \/ EndDestroyed \/ EndClose \/ EndDone
-----------------------------------------------------------------------------
Next ==
  \/ Connect \/ Lose \/ EndCall \/ EndNext
  \/ \E o \in Publishes : Publish(o) \/ PublishNext(o)

(* What is ready runs, amqplib answers, and a write buffer is not full each *)
(* time that a message is tried.  Nobody has to publish or to call end().   *)
Fairness ==
  /\ WF_amqpVars(Connect) /\ WF_amqpVars(EndNext)
  /\ \A o \in Publishes : /\ WF_amqpVars(PublishNext(o))
                          /\ SF_amqpVars(WriteOk(o))

\* A publish() that waits for a "drain" that will not come keeps its channel.
Stranded == \E o \in Publishes : pc[o] = "draining" /\ ~Usable(leased[o])

\* A create() has failed: the pool counts a channel that there is not.
Leaked ==
  resourceCount > Cardinality(created) + Cardinality(Pool!Creating)
=============================================================================
