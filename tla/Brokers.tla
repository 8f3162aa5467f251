------------------------------- MODULE Brokers -------------------------------
(***************************************************************************)
(* A broker as createBroker() of src/factories.ts makes one, AmqpBroker or *)
(* RedisBroker by the scheme of the URI, and what both have to keep.       *)
(***************************************************************************)
EXTENDS Naturals, Sequences, FiniteSets

CONSTANTS Publishes, Channels, Refused, End, None

ASSUME BrokersAssumption ==
  /\ Refused \subseteq Publishes
  /\ End \notin Publishes
  /\ None \notin Publishes \union Channels

VARIABLES
  class,  \* which class was chosen
  unused, inUse, resourceCount, waiting, call, leased, created, destroyed,
  closer, broken,  \* of AmqpBroker
  line,            \* of RedisBroker
  connection, pc, copies, endpc, owed  \* of either

Amqp  == INSTANCE AmqpBroker
Redis == INSTANCE RedisBroker

amqpOnly == <<unused, inUse, resourceCount, waiting, call, leased, created,
              destroyed, closer, broken>>
vars == <<class, amqpOnly, line, connection, pc, copies, endpc, owed>>

Settled == {"resolved", "rejected"}

TypeOK ==
  /\ class \in {"amqp", "redis"}
  /\ Amqp!Pool!TypeOK
  /\ broken \in SUBSET created
  /\ line \in Seq(Publishes \union {End})
  /\ connection \in Amqp!Connections
  /\ pc \in [Publishes -> {"idle", "called", "sent", "executed"}
                           \union Amqp!Working \union Settled]
  /\ copies \in [Publishes -> 0..2]
  /\ endpc \in {"idle", "quitting", "destroying", "closing", "ended",
                "failed"}
  /\ owed \in SUBSET Publishes

Init ==
  \/ class = "amqp" /\ Amqp!Init /\ line = <<>>
  \/ class = "redis" /\ Redis!Init /\ Amqp!Pool!Init /\ broken = {}

Next ==
  \/ class = "amqp" /\ Amqp!Next /\ UNCHANGED <<class, line>>
  \/ class = "redis" /\ Redis!Next /\ UNCHANGED <<class, amqpOnly>>

Spec == Init /\ [][Next]_vars

FairSpec == /\ Spec
            /\ class = "amqp" => Amqp!Fairness
            /\ class = "redis" => Redis!Fairness
-----------------------------------------------------------------------------
Promise(label) ==
  CASE label = "idle" -> "none" [] label \in Settled -> label
    [] OTHER -> "pending"

\* No interleaving of full buffers, refused queues, lost connections and end()
\* resolves a publish() whose message was not handed over, or hands one over
\* after its publish() has settled or on a connection that is gone; and Redis
\* takes each message once at most.
Broker == INSTANCE MessageBroker WITH
  Messages <- Publishes,
  promise  <- [o \in Publishes |-> Promise(pc[o])],
  link     <- IF connection \in {"connecting", "open"} THEN "open"
                                                       ELSE "closed",
  repeats  <- class = "amqp"

MessageBrokerSpec == Broker!Spec

\* publish() "recursively calls itself after a "drain" event is emitted until
\* the write is performed" (src/amqp/broker.ts, lines 190-192): a message is
\* written once, however often it is tried.
WrittenOnce == \A o \in Publishes : copies[o] < 2

\* "Gently disconnects": when end() has closed the connection every publish()
\* in flight has been answered, with a rejection only if the server had closed
\* a channel.  In flight is, for Redis, whatever was called before end(); for
\* RabbitMQ only what had its channel, as destroyAll() does not see the others.
EndIsGentle ==
  connection = "closed" =>
    \A o \in owed : \/ pc[o] \in {"resolved", "executed"}
                    \/ pc[o] = "rejected" /\ broken # {}

\* A publish() called before end() has destroyed the channels is settled, also
\* when its connection is lost, its queue refused or its channel closed under
\* it, unless a channel could not be opened or a write waits for a "drain" on
\* a connection that is gone; and end() comes to an end, one way or another, if
\* no write is left waiting.
PublishAndEndSettle ==
  []~Amqp!Stranded =>
    /\ endpc # "idle" ~> endpc \in {"ended", "failed"}
    /\ []~Amqp!Leaked =>
         \A o \in Publishes :
           pc[o] \notin {"idle"} \union Settled /\ destroyed = {}
             ~> pc[o] \in Settled
=============================================================================
