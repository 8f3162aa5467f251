---------------------------- MODULE MessageBroker ----------------------------
(***************************************************************************)
(* What src/message_broker.ts promises of every broker: publish() resolves *)
(* only when the message was handed over, and a message is handed over     *)
(* only before its promise settles, through a connection that is there.    *)
(* Whether that happens at most once depends on the broker.  A step may    *)
(* move any number of messages, as losing a connection does.               *)
(*                                                                         *)
(* A rejection does not say that the message was not handed over.          *)
(***************************************************************************)
EXTENDS Naturals

CONSTANT Messages

VARIABLES
  promise,  \* promise[m]: what publish() returned for m
  copies,   \* copies[m]: how often m was handed over, 2 for any more
  link,     \* the connection to the broker
  repeats   \* whether the broker may hand a message over again

Init ==
  /\ promise = [m \in Messages |-> "none"]
  /\ copies = [m \in Messages |-> 0]
  /\ link = "open"
  /\ repeats \in BOOLEAN

Publish(m) == promise[m] = "none" /\ promise'[m] \in {"pending", "rejected"}

Reject(m) == promise[m] = "pending" /\ promise'[m] = "rejected"

Resolve(m) ==
  promise[m] = "pending" /\ promise'[m] = "resolved" /\ copies[m] > 0

\* Whether or not its promise is being rejected in the same step.
HandOver(m) ==
  /\ link = "open"
  /\ promise[m] = "pending"
  /\ copies[m] = 0 \/ repeats
  /\ copies'[m] = IF copies[m] = 0 THEN 1 ELSE 2
  /\ promise'[m] \in {"pending", "rejected"}

Moves(m) ==
  \/ /\ Publish(m) \/ Reject(m) \/ Resolve(m) \/ promise'[m] = promise[m]
     /\ copies'[m] = copies[m]
  \/ HandOver(m)

Next ==
  /\ promise' \in [Messages -> {"none", "pending", "resolved", "rejected"}]
  /\ copies' \in [Messages -> 0..2]
  /\ link' \in {link, "closed"}
  /\ UNCHANGED repeats
  /\ \A m \in Messages : Moves(m)

Spec == Init /\ [][Next]_<<promise, copies, link, repeats>>
=============================================================================
