---------------------------- MODULE ClientProofs ----------------------------
(***************************************************************************)
(* Proofs about Client, for any clients, tasks and calls: its type         *)
(* invariant, that all brokers together hand a message over once at most,  *)
(* that the choices of brokers stay balanced, and that workers understand  *)
(* every message.                                                          *)
(***************************************************************************)
EXTENDS Client, TLAPS

\* The proofs about the choice of brokers, for those that the client has.
R == INSTANCE RoundRobinProofs WITH size <- Len(request.brokers)

\* What became of a message goes with how often it was handed over.
Handed ==
  \A c \in Calls :
    /\ pub[c] \in {"idle", "trying", "pending"} => copies[c] = 0
    /\ pub[c] \in {"sent", "resolved"} => copies[c] = 1
    /\ pub[c] # "idle" => c \in DOMAIN request.calls

(* The inductive invariant: the round robin's own speaks of index and picks. *)
IInv == TypeOK /\ R!IInv /\ Handed

(* A client that has been asked for one thing to do satisfies it.          *)
LEMMA InitInv == Init => IInv
<1> SUFFICES ASSUME Init PROVE IInv
  OBVIOUS
<1> USE RequestsAssumption DEF Init
<1>1. Len(request.brokers) \in Nat \ {0}
  BY DEF Init
<1>2. R!Init
  BY <1>1 DEF RR!Init, R!Init, RR!Positions, R!Positions
<1>3. R!IInv
  BY <1>2, R!InitIInv
<1>4. index \in RR!Positions /\ picks \in [RR!Positions -> Nat]
  BY <1>1 DEF RR!Init, RR!Positions
<1>5. TypeOK /\ Handed
  BY <1>4 DEF TypeOK, Handed
<1> QED BY <1>3, <1>5 DEF IInv

(* Every step but a choice leaves the round robin alone ...                *)
LEMMA NoPick ==
  ASSUME R!IInv, UNCHANGED <<request, index, picks>>
  PROVE  /\ R!IInv' /\ RR!Positions' = RR!Positions
         /\ index' \in RR!Positions /\ picks' \in [RR!Positions -> Nat]
<1>1. [R!Next]_(R!vars)
  BY DEF R!vars
<1>2. R!IInv'
  BY <1>1, R!NextIInv
<1>3. RR!Positions' = RR!Positions /\ RR!Positions = R!Positions
  BY DEF RR!Positions, R!Positions
<1>4. index' \in R!Positions' /\ R!Positions' = R!Positions
  BY <1>2, <1>3 DEF R!IInv, R!Positions
<1>5. picks' \in [R!Positions -> Nat]
  BY <1>2, <1>4 DEF R!IInv, R!Laps
<1> QED BY <1>2, <1>3, <1>4, <1>5

(* ... and a choice is that of one of the brokers.                         *)
LEMMA Picks ==
  ASSUME R!IInv, request' = request, RR!Pick(index)
  PROVE  /\ R!IInv' /\ RR!Positions' = RR!Positions
         /\ index \in RR!Positions
         /\ index' \in RR!Positions /\ picks' \in [RR!Positions -> Nat]
<1>1. /\ index \in R!Positions /\ R!Pick(index)
      /\ UNCHANGED Len(request.brokers)
  BY DEF R!IInv, RR!Pick, R!Pick
<1>2. R!Next
  BY <1>1 DEF R!Next
<1>3. R!IInv'
  BY <1>2, R!NextIInv
<1>4. RR!Positions' = RR!Positions /\ RR!Positions = R!Positions
  BY <1>1 DEF RR!Positions, R!Positions
<1>5. index' \in R!Positions' /\ R!Positions' = R!Positions
  BY <1>1, <1>3 DEF R!IInv, R!Positions
<1>6. picks' \in [R!Positions -> Nat]
  BY <1>3, <1>5 DEF R!IInv, R!Laps
<1> QED BY <1>1, <1>3, <1>4, <1>5, <1>6

(* An action that moves only what belongs to calls, or to end().           *)
LEMMA CallInv ==
  ASSUME IInv, NEW c \in Calls,
         \/ Apply(c) \/ TryPublish(c) \/ FailOver(c) \/ HandOver(c)
         \/ PublishResolves(c) \/ PublishRejects(c) \/ Report(c)
         \/ BackendFails(c) \/ Get(c) \/ TimeOut(c) \/ GetSettles(c)
  PROVE  IInv'
<1> DEFINE PubStates == {"idle", "trying", "pending", "sent", "resolved",
                         "rejected"}
<1>1. request' = request /\ client' = client /\ UNCHANGED endVars
  BY DEF Apply, TryPublish, FailOver, HandOver, PublishResolves,
         PublishRejects, Report, BackendFails, Get, TimeOut, GetSettles, To
<1>2. /\ R!IInv' /\ RR!Positions' = RR!Positions
      /\ index' \in RR!Positions /\ picks' \in [RR!Positions -> Nat]
      /\ broker' \in [Tasks -> RR!Positions \union {None}]
  <2>1. CASE FailOver(c)
    <3>1. RR!Pick(index) /\ broker' = [broker EXCEPT ![TaskOf(c)] = index]
      BY <2>1 DEF FailOver
    <3> QED BY <1>1, <3>1, Picks DEF IInv, TypeOK
  <2>2. CASE UNCHANGED taskVars
    BY <1>1, <2>2, NoPick DEF taskVars, IInv, TypeOK
  <2> QED BY <2>1, <2>2 DEF Apply, TryPublish, HandOver, PublishResolves,
            PublishRejects, Report, BackendFails, Get, TimeOut, GetSettles, To
<1>3. endpc' \in {"idle", "ending", "resolved", "rejected"}
      /\ ending' \in SUBSET Components' /\ Components' = Components
  BY <1>1 DEF IInv, TypeOK, Components, endVars
<1>4. /\ trying \in Calls \union {None} /\ None \notin Calls
      /\ pub \in [Calls -> PubStates]
      /\ \A d \in Calls : pub[d] = "trying" <=> trying = d
      /\ copies \in [Calls -> 0..1] /\ Handed
      /\ at \in [Calls -> RR!Positions \union {None}]
  BY RequestsAssumption DEF IInv, TypeOK
<1>5. /\ trying' \in Calls \union {None}
      /\ pub' \in [Calls -> PubStates]
      /\ \A d \in Calls : pub'[d] = "trying" <=> trying' = d
      /\ copies' \in [Calls -> 0..1] /\ Handed'
      /\ at' \in [Calls -> RR!Positions \union {None}]
  <2>1. CASE Apply(c)
    <3>1. /\ pub[c] = "idle" /\ trying = None /\ c \in DOMAIN request.calls
          /\ pub' = [pub EXCEPT ![c] = "trying"] /\ trying' = c
          /\ UNCHANGED <<request, copies, at>>
      BY <2>1 DEF Apply, Idle
    <3> QED BY <1>4, <3>1 DEF Handed
  <2>2. CASE TryPublish(c)
    <3>1. /\ trying = c /\ trying' = None
          /\ pub' = [pub EXCEPT ![c] = "pending"]
          /\ at' = [at EXCEPT ![c] = broker[TaskOf(c)]]
          /\ UNCHANGED <<request, copies>>
      BY <2>2 DEF TryPublish
    <3>2. request \in Requests /\ c \in DOMAIN request.calls
      BY <1>4, <3>1 DEF Handed, IInv, TypeOK
    <3>3. broker[TaskOf(c)] \in RR!Positions \union {None}
      BY <3>2, RequestsAssumption DEF IInv, TypeOK, TaskOf
    <3> QED BY <1>4, <3>1, <3>2, <3>3 DEF Handed
  <2>3. CASE HandOver(c)
    <3>1. /\ pub[c] = "pending" /\ trying = None
          /\ pub' = [pub EXCEPT ![c] = "sent"]
          /\ copies' = [copies EXCEPT ![c] = copies[c] + 1]
          /\ UNCHANGED <<request, trying, at>>
      BY <2>3 DEF HandOver, Idle
    <3>2. copies[c] + 1 = 1
      BY <1>4, <3>1 DEF Handed
    <3>3. copies' = [copies EXCEPT ![c] = 1]
      BY <3>1, <3>2
    <3> HIDE DEF PubStates
    <3>4. copies' \in [Calls -> 0..1]
      BY <1>4, <3>3
    <3> QED BY <1>4, <3>1, <3>3, <3>4 DEF Handed, PubStates
  <2>4. CASE PublishResolves(c) \/ PublishRejects(c)
    <3>1. /\ pub[c] \in {"pending", "sent"} /\ trying = None
          /\ \/ pub[c] = "sent" /\ pub' = [pub EXCEPT ![c] = "resolved"]
             \/ pub' = [pub EXCEPT ![c] = "rejected"]
          /\ UNCHANGED <<request, trying, copies, at>>
      BY <2>4 DEF PublishResolves, PublishRejects, Idle
    <3> QED BY <1>4, <3>1 DEF Handed
  <2>5. CASE UNCHANGED publishVars
    BY <1>1, <1>4, <2>5 DEF publishVars, Handed
  <2> QED BY <2>1, <2>2, <2>3, <2>4, <2>5 DEF FailOver, Report, BackendFails,
            Get, TimeOut, GetSettles, To
<1>6. /\ result' \in [Calls -> {"none", "waiting", "value", "failed"}]
      /\ got' \in [Calls -> {"none", "waiting", "timed", "value", "failed",
                             "timed out"}]
  <2>1. /\ result \in [Calls -> {"none", "waiting", "value", "failed"}]
        /\ got \in [Calls -> {"none", "waiting", "timed", "value", "failed",
                             "timed out"}]
    BY DEF IInv, TypeOK
  <2>2. CASE Apply(c) \/ Report(c) \/ BackendFails(c)
    <3>1. /\ \E answer \in {"failed", "waiting", "value"} :
               result' = [result EXCEPT ![c] = answer]
          /\ got' = got
      BY <2>2 DEF Apply, Report, BackendFails
    <3> QED BY <2>1, <3>1
  <2>3. CASE Get(c) \/ TimeOut(c) \/ GetSettles(c)
    <3>1. /\ \E answer \in {"waiting", "timed", "timed out", "value", "failed"} :
               got' = [got EXCEPT ![c] = answer]
          /\ result' = result
      BY <2>3 DEF Get, TimeOut, GetSettles, To
    <3> QED BY <2>1, <3>1
  <2>4. CASE UNCHANGED resultVars
    BY <2>1, <2>4 DEF resultVars
  <2> QED BY <2>2, <2>3, <2>4
          DEF TryPublish, FailOver, HandOver, PublishResolves, PublishRejects
<1>7. TypeOK'
  BY <1>1, <1>2, <1>3, <1>5, <1>6 DEF IInv, TypeOK
<1> QED BY <1>2, <1>5, <1>7 DEF IInv

(* Every action preserves the invariant.                                    *)
LEMMA NextInv == IInv /\ [Next]_vars => IInv'
<1> SUFFICES ASSUME IInv, [Next]_vars PROVE IInv'
  OBVIOUS
<1> USE DEF IInv
<1>1. CASE \/ Create \/ EndCall \/ EndResolves \/ UNCHANGED vars
           \/ \E x \in Components : ComponentEnds(x)
  <2>1. /\ request' = request
        /\ UNCHANGED <<taskVars, publishVars, resultVars>>
    BY <1>1 DEF Create, EndCall, EndResolves, ComponentEnds, vars
  <2>2. /\ R!IInv' /\ RR!Positions' = RR!Positions
        /\ index' \in RR!Positions /\ picks' \in [RR!Positions -> Nat]
    BY <2>1, NoPick DEF taskVars
  <2>3. client' \in {None, Error} \/ DOMAIN client' = {"brokers", "backend"}
    <3>1. CASE Create
      <4>1. \/ client' = Error
            \/ \E brokers, backend :
                 client' = [brokers |-> brokers, backend |-> backend]
        BY <3>1 DEF Create
      <4> QED BY <4>1
    <3>2. CASE client' = client
      BY <3>2 DEF TypeOK
    <3> QED BY <1>1, <3>1, <3>2 DEF EndCall, EndResolves, ComponentEnds, vars
  <2>4. /\ endpc' \in {"idle", "ending", "resolved", "rejected"}
        /\ ending' \in SUBSET Components' /\ Components' = Components
    BY <1>1, <2>1 DEF Create, EndCall, EndResolves, ComponentEnds, vars,
                      endVars, TypeOK, Components
  <2>5. TypeOK'
    BY <2>1, <2>2, <2>3, <2>4 DEF TypeOK, taskVars, publishVars, resultVars
  <2>6. Handed'
    BY <2>1 DEF Handed, publishVars
  <2> QED BY <2>2, <2>5, <2>6
<1>2. ASSUME NEW t \in Tasks, CreateTask(t)
      PROVE  IInv'
  <2>1. /\ RR!Pick(index) /\ broker' = [broker EXCEPT ![t] = index]
        /\ UNCHANGED <<request, client, publishVars, resultVars, endVars>>
    BY <1>2 DEF CreateTask
  <2>2. /\ R!IInv' /\ RR!Positions' = RR!Positions
        /\ index \in RR!Positions
        /\ index' \in RR!Positions /\ picks' \in [RR!Positions -> Nat]
    BY <2>1, Picks
  <2>3. broker' \in [Tasks -> RR!Positions \union {None}]
    BY <2>1, <2>2 DEF TypeOK
  <2>4. TypeOK'
    BY <2>1, <2>2, <2>3 DEF TypeOK, publishVars, resultVars, endVars, Components
  <2>5. Handed'
    BY <2>1 DEF Handed, publishVars
  <2> QED BY <2>2, <2>4, <2>5
<1>3. ASSUME NEW c \in Calls,
             \/ Apply(c) \/ TryPublish(c) \/ FailOver(c) \/ HandOver(c)
             \/ PublishResolves(c) \/ PublishRejects(c) \/ Report(c)
             \/ BackendFails(c) \/ Get(c) \/ TimeOut(c) \/ GetSettles(c)
      PROVE  IInv'
  BY <1>3, CallInv
<1> QED BY <1>1, <1>2, <1>3 DEF Next

(* The invariant holds in every reachable state.                           *)
LEMMA Invariant == Spec => []IInv
<1> QED BY InitInv, NextInv, PTL DEF Spec
-----------------------------------------------------------------------------
(* The client, its tasks and its calls keep their types; applyAsync() is   *)
(* never in two calls at once, and a message has one copy at most.         *)
THEOREM TypeCorrect == Spec => []TypeOK
<1>1. IInv => TypeOK
  BY DEF IInv
<1> QED BY <1>1, Invariant, PTL

(* The choices of createTask() and of failovers, by any number of tasks and *)
(* in any order, spread evenly over any number of brokers.                  *)
THEOREM ChoicesBalanced == Spec => []Balanced
<1>1. IInv => Balanced
  <2> SUFFICES ASSUME IInv PROVE RR!Balanced
    BY DEF Balanced
  <2>1. R!Balanced
    BY R!IInvBalanced DEF IInv
  <2> QED BY <2>1 DEF RR!Balanced, R!Balanced, RR!Positions, R!Positions
<1> QED BY <1>1, Invariant, PTL
-----------------------------------------------------------------------------
(* What a step does to one message: as MessageBroker allows, or nothing.    *)

Shown == [c \in Calls |-> CASE pub[c] = "idle" -> "none"
                            [] pub[c] \in {"trying", "sent"} -> "pending"
                            [] OTHER -> pub[c]]

(* What one step may show of a publish(), as its broker would.              *)
LEMMA StepShows ==
  ASSUME IInv, Next, NEW c \in Calls
  PROVE  \/ pub'[c] = pub[c] /\ copies'[c] = copies[c]
         \/ /\ copies'[c] = copies[c]
            /\ \/ pub[c] = "idle" /\ pub'[c] = "trying"
               \/ pub[c] = "trying" /\ pub'[c] = "pending"
               \/ pub[c] = "sent" /\ copies[c] = 1 /\ pub'[c] = "resolved"
               \/ pub[c] \in {"pending", "sent"} /\ pub'[c] = "rejected"
         \/ /\ pub[c] = "pending" /\ copies[c] = 0
            /\ pub'[c] = "sent" /\ copies'[c] = 1
<1>1. /\ pub \in [Calls -> {"idle", "trying", "pending", "sent", "resolved",
                            "rejected"}]
      /\ copies \in [Calls -> 0..1] /\ Handed
      /\ trying = c => pub[c] = "trying"
  BY DEF IInv, TypeOK
<1>2. CASE UNCHANGED <<pub, copies>>
  BY <1>2
<1>3. ASSUME NEW d \in Calls, Apply(d) \/ TryPublish(d)
      PROVE  /\ copies' = copies
             /\ \/ pub[d] = "idle" /\ pub' = [pub EXCEPT ![d] = "trying"]
                \/ pub[d] = "trying" /\ pub' = [pub EXCEPT ![d] = "pending"]
  BY <1>1, <1>3 DEF Apply, TryPublish, IInv, TypeOK
<1>4. ASSUME NEW d \in Calls, HandOver(d)
      PROVE  /\ pub[d] = "pending" /\ copies[d] = 0
             /\ pub' = [pub EXCEPT ![d] = "sent"]
             /\ copies' = [copies EXCEPT ![d] = 1]
  <2>1. /\ pub[d] = "pending" /\ pub' = [pub EXCEPT ![d] = "sent"]
        /\ copies' = [copies EXCEPT ![d] = copies[d] + 1]
    BY <1>4 DEF HandOver
  <2>2. copies[d] = 0 /\ copies[d] + 1 = 1
    BY <1>1, <2>1 DEF Handed
  <2> QED BY <2>1, <2>2
<1>5. ASSUME NEW d \in Calls, PublishResolves(d) \/ PublishRejects(d)
      PROVE  /\ copies' = copies
             /\ \/ /\ pub[d] = "sent" /\ copies[d] = 1
                   /\ pub' = [pub EXCEPT ![d] = "resolved"]
                \/ /\ pub[d] \in {"pending", "sent"}
                   /\ pub' = [pub EXCEPT ![d] = "rejected"]
  BY <1>1, <1>5 DEF PublishResolves, PublishRejects, Handed
<1>6. \/ UNCHANGED <<pub, copies>>
      \/ \E d \in Calls : \/ Apply(d) \/ TryPublish(d) \/ HandOver(d)
                          \/ PublishResolves(d) \/ PublishRejects(d)
  BY DEF Next, Create, EndCall, EndResolves, ComponentEnds, CreateTask,
         FailOver, Report, BackendFails, Get, TimeOut, GetSettles, To,
         publishVars
<1> QED BY <1>1, <1>2, <1>3, <1>4, <1>5, <1>6

(* So each step is one of MessageBroker, or changes nothing of it.          *)
LEMMA StepImplements ==
  ASSUME IInv, IInv', [Next]_vars
  PROVE  [Broker!Next]_<<Shown, copies, "open", FALSE>>
<1>1. CASE UNCHANGED vars
  BY <1>1 DEF vars, publishVars, Shown
<1>2. CASE Next
  <2>1. /\ pub \in [Calls -> {"idle", "trying", "pending", "sent", "resolved",
                              "rejected"}]
        /\ pub' \in [Calls -> {"idle", "trying", "pending", "sent", "resolved",
                               "rejected"}]
        /\ copies' \in [Calls -> 0..1]
    BY DEF IInv, TypeOK
  <2>2. Shown' \in [Calls -> {"none", "pending", "resolved", "rejected"}]
    BY <2>1 DEF Shown
  <2>3. ASSUME NEW c \in Calls
        PROVE  Broker!Moves(c)
    BY <1>2, <2>1, StepShows
    DEF Broker!Moves, Broker!Publish, Broker!Reject, Broker!Resolve,
        Broker!HandOver
  <2>4. copies' \in [Calls -> 0..2]
    BY <2>1
  <2> QED BY <2>2, <2>3, <2>4 DEF Broker!Next, Shown
<1> QED BY <1>1, <1>2

(* All brokers together keep the promise of MessageBroker: though           *)
(* tryPublish() calls failoverStrategy() and tries again, one publish() at  *)
(* most sends a message, and it resolves only when it has.                  *)
THEOREM ImplementsMessageBroker == Spec => SentAtMostOnce
<1>1. Init => Broker!Init
  BY DEF Init, Broker!Init
<1>2. IInv /\ IInv' /\ [Next]_vars => [Broker!Next]_<<Shown, copies, "open", FALSE>>
  BY StepImplements
<1> QED BY <1>1, <1>2, Invariant, PTL
        DEF Spec, SentAtMostOnce, Broker!Spec, Shown
-----------------------------------------------------------------------------
(* What a worker reads from a message, for any task, options and id.        *)

(* What pack() made is undone by the steps that the headers name.           *)
LEMMA PackedUnpacks ==
  ASSUME NEW serializer \in {"json", "yaml"},
         NEW compression \in {"identity", "gzip", "zlib"}, NEW args
  PROVE  LET packer == TaskMessage!CreatePacker(serializer, compression)
             bytes  == IF compression = "identity" THEN <<serializer, args>>
                       ELSE <<"zlib", <<serializer, args>>>>
         IN  /\ packer.encoder = IF compression = "identity" THEN "plaintext"
                                                             ELSE "base64"
             /\ TaskMessage!Pack(packer, args) = <<packer.encoder, bytes>>
             /\ TaskMessage!Unpack(packer, <<packer.encoder, bytes>>) = args
             /\ TaskMessage!Decode(packer.encoder, <<packer.encoder, bytes>>)
                  = bytes
             /\ TaskMessage!WorkerUnpacks(bytes,
                  TaskMessage!ContentTypeMime[serializer],
                  IF compression = "identity" THEN Null
                                              ELSE "application/x-gzip") = args
<1> DEFINE packer == TaskMessage!CreatePacker(serializer, compression)
<1>1. CASE compression = "identity"
  <2>1. /\ packer.serializer = serializer /\ packer.encoder = "plaintext"
        /\ packer.compressor = "identity"
    BY <1>1 DEF TaskMessage!CreatePacker, TaskMessage!SelectEncoder
  <2>2. Null # "application/x-gzip"
    BY RequestsAssumption
  <2> QED BY <1>1, <2>1, <2>2
     DEF TaskMessage!Pack, TaskMessage!Encode, TaskMessage!Compress,
         TaskMessage!Serialize, TaskMessage!Formatted, TaskMessage!Unpack,
         TaskMessage!Decode, TaskMessage!Decompress, TaskMessage!Deserialize,
         TaskMessage!Unformatted, TaskMessage!WorkerUnpacks,
         TaskMessage!ContentTypeMime
<1>2. CASE compression # "identity"
  <2>1. /\ packer.serializer = serializer /\ packer.encoder = "base64"
        /\ packer.compressor = "zlib"
    BY <1>2 DEF TaskMessage!CreatePacker, TaskMessage!SelectEncoder
  <2> QED BY <1>2, <2>1
     DEF TaskMessage!Pack, TaskMessage!Encode, TaskMessage!Compress,
         TaskMessage!Serialize, TaskMessage!Formatted, TaskMessage!Unpack,
         TaskMessage!Decode, TaskMessage!Decompress, TaskMessage!Deserialize,
         TaskMessage!Unformatted, TaskMessage!WorkerUnpacks,
         TaskMessage!ContentTypeMime
<1> QED BY <1>1, <1>2

(* Through RabbitMQ and through Redis alike, it is what was asked for.      *)
LEMMA MessageUnderstood ==
  ASSUME NEW c \in Calls, c \in DOMAIN request.calls,
         request.calls[c].options.serializer \in {"json", "yaml"},
         request.calls[c].options.compression \in {"identity", "gzip", "zlib"}
  PROVE  LET options == request.calls[c].options
             packer  == TaskMessage!CreatePacker(options.serializer,
                                                 options.compression)
         IN  /\ TaskMessage!ReadFromRedis(Message(c)) = Asked(c)
             /\ TaskMessage!ReadFromAmqp(TaskMessage!AmqpPublishing(Message(c)))
                  = Asked(c)
             /\ TaskMessage!Unpack(packer, Message(c).body) = options.args
<1> DEFINE task == request.calls[c].task
           options == request.calls[c].options
           serializer == options.serializer
           compression == options.compression
           args == options.args
           packer == TaskMessage!CreatePacker(serializer, compression)
           bytes  == IF compression = "identity" THEN <<serializer, args>>
                     ELSE <<"zlib", <<serializer, args>>>>
           mark == IF compression = "identity" THEN Null
                                               ELSE "application/x-gzip"
           headers == TaskMessage!CreateHeaders(task, options, c)
           properties ==
             TaskMessage!CreateProperties(task, options, packer.encoder, c)
<1>1. /\ packer.encoder \in {"plaintext", "base64"}
      /\ TaskMessage!Pack(packer, args) = <<packer.encoder, bytes>>
      /\ TaskMessage!Unpack(packer, <<packer.encoder, bytes>>) = args
      /\ TaskMessage!Decode(packer.encoder, <<packer.encoder, bytes>>) = bytes
      /\ TaskMessage!WorkerUnpacks(bytes,
           TaskMessage!ContentTypeMime[serializer], mark) = args
  BY PackedUnpacks
<1>2. /\ Message(c).body = <<packer.encoder, bytes>>
      /\ Message(c).content_type = TaskMessage!ContentTypeMime[serializer]
      /\ Message(c).headers = headers /\ Message(c).properties = properties
  BY <1>1 DEF Message, TaskMessage!CreateMessage
<1>3. /\ TaskMessage!EncoderOf[properties.body_encoding] = packer.encoder
      /\ headers.compression = mark
  BY <1>1 DEF TaskMessage!CreateProperties, TaskMessage!CreateHeaders,
              TaskMessage!EncoderOf, TaskMessage!EncodingMime
<1> DEFINE queue == IF options.queue = Null THEN task.queue ELSE options.queue
           mode == IF task.deliveryMode = "transient" THEN 1 ELSE 2
<1>4. /\ headers.task = task.name /\ headers.eta = options.eta
      /\ headers.timelimit = <<task.softTimeLimit, task.hardTimeLimit>>
      /\ headers.expires = options.expires /\ headers.id = c
      /\ properties.reply_to = task.appId /\ properties.queue = queue
      /\ properties.routing_key = queue /\ properties.correlation_id = c
      /\ properties.priority = options.priority
      /\ properties.delivery_mode = mode
  BY DEF TaskMessage!CreateProperties, TaskMessage!CreateHeaders
<1>5. Asked(c) = TaskMessage!Call(args, headers, c, task.appId, queue,
                                  options.priority, mode)
  BY <1>4 DEF Asked, TaskMessage!Call
<1> HIDE DEF bytes, packer, mark, headers, properties, queue, mode
<1>6. TaskMessage!ReadFromRedis(Message(c)) = Asked(c)
  BY <1>1, <1>2, <1>3, <1>4, <1>5 DEF TaskMessage!ReadFromRedis
<1>7. TaskMessage!ReadFromAmqp(TaskMessage!AmqpPublishing(Message(c))) = Asked(c)
  BY <1>1, <1>2, <1>3, <1>4, <1>5
  DEF TaskMessage!ReadFromAmqp, TaskMessage!AmqpPublishing
<1>8. TaskMessage!Unpack(packer, Message(c).body) = args
  BY <1>1, <1>2
<1> QED BY <1>6, <1>7, <1>8 DEF packer

(* With every serializer and compression, and whatever else applyAsync() is *)
(* given: a worker that takes the message from either broker recovers the   *)
(* arguments and the options, and the client's own packer undoes its work.  *)
THEOREM WorkersAlwaysUnderstand == Spec => []WorkersUnderstand
<1>1. IInv => WorkersUnderstand
  <2> SUFFICES ASSUME IInv PROVE WorkersUnderstand
    OBVIOUS
  <2>1. ASSUME NEW c \in DOMAIN request.calls
        PROVE  /\ c \in Calls
               /\ request.calls[c].options.serializer \in {"json", "yaml"}
               /\ request.calls[c].options.compression
                    \in {"identity", "gzip", "zlib"}
    BY RequestsAssumption DEF IInv, TypeOK
  <2> QED BY <2>1, MessageUnderstood DEF WorkersUnderstand
<1> QED BY <1>1, Invariant, PTL
=============================================================================
