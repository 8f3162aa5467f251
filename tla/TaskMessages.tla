---------------------------- MODULE TaskMessages ----------------------------
(***************************************************************************)
(* The message that applyAsync() of src/task.ts makes, the packers of      *)
(* src/packer/ that make its body, what AmqpBroker and RedisBroker send of *)
(* it, and what a worker reads from that.                                  *)
(*                                                                         *)
(* Bytes and strings are what they were made from: <<format, content>>.    *)
(***************************************************************************)
EXTENDS Sequences

CONSTANT Null  \* what JavaScript has for an option that is not given

Garbage == <<"garbage", <<>>>>

Formatted(format, content) == <<format, content>>

Unformatted(formats, data) == IF data[1] \in formats THEN data[2] ELSE Garbage
-----------------------------------------------------------------------------
(* Packers: a serializer, a compressor and an encoder *)

Serialize(serializer, data) == Formatted(serializer, data)

Deserialize(serializer, bytes) == Unformatted({serializer}, bytes)

Compress(compressor, bytes) ==
  IF compressor = "identity" THEN bytes ELSE Formatted(compressor, bytes)

\* Zlib.unzipSync() knows both formats.
Decompress(compressor, bytes) ==
  IF compressor = "identity" THEN bytes ELSE Unformatted({"gzip", "zlib"}, bytes)

\* Bytes that are no UTF-8 do not survive being made a string.
Encode(encoder, bytes) ==
  IF encoder = "plaintext" /\ bytes[1] \notin {"json", "yaml"} THEN Garbage
  ELSE Formatted(encoder, bytes)

Decode(encoder, string) == Unformatted({encoder}, string)

Pack(packer, data) ==
  Encode(packer.encoder,
         Compress(packer.compressor, Serialize(packer.serializer, data)))

Unpack(packer, packed) ==
  Deserialize(packer.serializer,
              Decompress(packer.compressor, Decode(packer.encoder, packed)))

SelectEncoder(compressor) ==
  IF compressor = "identity" THEN "plaintext" ELSE "base64"

\* Mutant: gzip means gzip.
CreatePacker_Literal(serializer, compressor) ==
  [serializer |-> serializer, encoder |-> SelectEncoder(compressor),
   compressor |-> compressor]

\* For gzip it is zlib that packs, as in Python.
CreatePacker(serializer, compressor) ==
  [serializer |-> serializer, encoder |-> SelectEncoder(compressor),
   compressor |-> IF compressor = "gzip" THEN "zlib" ELSE compressor]
-----------------------------------------------------------------------------
(* applyAsync() *)

EncodingMime == [base64 |-> "base64", plaintext |-> "utf-8"]

ContentTypeMime == [json |-> "application/json", yaml |-> "application/x-yaml"]

CreateHeaders(task, options, id) ==
  [id |-> id, root_id |-> id, task |-> task.name,
   timelimit |-> <<task.softTimeLimit, task.hardTimeLimit>>,
   eta |-> options.eta, expires |-> options.expires,
   compression |-> IF options.compression = "identity" THEN Null
                                                       ELSE "application/x-gzip"]

CreateProperties(task, options, encoder, id) ==
  LET queue == IF options.queue = Null THEN task.queue ELSE options.queue
  IN  [body_encoding |-> EncodingMime[encoder], correlation_id |-> id,
       delivery_mode |-> IF task.deliveryMode = "transient" THEN 1 ELSE 2,
       queue |-> queue, routing_key |-> queue,
       priority |-> options.priority, reply_to |-> task.appId]

CreateMessage(task, options, id) ==
  LET packer == CreatePacker(options.serializer, options.compression)
  IN  [body             |-> Pack(packer, options.args),
       content_encoding |-> EncodingMime[packer.encoder],
       content_type     |-> ContentTypeMime[options.serializer],
       headers          |-> CreateHeaders(task, options, id),
       properties       |-> CreateProperties(task, options, packer.encoder, id)]
-----------------------------------------------------------------------------
(* What is sent, and what a worker makes of it *)

EncoderOf == [mime \in {"base64", "utf-8"} |->
                IF mime = "utf-8" THEN "plaintext" ELSE "base64"]

\* AmqpBroker: getBody() undoes the encoding, getPublishOptions() has the rest.
AmqpPublishing(message) ==
  [bytes           |-> Decode(EncoderOf[message.properties.body_encoding],
                              message.body),
   contentType     |-> message.content_type,
   contentEncoding |-> message.content_encoding,
   headers         |-> message.headers,
   correlationId   |-> message.properties.correlation_id,
   replyTo         |-> message.properties.reply_to,
   deliveryMode    |-> message.properties.delivery_mode,
   priority        |-> message.properties.priority,
   routingKey      |-> message.properties.routing_key]

\* A worker of Celery; what it takes for gzip is zlib.
WorkerUnpacks(bytes, type, compression) ==
  LET plain == IF compression = "application/x-gzip"
                 THEN Unformatted({"zlib"}, bytes) ELSE bytes
  IN  Unformatted({f \in DOMAIN ContentTypeMime : ContentTypeMime[f] = type},
                  plain)

\* The call as a worker sees it.
Call(args, headers, id, replyTo, queue, priority, mode) ==
  [args |-> args, task |-> headers.task, timelimit |-> headers.timelimit,
   eta |-> headers.eta, expires |-> headers.expires, id |-> id,
   replyTo |-> replyTo, queue |-> queue, priority |-> priority, mode |-> mode]

ReadFromAmqp(sent) ==
  Call(WorkerUnpacks(sent.bytes, sent.contentType, sent.headers.compression),
       sent.headers, sent.correlationId, sent.replyTo, sent.routingKey,
       sent.priority, sent.deliveryMode)

\* RedisBroker pushes the message as it is to the list of its queue.
ReadFromRedis(message) ==
  LET properties == message.properties
      bytes      == Decode(EncoderOf[properties.body_encoding], message.body)
  IN  Call(WorkerUnpacks(bytes, message.content_type,
                         message.headers.compression),
           message.headers, message.headers.id, properties.reply_to,
           properties.queue, properties.priority, properties.delivery_mode)
=============================================================================
