--------------------------- MODULE ProviderStreams ---------------------------
(***************************************************************************)
(* One streamed Provider job from the upstream call to the client: the     *)
(* adapters that read three wire formats (src/provider/openai.go,          *)
(* anthropic.go, google.go), the runner that forwards their events         *)
(* (src/service/provider_runner.go), the registry with its bounded buffer  *)
(* (provider_stream.go), and the handler that encodes events as Chat or    *)
(* Responses frames (src/provider/public_sse.go,                           *)
(* src/api/llm/provider_job_handler.go).                                   *)
(*                                                                         *)
(* A text is a sequence of pieces.  The runner, the client and the         *)
(* upstream interleave event by event.  The settlement between the last    *)
(* two phases belongs to the module that EXTENDS this one.                 *)
(***************************************************************************)
EXTENDS Pricing, Sequences, SequencesExt

CONSTANTS
  Pieces,        \* pieces of text and of arguments
  CallIds,       \* ids of tool calls, with "" when Google may leave them out
  Reports,       \* token counts by component that a provider may report
  StreamBuffer,  \* provider.stream_subscriber_buffer
  MaxAttempts,   \* provider.max_attempts_per_job
  MaxChunks      \* bound: chunks of an upstream stream

Texts == {<<p>> : p \in Pieces} \cup {<<p, q>> : p, q \in Pieces}
Args == {<<>>} \cup {<<p>> : p \in Pieces}

\* What an adapter accumulates: AssembledMessage, and the usage once it was reported.
NoUsage == [known |-> FALSE]
NoMessage == [text |-> <<>>, tools |-> <<>>, finish |-> "", usage |-> NoUsage]

Event(kind, index, data) == [kind |-> kind, index |-> index, data |-> data]

ASSUME StreamsAssumption ==
  /\ Reports \subseteq [Components -> Nat]
  /\ {StreamBuffer, MaxAttempts} \subseteq Nat \ {0} /\ MaxChunks \in Nat

VARIABLES
  upstream,  \* the call: service, at, attempts, chunks read, the message so far, its outcome
  outbox,    \* events of the adapter and of the runner that are still to be published
  channel,   \* the subscriber: its buffered events, whether it is registered, whether it is open
  client     \* writeProviderStream: where it is, its api, include_usage, what it wrote

streamVars == <<upstream, outbox, channel, client>>

-----------------------------------------------------------------------------
(* The usage of the three formats, by component; OpenAI counts reasoning    *)
(* within the output, Google beside it.                                    *)

\* The components of a report that a format has.
Only(r, comps) == [c \in Components |-> IF c \in comps THEN r[c] ELSE 0]

OpenAIUsage(r) ==
  [parts |-> Only(r, {"input_tokens", "output_tokens", "cached_input_tokens", "reasoning_tokens"}),
   reasoningIncluded |-> TRUE]
AnthropicUsage(r) ==
  [parts |-> Only(r, {"input_tokens", "output_tokens", "cached_input_tokens", "cache_write_input_tokens"}),
   reasoningIncluded |-> FALSE]
GoogleUsage(r) ==
  [parts |-> Only(r, {"input_tokens", "output_tokens", "cached_input_tokens", "reasoning_tokens",
                      "tool_use_prompt_tokens"}),
   reasoningIncluded |-> FALSE]

\* A report of Anthropic without input and output tokens is none, one of Google without any token, as
\* its total counts them all.
IsReported(u) == u.parts["input_tokens"] > 0 \/ u.parts["output_tokens"] > 0
HasTotal(u) == \E c \in Components : u.parts[c] > 0

-----------------------------------------------------------------------------
(* What the adapters have in common. A chunk is the message it leaves and   *)
(* the events it emits.                                                    *)

Chunk(m, events) == [message |-> m, events |-> events]

\* EmitContentDelta emits nothing for an empty text.
TextDelta(m, text, emitted) ==
  Chunk([m EXCEPT !.text = text], IF emitted = <<>> THEN <<>> ELSE <<Event("content", 0, emitted)>>)

ArgsDelta(i, args) == IF args = <<>> THEN <<>> ELSE <<Event("tool_args", i, args)>>

OpenTool(m, id, args) ==
  Chunk([m EXCEPT !.tools = Append(@, [id |-> id, args |-> args, open |-> TRUE])],
        <<Event("tool_start", Len(m.tools) + 1, <<id>>)>> \o ArgsDelta(Len(m.tools) + 1, args))

MoreArgs(m, i, args, emitted) == Chunk([m EXCEPT !.tools[i].args = args], ArgsDelta(i, emitted))

WithUsage(m, u) == Chunk([m EXCEPT !.usage = [known |-> TRUE, report |-> u]], <<>>)

NewIds(m) == (CallIds \ {""}) \ {m.tools[i].id : i \in DOMAIN m.tools}
AllCompleted(m) == [i \in DOMAIN m.tools |-> Event("tool_done", i, <<>>)]
Finished(reason) == <<Event("finish", 0, <<reason>>)>>
\* Chunks that OpenAI and Anthropic have in common: a piece of the text, a tool, a piece of its arguments, the finish reason.
TextPieces(m) == {TextDelta(m, Append(m.text, p), <<p>>) : p \in Pieces}
ToolStarts(m) == UNION {{OpenTool(m, id, a) : a \in Args} : id \in NewIds(m)}
ArgsPieces(m, i) == {MoreArgs(m, i, Append(m.tools[i].args, p), <<p>>) : p \in Pieces}
Finish(m, events) == Chunk([m EXCEPT !.finish = "stop"], events \o Finished("stop"))

Failure(code) == [outcome |-> "failed", events |-> <<Event("error", 0, <<code>>)>>]
Confirmed(events) == [outcome |-> "confirmed", events |-> Append(events, Event("final_usage", 0, <<>>))]

-----------------------------------------------------------------------------
(* OpenAI. Upstream starts a tool with its id, deltas append, a finish      *)
(* reason ends the message, and usage may come with any chunk.  That no    *)
(* arguments come before the id and name of their tool is the upstream's   *)
(* protocol: the adapter would forward them before the tool.               *)

OpenAIContent(m) ==
  TextPieces(m) \cup ToolStarts(m) \cup (UNION {ArgsPieces(m, i) : i \in DOMAIN m.tools})
  \cup {Finish(m, AllCompleted(m))}

OpenAIChunks(m) ==
  (IF m.finish # "" THEN {} ELSE OpenAIContent(m)) \cup {WithUsage(m, OpenAIUsage(r)) : r \in Reports}

\* The stream ends, with [DONE] or without it.
OpenAIEnd(m) == IF m.usage.known THEN Confirmed(<<>>) ELSE Failure("usage_missing")

-----------------------------------------------------------------------------
(* Anthropic. Tools are blocks that stop, and a stream that ends without a  *)
(* stop reason is given one.  That arguments come only in blocks that were *)
(* started as tools is the upstream's protocol: the adapter would forward  *)
(* those of any other block under the next index.                          *)

BlockStop(m, i) == Chunk([m EXCEPT !.tools[i].open = FALSE], <<Event("tool_done", i, <<>>)>>)

AnthropicContent(m) ==
  TextPieces(m) \cup ToolStarts(m)
  \cup (UNION {ArgsPieces(m, i) \cup {BlockStop(m, i)} : i \in {i \in DOMAIN m.tools : m.tools[i].open}})
  \cup {Finish(m, <<>>)}

AnthropicChunks(m) ==
  (IF m.finish # "" THEN {} ELSE AnthropicContent(m))
  \cup (IF m.usage.known THEN {} ELSE {WithUsage(m, AnthropicUsage(r)) : r \in Reports})

\* The stream ends: reported usage is enough, even for a stream that was cut before its stop reason.
AnthropicEnd(m) ==
  IF ~m.usage.known \/ ~IsReported(m.usage.report) THEN Failure("usage_missing")
  ELSE Confirmed(IF m.finish = "" THEN Finished("stop") ELSE <<>>)

-----------------------------------------------------------------------------
(* Google. A chunk repeats the text so far or adds to it, a tool call is    *)
(* matched with the ones seen by its id, and everything is closed at the   *)
(* end.                                                                    *)

\* The suffix of a cumulative chunk.
NewText(seen, chunk) == SubSeq(chunk, Len(seen) + 1, Len(chunk))

\* A chunk that the accumulated text already starts with is dropped, cumulative or not.
GoogleText(m, chunk) ==
  IF IsPrefix(m.text, chunk) THEN TextDelta(m, chunk, NewText(m.text, chunk))
  ELSE IF IsPrefix(chunk, m.text) THEN Chunk(m, <<>>)
  ELSE TextDelta(m, m.text \o chunk, chunk)

\* parseGoogleGenerateContentResponse names a call without an id after its place in the chunk.
GoogleId(id) == IF id = "" THEN "call_google_0" ELSE id

\* matchGoogleStreamToolCall, 0 for no match: every call has an id by now.
MatchedCall(m, id) ==
  LET same == {i \in DOMAIN m.tools : m.tools[i].id = id} IN IF same = {} THEN 0 ELSE Min(same)

\* Longer arguments of a matched call replace the ones before, and their tail is emitted.
GoogleCall(m, id, args) ==
  LET i == MatchedCall(m, id) IN
  IF i = 0 THEN OpenTool(m, id, args)
  ELSE IF Len(args) > Len(m.tools[i].args) THEN MoreArgs(m, i, args, NewText(m.tools[i].args, args))
  ELSE Chunk(m, <<>>)

\* The parser gives every chunk a finish reason, and the last one stays.
FinishIs(reason, c) == [c EXCEPT !.message.finish = reason]

GoogleTexts(m) == {FinishIs("stop", GoogleText(m, t)) : t \in Texts}
GoogleIds(m) == NewIds(m) \cup {GoogleId(id) : id \in CallIds \cap {""}}
GoogleCalls(m) == {FinishIs("tool_calls", GoogleCall(m, id, a)) : id \in GoogleIds(m), a \in Texts}
\* A call that has an id may be repeated, with more of its arguments; upstream takes back none of them.
GoogleRepeats(m) ==
  {FinishIs("tool_calls", GoogleCall(m, m.tools[i].id, m.tools[i].args \o more)) : i \in DOMAIN m.tools, more \in Args}
GoogleCounts(m) == {FinishIs("stop", WithUsage(m, GoogleUsage(r))) : r \in {r \in Reports : HasTotal(GoogleUsage(r))}}

GoogleChunks(m) == GoogleTexts(m) \cup GoogleCalls(m) \cup GoogleRepeats(m) \cup GoogleCounts(m)

GoogleEnd(m) ==
  IF m.usage.known THEN Confirmed(AllCompleted(m) \o Finished(m.finish)) ELSE Failure("usage_missing")

ChunksOf(service, m) ==
  CASE service = "openai" -> OpenAIChunks(m)
    [] service = "anthropic" -> AnthropicChunks(m)
    [] service = "google" -> GoogleChunks(m)

EndOf(service, m) ==
  CASE service = "openai" -> OpenAIEnd(m)
    [] service = "anthropic" -> AnthropicEnd(m)
    [] service = "google" -> GoogleEnd(m)

-----------------------------------------------------------------------------
(* The call. A refusal that concerns the key alone may be tried with        *)
(* another one; any other ends the job.                                    *)

NoCall == [service |-> "none", at |-> "none", attempts |-> 0, chunks |-> 0, message |-> NoMessage]
NoChannel == [events |-> <<>>, registered |-> FALSE, open |-> FALSE]
NoClient == [at |-> "none", api |-> "none", includeUsage |-> FALSE, roleSent |-> FALSE, frames |-> <<>>]

\* Register, before the job becomes visible; includeUsage is TRUE for Responses.
OpenStream(service, api, includeUsage) ==
  /\ upstream' = [NoCall EXCEPT !.service = service, !.at = "queued"]
  /\ outbox' = <<>>
  /\ channel' = [NoChannel EXCEPT !.registered = TRUE, !.open = TRUE]
  /\ client' = [NoClient EXCEPT !.at = "reading", !.api = api, !.includeUsage = includeUsage \/ api = "responses"]

At(at) == upstream' = [upstream EXCEPT !.at = at]

\* Unregister and Detach: the buffered events can still be read.
Unregistered(c) == [c EXCEPT !.registered = FALSE, !.open = FALSE]

\* Execute: the provider answers with a stream.
StreamBegins ==
  /\ upstream.at = "queued"
  /\ At("reading")
  /\ outbox' = <<Event("created", 0, <<>>)>>
  /\ UNCHANGED <<channel, client>>

\* The key is refused (401, 403, 429, with OpenAI 402): another is tried, in time and below the limit.
KeyIsSwitched ==
  /\ upstream.at = "queued" /\ upstream.attempts + 1 < MaxAttempts
  /\ upstream' = [upstream EXCEPT !.attempts = @ + 1]
  /\ UNCHANGED <<outbox, channel, client>>

\* No other key is free: the job fails, and its subscriber stays registered.
NoOtherKey ==
  /\ upstream.at = "queued" /\ upstream.attempts + 1 < MaxAttempts
  /\ At("stranded")
  /\ UNCHANGED <<outbox, channel, client>>

\* Any other refusal, a connection that fails, or the last refusal of a key.
CallIsRefused ==
  /\ upstream.at = "queued"
  /\ At("failed")
  /\ channel' = Unregistered(channel)
  /\ UNCHANGED <<outbox, client>>

\* A line of the stream, once the events of the line before are published.
ReadChunk ==
  /\ upstream.at = "reading" /\ outbox = <<>> /\ upstream.chunks < MaxChunks
  /\ \E c \in ChunksOf(upstream.service, upstream.message) :
       /\ upstream' = [upstream EXCEPT !.message = c.message, !.chunks = @ + 1]
       /\ outbox' = c.events
  /\ UNCHANGED <<channel, client>>

\* The events of the end: the runner forwards them before it looks at the result.
EndStream ==
  /\ upstream.at = "reading" /\ outbox = <<>>
  /\ LET end == EndOf(upstream.service, upstream.message)
     IN /\ upstream' = [upstream EXCEPT !.at = end.outcome]
        /\ outbox' = end.events
  /\ UNCHANGED <<channel, client>>

\* The scanner fails (the connection, the idle timeout, the shutdown), or Anthropic sends an error.
InterruptStream ==
  /\ upstream.at = "reading" /\ outbox = <<>>
  /\ At("failed")
  /\ \E code \in {"stream_interrupted"} \cup IF upstream.service = "anthropic" THEN {"provider_error"} ELSE {} :
       outbox' = Failure(code).events
  /\ UNCHANGED <<channel, client>>

-----------------------------------------------------------------------------
(* The runner and the registry.                                            *)

\* Mutant of Forwarded: the usage is not withheld until the settlement.
ForwardedAll(event) == TRUE
\* publishProviderJobExecuteStreamEvent: the usage waits for the settlement.
Forwarded(event) == event.kind # "final_usage" \/ upstream.at = "settled"

\* Mutant of Publish: a full buffer drops the event.
PublishOrDrop(event) ==
  channel' = IF ~channel.registered \/ Len(channel.events) = StreamBuffer THEN channel
             ELSE [channel EXCEPT !.events = Append(@, event)]
\* Publish: a full buffer detaches the subscriber.
Publish(event) ==
  channel' = IF ~channel.registered THEN channel
             ELSE IF Len(channel.events) < StreamBuffer THEN [channel EXCEPT !.events = Append(@, event)]
             ELSE Unregistered(channel)

PublishNext ==
  /\ outbox # <<>>
  /\ IF Forwarded(Head(outbox)) THEN Publish(Head(outbox)) ELSE UNCHANGED channel
  /\ outbox' = Tail(outbox)
  /\ UNCHANGED <<upstream, client>>

\* publishProviderJobSettlementTerminal, after the settlement committed
SettleStream ==
  /\ upstream.at = "confirmed" /\ outbox = <<>>
  /\ At("settled")
  /\ outbox' = <<Event("final_usage", 0, <<>>), Event("done", 0, <<>>)>>
  /\ UNCHANGED <<channel, client>>

\* The runner is through with the job and unregisters.
LeaveStream ==
  /\ upstream.at \in {"settled", "failed"} /\ outbox = <<>> /\ channel.registered
  /\ channel' = Unregistered(channel)
  /\ UNCHANGED <<upstream, outbox, client>>

-----------------------------------------------------------------------------
(* The client's side: writeProviderStream and the encoder.                 *)

Frame(kind, index, data) == <<Event(kind, index, data)>>
Role(roleSent) == IF roleSent THEN <<>> ELSE Frame("role", 0, <<>>)

\* encodeChatCompletions
ChatFrames(e, roleSent, includeUsage) ==
  CASE e.kind = "content" -> Role(roleSent) \o Frame("text", 0, e.data)
    [] e.kind = "tool_start" -> Role(roleSent) \o Frame("tool", e.index, e.data)
    [] e.kind = "tool_args" -> Frame("args", e.index, e.data)
    [] e.kind = "finish" -> Frame("finish", 0, e.data)
    [] e.kind = "final_usage" -> IF includeUsage THEN Frame("usage", 0, <<>>) ELSE <<>>
    [] e.kind = "error" -> Frame("error", 0, e.data)
    [] e.kind = "done" -> Frame("done", 0, <<>>)
    [] OTHER -> <<>>

\* encodeResponses: text and tools without a role, and the usage with the completed response.
ResponsesFrames(e) ==
  CASE e.kind = "created" -> Frame("created", 0, <<>>)
    [] e.kind = "content" -> Frame("text", 0, e.data)
    [] e.kind = "tool_start" -> Frame("tool", e.index, e.data)
    [] e.kind = "tool_args" -> Frame("args", e.index, e.data)
    [] e.kind = "tool_done" -> Frame("args_done", e.index, <<>>)
    [] e.kind = "final_usage" -> Frame("completed", 0, <<>>)
    [] e.kind = "error" -> Frame("error", 0, e.data)
    [] OTHER -> <<>>

\* An event is taken from the channel and written; "done" and an error end the handler, whose
\* deferred Unregister closes the channel.
WriteFrames ==
  /\ client.at = "reading" /\ channel.events # <<>>
  /\ LET e == Head(channel.events)
         last == e.kind \in {"done", "error"}
         frames == IF client.api = "responses" THEN ResponsesFrames(e)
                   ELSE ChatFrames(e, client.roleSent, client.includeUsage)
     IN /\ client' = [client EXCEPT !.frames = @ \o frames,
                                    !.roleSent = @ \/ e.kind \in {"content", "tool_start"},
                                    !.at = IF last THEN "over" ELSE @]
        /\ channel' = IF last THEN [Unregistered(channel) EXCEPT !.events = <<>>]
                      ELSE [channel EXCEPT !.events = Tail(@)]
  /\ UNCHANGED <<upstream, outbox>>

\* The channel is closed and drained.
ChannelIsClosed ==
  /\ client.at = "reading" /\ channel.events = <<>> /\ ~channel.open
  /\ client' = [client EXCEPT !.at = "over"]
  /\ UNCHANGED <<upstream, outbox, channel>>

\* The client goes away, or a write to it fails.
ClientLeaves ==
  /\ client.at = "reading"
  /\ client' = [client EXCEPT !.at = "left"]
  /\ channel' = [Unregistered(channel) EXCEPT !.events = <<>>]
  /\ UNCHANGED <<upstream, outbox>>

-----------------------------------------------------------------------------

StreamInit == upstream = NoCall /\ outbox = <<>> /\ channel = NoChannel /\ client = NoClient

StreamNext ==
  \/ StreamBegins \/ KeyIsSwitched \/ NoOtherKey \/ CallIsRefused
  \/ ReadChunk \/ EndStream \/ InterruptStream
  \/ PublishNext \/ LeaveStream
  \/ WriteFrames \/ ChannelIsClosed \/ ClientLeaves

-----------------------------------------------------------------------------
(* Properties. *)

Written(kind) == {i \in DOMAIN client.frames : client.frames[i].kind = kind}

\* What a client of the stream may rely on, whatever the interleaving of the upstream, the runner and
\* the bounded buffer: the role comes first and once (encodeChatCompletions), arguments follow their
\* tool, nothing follows an error or the end, and a client is told of the end, or of its usage, only
\* after the settlement committed (publishProviderJobExecuteStreamEvent).
StreamIsWellFormed ==
  /\ client.api = "chat" =>
       /\ Cardinality(Written("role")) <= 1
       /\ \A i \in Written("text") \cup Written("tool") : \E j \in Written("role") : j < i
  /\ \A i \in Written("args") \cup Written("args_done") :
       \E j \in Written("tool") : j < i /\ client.frames[j].index = client.frames[i].index
  /\ \A i \in Written("error") \cup Written("done") \cup Written("completed") : i = Len(client.frames)
  /\ Written("done") \cup Written("completed") \cup Written("usage") # {} => upstream.at = "settled"

Joined(kind, index) ==
  FlattenSeq([i \in DOMAIN client.frames |->
                IF client.frames[i].kind = kind /\ client.frames[i].index = index
                THEN client.frames[i].data ELSE <<>>])

\* A client that saw the end of the stream has seen the result its job was settled with: the same text
\* and the same tool calls (readChatStream, readStream), although a full buffer drops events.
ClientSeesResult ==
  Written("done") \cup Written("completed") # {} =>
    /\ Joined("text", 0) = upstream.message.text
    /\ Cardinality(Written("tool")) = Len(upstream.message.tools)
    /\ \A i \in DOMAIN upstream.message.tools :
         Joined("args", i) = upstream.message.tools[i].args

\* The comment of matchGoogleStreamToolCall: without ids a chunk is merged with a call only when its
\* arguments continue the ones before; other calls open a slot of their own instead of collapsing.
CallsAreOnlyContinued ==
  [][\A i \in DOMAIN upstream.message.tools \cap DOMAIN upstream'.message.tools :
       IsPrefix(upstream.message.tools[i].args, upstream'.message.tools[i].args)]_upstream
=============================================================================
