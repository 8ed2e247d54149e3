------------------------------- MODULE Answers -------------------------------
(***************************************************************************)
(* What a client gets of the text a Crynux node generated: the tool calls  *)
(* parsed out of it, the results of Chat Completions, Completions and      *)
(* Responses, and the stream that is simulated from a result               *)
(* (src/llmadapter/raw_output.go, raw_output_parsers.go, streaming.go).    *)
(*                                                                         *)
(* A generated text is a sequence of segments.  Each has the data it is    *)
(* written with, a sequence of pieces, and a kind: "text", "endthink",     *)
(* "object" (JSON), "opening" and "closing" (the marks Kimi K3 wraps a     *)
(* response and its message in) or "calls", which has a format and the     *)
(* calls it holds.                                                         *)
(* The tools of a request are the names it declared, its tool_choice,      *)
(* whether a tool is strict and whether it asked for a response_format.    *)
(***************************************************************************)
EXTENDS ProviderStreams

CONSTANTS
  Answers,    \* what a node may answer: content, finish reason, tokens
  TextChunk   \* simulatedStreamChunkSize: 16

\* rawToolCallParsers, in their order; the first five find one section with all its calls, the others each call by itself.
Parsers == <<"kimi_k3", "kimi", "dsml", "deepseek", "hy", "glm", "tagged", "llama">>
SectionParsers == {Parsers[k] : k \in 1..5}

\* What a generated text is made of, as the parsers see it.
Segments ==
  [kind : {"text", "endthink", "object", "opening", "closing", "calls"}, data : Seq(STRING), format : STRING,
   calls : Seq([name : STRING, args : Seq(STRING)])]

\* gpt-task creates no tool calls itself. Outside a section a call is a segment of its own.
ASSUME AnswersAssumption ==
  /\ TextChunk \in Nat \ {0}
  /\ \A a \in Answers :
       /\ {a.prompt, a.completion} \subseteq Nat /\ a.finish \in {"", "stop", "length"}
       /\ a.content \in Seq(Segments)
       /\ \A i \in DOMAIN a.content :
            a.content[i].kind = "calls" =>
              /\ a.content[i].calls # <<>> /\ a.content[i].format \in Range(Parsers)
              /\ a.content[i].format \notin SectionParsers => Len(a.content[i].calls) = 1

NoTools == [declared |-> {}, choice |-> "omitted", strict |-> FALSE, json |-> FALSE]

\* normalizeToolChoice: what a request may choose, and what an omitted choice means.
IsChoice(tools) ==
  \/ tools.choice \in {"omitted", "none", "auto"} \cup tools.declared
  \/ tools.choice = "required" /\ tools.declared # {}

NormalizeToolChoice(tools) ==
  IF tools.choice # "omitted" THEN tools.choice ELSE IF tools.declared = {} THEN "none" ELSE "auto"

\* A format asked for is kept from the parsers, unless the tools constrained the generation.
MayParse(tools) ==
  /\ tools.choice # "none" /\ tools.declared # {}
  /\ tools.json /\ tools.choice = "auto" => tools.strict

\* The segments a parser finds.
FoundBy(content, format) ==
  LET same == {i \in DOMAIN content : content[i].kind = "calls" /\ content[i].format = format}
  IN IF format \in SectionParsers /\ same # {} THEN {Min(same)} ELSE same

\* The segments of the first parser that finds any.
Found(content) ==
  LET hits == {k \in DOMAIN Parsers : FoundBy(content, Parsers[k]) # {}}
  IN IF hits = {} THEN {} ELSE FoundBy(content, Parsers[Min(hits)])

TextOf(content, taken) ==
  FlattenSeq([i \in DOMAIN content |-> IF i \in taken THEN <<>> ELSE content[i].data])

\* Mutant of Declared: the names the model made up are returned as well.
AnyCall(calls, tools) == calls
\* filterDeclaredToolCalls
Declared(calls, tools) ==
  FlattenSeq([i \in DOMAIN calls |-> IF calls[i].name \in tools.declared THEN <<calls[i]>> ELSE <<>>])

CallsOf(content, taken, tools) ==
  FlattenSeq([i \in DOMAIN content |-> IF i \in taken THEN Declared(content[i].calls, tools) ELSE <<>>])

\* removeToolCallMatches: a section ends with its first call, and stays in the text when that one was not declared.
Removed(content, found, tools) == {i \in found : Head(content[i].calls).name \in tools.declared}

\* unwrapKimiK3Response: the first mark that opens a response, and all that close one or its message, are
\* taken out of a text that had a section of Kimi K3.
Unwrapped(content) ==
  LET opening == {i \in DOMAIN content : content[i].kind = "opening"}
  IN IF \A i \in DOMAIN content : content[i].kind = "calls" => content[i].format # "kimi_k3" THEN {}
     ELSE {i \in DOMAIN content : content[i].kind = "closing" \/ (i \in opening /\ \A j \in opening : i <= j)}

\* decodeJSONObject for a named choice: nothing but a JSON object, which a call of Llama's format is as well.
IsBareObject(content, tools) ==
  /\ tools.choice \notin {"none", "auto", "required"}
  /\ Len(content) = 1
  /\ content[1].kind = "object" \/ (content[1].kind = "calls" /\ content[1].format = "llama")

NormalizeAssistantContentForTask(content, tools) ==
  LET found == IF MayParse(tools) THEN Found(content) ELSE {}
      calls == CallsOf(content, found, tools)
      removed == Removed(content, found, tools) \cup Unwrapped(content)
  IN IF calls # <<>> THEN [text |-> TextOf(content, removed), calls |-> calls]
     ELSE IF MayParse(tools) /\ IsBareObject(content, tools)
     THEN [text |-> <<>>, calls |-> <<[name |-> tools.choice, args |-> content[1].data]>>]
     ELSE [text |-> TextOf(content, {}), calls |-> <<>>]

\* stripThinkingContent: all up to the first end of thinking.
StripThinking(content) ==
  LET ends == {i \in DOMAIN content : content[i].kind = "endthink"}
  IN IF ends = {} THEN content ELSE SubSeq(content, Min(ends) + 1, Len(content))

\* correctFinishReasonForLengthCap
CorrectedFinish(reason, completion, maxTokens) ==
  IF reason = "length" /\ maxTokens > 0 /\ completion < maxTokens THEN "stop" ELSE reason

FinishOf(answer) == IF answer.finish = "" THEN "stop" ELSE answer.finish

\* FormatChatCompletionsResponseWithTaskArgs
ChatResult(answer, ask) ==
  LET n == NormalizeAssistantContentForTask(answer.content, ask.tools)
      finish == IF n.calls # <<>> THEN "tool_calls" ELSE FinishOf(answer)
  IN [text |-> n.text, calls |-> n.calls, finish |-> CorrectedFinish(finish, answer.completion, ask.completion)]

\* FormatCompletionsResponse
CompletionsResult(answer, ask) ==
  [text |-> TextOf(StripThinking(answer.content), {}), calls |-> <<>>,
   finish |-> CorrectedFinish(FinishOf(answer), answer.completion, ask.completion)]

\* rawResponseToOutputItems; a response has no finish reason.
ResponsesResult(answer, ask) ==
  LET n == NormalizeAssistantContentForTask(answer.content, ask.tools)
  IN [text |-> n.text, calls |-> n.calls, finish |-> ""]

\* formatTaskJobResult, as the result a stream is compared with.
ResultOf(answer, ask) ==
  CASE ask.api = "chat" -> ChatResult(answer, ask)
    [] ask.api = "completions" -> CompletionsResult(answer, ask)
    [] OTHER -> ResponsesResult(answer, ask)

-----------------------------------------------------------------------------
(* The simulated stream of the one choice a task asks for; the code writes *)
(* a role, the text and the calls for each choice of a result.             *)

\* splitTextForStreaming
SplitText(text) ==
  [k \in 1..((Len(text) + TextChunk - 1) \div TextChunk) |->
     SubSeq(text, (k - 1) * TextChunk + 1, Smaller(k * TextChunk, Len(text)))]

TextFrames(text) == LET chunks == SplitText(text) IN [k \in DOMAIN chunks |-> Event("text", 0, chunks[k])]

\* All calls are in one event, each with its arguments.
CallFrames(calls) ==
  FlattenSeq([i \in DOMAIN calls |-> Frame("tool", i, <<calls[i].name>>) \o Frame("args", i, calls[i].args)])

EndFrames(result, includeUsage) ==
  Frame("finish", 0, <<result.finish>>)
    \o (IF includeUsage THEN Frame("usage", 0, <<>>) ELSE <<>>) \o Frame("done", 0, <<>>)

\* streamChatCompletionsResponse
StreamChat(result, includeUsage) ==
  Frame("role", 0, <<>>) \o TextFrames(result.text) \o CallFrames(result.calls) \o EndFrames(result, includeUsage)

\* streamCompletionsResponse
StreamCompletions(result, includeUsage) == TextFrames(result.text) \o EndFrames(result, includeUsage)

\* writeCompletedTaskJobResponse: a stream, whose client may be gone after any of its frames, or a body.
WriteCompleted(answer, ask) ==
  LET result == ResultOf(answer, ask)
      frames == IF ask.api = "chat" THEN StreamChat(result, ask.includeUsage)
                ELSE StreamCompletions(result, ask.includeUsage)
      tools == [i \in DOMAIN result.calls |-> [id |-> result.calls[i].name, args |-> result.calls[i].args, open |-> FALSE]]
  IN /\ upstream' = [NoCall EXCEPT !.service = "crynux", !.at = "settled",
                                   !.message = [NoMessage EXCEPT !.text = result.text, !.tools = tools,
                                                                 !.finish = result.finish]]
     /\ \E n \in 0..Len(frames) :
          client' = [NoClient EXCEPT !.at = IF n = Len(frames) THEN "over" ELSE "left", !.api = ask.api,
                                     !.includeUsage = ask.includeUsage, !.frames = SubSeq(frames, 1, n)]
     /\ UNCHANGED <<outbox, channel>>

-----------------------------------------------------------------------------

\* Some calls without the undeclared ones, written down call by call.
DeclaredOf(calls, declared) ==
  LET upto[n \in 0..Len(calls)] ==
        IF n = 0 THEN <<>>
        ELSE IF calls[n].name \in declared THEN Append(upto[n - 1], calls[n]) ELSE upto[n - 1]
  IN upto[Len(calls)]

MayCall(content) == {i \in DOMAIN content : content[i].kind = "calls"}
Marks(content) == {i \in DOMAIN content : content[i].kind \in {"opening", "closing"}}

\* The text written in some segments, and the declared calls read in some.
Shown(content, segments) == FlattenSeq([i \in DOMAIN content |-> IF i \in segments THEN content[i].data ELSE <<>>])
Called(content, segments, declared) ==
  FlattenSeq([i \in DOMAIN content |-> IF i \in segments THEN DeclaredOf(content[i].calls, declared) ELSE <<>>])

BeginsDeclared(segment, declared) == Head(segment.calls).name \in declared

\* A result of what was generated: calls are read in some segments, and the text is the content in its
\* order without the segments in out: those that were read, but for the ones that begin with an undeclared
\* call, which stay in the text, and marks, beside a section of Kimi K3. Nothing is out when nothing is called.
IsParsed(result, content, declared, read, out) ==
  /\ result.calls = Called(content, read, declared)
  /\ result.text = Shown(content, DOMAIN content \ out)
  /\ \A i \in read : i \in out <=> BeginsDeclared(content[i], declared)
  /\ result.calls = <<>> => out = {}
  /\ out \cap Marks(content) # {} => \E i \in MayCall(content) : content[i].format = "kimi_k3"

\* A named choice, and nothing but a JSON object: its arguments.
IsChosenCall(result, content, tools) ==
  /\ result.text = <<>> /\ tools.choice \in tools.declared
  /\ Len(content) = 1 /\ (content[1].kind = "object" \/ content[1].format = "llama")
  /\ result.calls = <<[name |-> tools.choice, args |-> content[1].data]>>

\* Nothing the model generated is lost or repeated (NormalizeAssistantContentForTask). Completions show
\* the text behind the thinking.
IsWhole(result, answer, ask) ==
  LET content == answer.content
  IN IF ask.api = "completions"
     THEN /\ result.calls = <<>>
          /\ \E k \in 0..Len(content) :
               /\ result.text = Shown(content, (k + 1)..Len(content))
               /\ \A i \in 1..k : content[i].kind = "endthink" <=> i = k
               /\ k = 0 => \A i \in DOMAIN content : content[i].kind # "endthink"
     ELSE \/ IsChosenCall(result, content, ask.tools)
          \/ \E read \in SUBSET MayCall(content) : \E out \in SUBSET (read \cup Marks(content)) :
               IsParsed(result, content, ask.tools.declared, read, out)
=============================================================================
