----------------------------- MODULE MCRequests -----------------------------
(***************************************************************************)
(* Instances of Requests for TLC: prices of a few Gwei, four Provider      *)
(* models, one model loaded on Crynux.                                     *)
(***************************************************************************)
EXTENDS Requests

Route(name, provider, kind, weights) == [name |-> name, provider |-> provider, apiKind |-> kind, weights |-> weights]

TestRoutes ==
  {Route("gpt", "openai", "chat", [input_tokens |-> 1, output_tokens |-> 2, reasoning_tokens |-> 2]),
   Route("claude", "anthropic", "chat", [input_tokens |-> 2, output_tokens |-> 3, cached_input_tokens |-> 1]),
   Route("gemini", "google", "chat", [input_tokens |-> 1, output_tokens |-> 2, reasoning_tokens |-> 3,
                                      cached_input_tokens |-> 1, tool_use_prompt_tokens |-> 1]),
   Route("dalle", "openai", "image", [input_tokens |-> 1, image_input_tokens |-> 1, image_output_tokens |-> 2])}

TestRate == [n |-> 3, d |-> 2]
TestMinTaskFee == [crynux |-> 6, providers |-> 7]
TestMaxTaskFee == [crynux |-> 40, openai |-> 30, anthropic |-> 30, google |-> 30]

Row(type, model, dtype, quant, vram, order) ==
  [type |-> type, model |-> model, dtype |-> dtype, quant |-> quant, components |-> "none", lora |-> "",
   vram |-> vram, onDisk |-> 1, order |-> order,
   config |-> [kind |-> IF type = "sd" THEN "image" ELSE "llm", model |-> model, quant |-> quant]]

TestRelayListings ==
  {{Row("llm", "qwen", "float16", "null", 3, 1), Row("llm", "qwen", "bfloat16", "int4", 1, 2),
    Row("llm", "gpt", "float16", "null", 3, 3), Row("sd", "sdxl", "float16", "null", 2, 4),
    [Row("llm", "qwen", "float32", "null", 5, 0) EXCEPT !.config.quant = "int4"]}}

TestQueueListings == {[count |-> 2, highest |-> 11, median |-> 6, lowest |-> 3]}
TestProviderQueues == {{}, {3}, {4, 12}}
TestTimeListings == {[constant |-> 1, input |-> 1, output |-> 2, overhead |-> 1, step |-> 1],
                     [constant |-> 0, input |-> 0, output |-> 1, overhead |-> 0, step |-> 0]}

NoEditOf(kind) == [kind |-> kind, mode |-> "", priority |-> 0, position |-> -1, maxCredits |-> 0, key |-> 0]
TestEdits ==
  {[NoEditOf("update") EXCEPT !.mode = "auto", !.position = 100, !.maxCredits = 19],
   [NoEditOf("update") EXCEPT !.mode = "auto", !.position = 30, !.maxCredits = 41],
   [NoEditOf("update") EXCEPT !.priority = 8, !.maxCredits = 70],
   NoEditOf("delete"), [NoEditOf("reset") EXCEPT !.key = 2]}

Counts(n) == [c \in Components |-> IF c \in DOMAIN n THEN n[c] ELSE 0]
TestReports ==
  {Counts([input_tokens |-> 2, output_tokens |-> 3, cached_input_tokens |-> 1, reasoning_tokens |-> 1,
           image_output_tokens |-> 3]),
   Counts([input_tokens |-> 1, output_tokens |-> 2, tool_use_prompt_tokens |-> 1, image_input_tokens |-> 1]),
   Counts([reasoning_tokens |-> 1])}

Ask(api, model) ==
  [api |-> api, model |-> model, dtype |-> "", quant |-> "", components |-> "", lora |-> "", vram |-> -1,
   prompt |-> 2, completion |-> 3, image |-> [count |-> 1, width |-> 2, height |-> 1, steps |-> 2],
   tools |-> NoTools, timeoutValid |-> TRUE, stream |-> FALSE, includeUsage |-> FALSE, key |-> 1]

Tools(choice) == [NoTools EXCEPT !.declared = {"f"}, !.choice = choice]

TestAsks ==
  {Ask("chat", "qwen"), [Ask("responses", "qwen") EXCEPT !.dtype = "bfloat16", !.completion = 1, !.timeoutValid = FALSE],
   [Ask("raw_llm", "qwen") EXCEPT !.dtype = "bfloat16", !.quant = "int4"],
   [Ask("completions", "other") EXCEPT !.vram = 0], [Ask("images", "sdxl") EXCEPT !.dtype = "auto"],
   [Ask("raw_image", "sdxl") EXCEPT !.dtype = "float16", !.image.steps = 0],
   Ask("chat", "claude"), [Ask("responses", "gpt") EXCEPT !.completion = 1], Ask("images", "dalle"),
   Ask("completions", "gpt"), [Ask("chat", "gemini") EXCEPT !.key = 2]}
  \cup {[Ask("chat", m) EXCEPT !.stream = TRUE, !.includeUsage = TRUE] : m \in {"gpt", "claude", "gemini"}}
  \cup {[Ask("responses", "claude") EXCEPT !.stream = TRUE]}
  \cup {[Ask("chat", "qwen") EXCEPT !.stream = TRUE, !.includeUsage = TRUE, !.tools = Tools("omitted")],
        [Ask("chat", "qwen") EXCEPT !.stream = TRUE, !.tools = Tools("f")],
        [Ask("chat", "qwen") EXCEPT !.tools = Tools("none")],
        [Ask("responses", "qwen") EXCEPT !.tools = Tools("required")],
        [Ask("responses", "qwen") EXCEPT !.tools = [Tools("auto") EXCEPT !.json = TRUE]],
        [Ask("responses", "qwen") EXCEPT !.tools.choice = "required"],
        [Ask("completions", "qwen") EXCEPT !.stream = TRUE], [Ask("responses", "qwen") EXCEPT !.stream = TRUE]}

\* Texts with a thought, with calls of f (declared) and g (made up) in five formats, and bare arguments.
Segment(kind, data) == [kind |-> kind, data |-> <<data>>, format |-> "", calls |-> <<>>]
Section(format, names) ==
  [kind |-> "calls", data |-> <<format>>, format |-> format,
   calls |-> [i \in DOMAIN names |-> [name |-> names[i], args |-> <<names[i]>>]]]
Answer(content, finish, prompt, completion) ==
  [content |-> content, finish |-> finish, prompt |-> prompt, completion |-> completion]
TestAnswers ==
  {Answer(<<Segment("text", "a"), Segment("endthink", "t"), Segment("text", "b"), Segment("text", "c")>>, "stop", 2, 3),
   Answer(<<Segment("text", "a"), Section("tagged", <<"f">>), Segment("text", "b"), Section("tagged", <<"g">>),
            Section("llama", <<"f">>)>>, "length", 2, 3),
   Answer(<<Section("kimi", <<"f", "g", "f">>), Section("kimi", <<"f">>), Segment("text", "a")>>, "length", 1, 2),
   Answer(<<Section("dsml", <<"g", "f">>), Segment("text", "b")>>, "stop", 0, 3),
   Answer(<<Segment("opening", "r"), Segment("text", "a"), Segment("closing", "r"), Section("kimi_k3", <<"f", "g">>),
            Segment("closing", "m")>>, "stop", 2, 3),
   Answer(<<Section("llama", <<"g">>)>>, "stop", 2, 1),
   Answer(<<Segment("object", "o")>>, "", 2, 0), Answer(<<>>, "length", 1, 1)}

\* Streams of Google, for the run about calls without ids.
GoogleAsks == {a \in TestAsks : a.stream /\ a.model = "gemini"}
=============================================================================
