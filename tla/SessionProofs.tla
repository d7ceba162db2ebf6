---------------------------- MODULE SessionProofs ----------------------------
(***************************************************************************)
(* The components of MCSessions.  One relayed request (Session): what its  *)
(* client is sent, what it is billed, and what becomes of the quota it     *)
(* reserved, for any number of lines, tries and pings.  Realtime sessions  *)
(* (Realtime), for any number of them.  The conversion of a stream         *)
(* (ResponsesStream), for any number of choices.                           *)
(***************************************************************************)
EXTENDS MCSessions, SequenceTheorems, FiniteSums

\* After Stop the heartbeat has at most the one write before it that had
\* looked already.
BeatKept ==
    /\ late \in {0, 1}
    /\ late = 1 => stopped /\ beat \notin {"header", "ping"}

Items == {"data", "error", "usage", "done", "body", "part", "streamError", "jsonError"}

OnlyData(w) == \A i \in DOMAIN w : w[i] = "data"

\* What the client was sent at each stage.
WireKept ==
    /\ wire \in Seq(Items)
    /\ req \in {"set", "reserve", "send", "stop"} => wire = <<>> /\ responder = "none"
    /\ handler = Ses!NoHandler => responder = "none"
    /\ responder = "none" => reader = "none" /\ ~delivered
    /\ req = "respond" /\ responder = "none" => wire = <<>>
    /\ responder = "select" => req = "respond" /\ OnlyData(wire)
    /\ responder = "ended" => req \in {"respond", "end"}
    /\ responder \in {"none", "select", "ended"}
    /\ req \in {"error", "safeWrite"} =>
          /\ responder = "none"
          /\ wire \in {<<>>, <<"part">>}
    /\ handler # Ses!NoHandler => \A i \in DOMAIN wire : wire[i] # "body"
    /\ Ses!OneEnding

\* The reservation at each stage.
ReserveKept ==
    /\ ep.billing = "never" => billed # "open" /\ req # "reserve"
    /\ req \in {"set", "error", "safeWrite"} => billed # "open"
    /\ Ses!ReservationSettled

\* What an answer that is sent as a body left in usage.
Counts(how, answer, u) ==
    answer \in Ses!Content =>
        /\ how \in {"reportOrCount", "count"} => u.tokens \/ u.text
        /\ answer = "full" \/ how \notin Ses!Trusting => u.prompt \/ u.tokens \/ u.text

BodyKept ==
    handler = Ses!NoHandler =>
        /\ ep.billing = "never" => billed = "none"
        /\ req \in {"set", "reserve", "send"} => usage = Ses!FreshUsage
        /\ req \in {"stop", "respond"} =>
              /\ Counts(body.how, body.answer, usage)
              /\ ep.billing = "never" => body.how = "prompt"

\* The handler has the text of the line still before it.
TextAhead == \E i \in DOMAIN ops : ops[i] = "text"

Counted == usage.text \/ usage.tokens

\* The text of a chunk is counted before the handler is done with its line,
\* and what was counted is replaced by the upstream's counts only.
TextKept ==
    /\ ops \in Seq(Ses!Ops)
    /\ handler \in DOMAIN Ses!StreamHandler \cup {Ses!NoHandler}
    /\ handler \notin Ses!ReportOnly =>
          /\ reader = "handle" =>
                /\ line = "chunk" => /\ \A i \in DOMAIN ops : ops[i] \in {"data", "text"}
                                     /\ TextAhead \/ Counted
                /\ line \notin {"usage", "stop"} => \A i \in DOMAIN ops : ops[i] \notin {"usage", "replace"}
          /\ delivered => Counted \/ (reader = "handle" /\ line = "chunk" /\ TextAhead /\ responder = "select")

\* Ses!DeliveredIsBilled is both.
TextBilled == req = "end" /\ delivered /\ handler \notin Ses!ReportOnly => billed = "tokens"

BodyBilled ==
    req = "end" /\ body.answer \in Ses!Content /\ "body" \in Ses!Range(wire) =>
        /\ body.how \in {"reportOrCount", "count"} => billed = "tokens"
        /\ body.answer = "full" \/ body.how \notin Ses!Trusting => billed # "nothing"

UsageType == [prompt : BOOLEAN, tokens : BOOLEAN, text : BOOLEAN]

SesInv ==
    /\ ep \in Ses!Endpoints /\ usage \in UsageType
    /\ BeatKept /\ WireKept /\ ReserveKept /\ BodyKept /\ TextKept /\ TextBilled /\ BodyBilled

-----------------------------------------------------------------------------
(* The tables of the handlers and of the calls. *)

\* What the handlers that collect the text make of a chunk.
ChunkOps == {<<"data", "text">>, <<"text", "data">>, <<"data", "text", "data", "data">>}

\* A handler that collects text does so for every chunk, and lets the
\* upstream's counts replace it only on the lines that have them.
Collects(h) ==
    /\ h["chunk"] \in ChunkOps
    /\ \A kind \in Ses!Kinds \ {"usage", "stop"} : \A i \in DOMAIN h[kind] : h[kind][i] \notin {"usage", "replace"}

\* The handlers of chats that collect text (StreamHandlers, ChatHandlers).
LEMMA ChatCollects ==
    ASSUME NEW h \in DOMAIN Ses!ChatHandlers \ Ses!ReportOnly
    PROVE  Collects(Ses!ChatHandlers[h])
<1> USE DEF Collects, ChunkOps, Ses!Kinds, Ses!Err, Ses!ConvertOpenaiStream
<1>1. Collects(Ses!PalmHandler)
  BY DEF Ses!PalmHandler
<1>2. Collects(Ses!CozeHandler)
  BY DEF Ses!CozeHandler
<1>3. Collects(Ses!GeminiHandler)
  BY DEF Ses!GeminiHandler
<1>4. Collects(Ses!ClaudeHandler)
  BY DEF Ses!ClaudeHandler
<1>5. Collects(Ses!CloudflareAIHandler)
  BY DEF Ses!CloudflareAIHandler
<1>6. Collects(Ses!TencentHandler)
  BY DEF Ses!TencentHandler
<1>7. Collects(Ses!OpenAIChatHandler)
  BY DEF Ses!OpenAIChatHandler
<1>8. Collects(Ses!OpenAIResponsesChatHandler)
  BY DEF Ses!OpenAIResponsesChatHandler
<1>9. Collects(Ses!ZhipuHandler)
  BY DEF Ses!ZhipuHandler
<1>10. Collects(Ses!CohereHandler)
  BY DEF Ses!CohereHandler
<1> HIDE DEF Collects
<1> QED
  BY <1>1, <1>2, <1>3, <1>4, <1>5, <1>6, <1>7, <1>8, <1>9, <1>10 DEF Ses!ChatHandlers, Ses!ReportOnly

\* Those of the endpoints that are passed on in their own format.
LEMMA RelayCollects ==
    ASSUME NEW h \in DOMAIN Ses!RelayHandlers
    PROVE  Collects(Ses!RelayHandlers[h])
<1> USE DEF Collects, ChunkOps, Ses!Kinds, Ses!Err
<1>1. Collects(Ses!OpenAICompletionHandler)
  BY DEF Ses!OpenAICompletionHandler
<1>2. Collects(Ses!ClaudeRelayHandler)
  BY DEF Ses!ClaudeRelayHandler
<1>3. Collects(Ses!BedrockRelayHandler)
  BY DEF Ses!BedrockRelayHandler
<1>4. Collects(Ses!GeminiRelayHandler)
  BY DEF Ses!GeminiRelayHandler
<1>5. Collects(Ses!OpenAIResponsesHandler)
  BY DEF Ses!OpenAIResponsesHandler
<1> HIDE DEF Collects
<1> QED
  BY <1>1, <1>2, <1>3, <1>4, <1>5 DEF Ses!RelayHandlers

\* Every handler that collects text does so for every chunk.
LEMMA HandlerCollects ==
    ASSUME NEW h \in DOMAIN Ses!StreamHandler \ Ses!ReportOnly
    PROVE  Collects(Ses!StreamHandler[h])
<1>1. CASE h \in DOMAIN Ses!ChatHandlers
  BY <1>1, ChatCollects DEF Ses!StreamHandler
<1>2. CASE h \notin DOMAIN Ses!ChatHandlers
  <2>1. h \in DOMAIN Ses!RelayHandlers
    BY <1>2 DEF Ses!StreamHandler
  <2> QED BY <1>2, <2>1, RelayCollects DEF Ses!StreamHandler
<1> QED BY <1>1, <1>2

\* The effects of a line are a sequence of effects.
Handles(h) == \A kind \in Ses!Kinds : h[kind] \in Seq(Ses!Ops)

\* Each chat handler answers a line with a sequence of effects.
LEMMA ChatHandles ==
    ASSUME NEW h \in DOMAIN Ses!ChatHandlers
    PROVE  Handles(Ses!ChatHandlers[h])
<1> USE DEF Handles, Ses!Ops, Ses!Kinds, Ses!Err, Ses!ConvertOpenaiStream
<1>1. Handles(Ses!BaiduHandler) /\ Handles(Ses!OllamaHandler) /\ Handles(Ses!HunyuanHandler)
  BY DEF Ses!BaiduHandler, Ses!OllamaHandler, Ses!HunyuanHandler
<1>2. Handles(Ses!AliHandler) /\ Handles(Ses!PalmHandler) /\ Handles(Ses!CozeHandler)
  BY DEF Ses!AliHandler, Ses!PalmHandler, Ses!CozeHandler
<1>3. Handles(Ses!GeminiHandler) /\ Handles(Ses!ClaudeHandler) /\ Handles(Ses!ReplicateHandler)
  BY DEF Ses!GeminiHandler, Ses!ClaudeHandler, Ses!ReplicateHandler
<1>4. Handles(Ses!CloudflareAIHandler) /\ Handles(Ses!TencentHandler) /\ Handles(Ses!AzureDatabricksHandler)
  BY DEF Ses!CloudflareAIHandler, Ses!TencentHandler, Ses!AzureDatabricksHandler
<1>5. Handles(Ses!XunfeiHandler) /\ Handles(Ses!OpenAIChatHandler) /\ Handles(Ses!OpenAIResponsesChatHandler)
  BY DEF Ses!XunfeiHandler, Ses!OpenAIChatHandler, Ses!OpenAIResponsesChatHandler
<1>6. Handles(Ses!ZhipuHandler) /\ Handles(Ses!CohereHandler)
  BY DEF Ses!ZhipuHandler, Ses!CohereHandler
<1> HIDE DEF Handles
<1> QED
  BY <1>1, <1>2, <1>3, <1>4, <1>5, <1>6 DEF Ses!ChatHandlers

\* So does every handler of the table.
LEMMA HandlerHandles ==
    ASSUME NEW h \in DOMAIN Ses!StreamHandler
    PROVE  Handles(Ses!StreamHandler[h])
<1>1. ASSUME NEW r \in DOMAIN Ses!RelayHandlers PROVE Handles(Ses!RelayHandlers[r])
  <2> USE DEF Handles, Ses!Ops, Ses!Kinds, Ses!Err
  <2>1. Handles(Ses!OpenAICompletionHandler) /\ Handles(Ses!ClaudeRelayHandler)
    BY DEF Ses!OpenAICompletionHandler, Ses!ClaudeRelayHandler
  <2>2. Handles(Ses!BedrockRelayHandler)
    <3>1. /\ <<>> \in Seq(Ses!Ops) /\ <<"data">> \in Seq(Ses!Ops) /\ <<"err">> \in Seq(Ses!Ops)
          /\ <<"data", "err">> \in Seq(Ses!Ops) /\ <<"data", "data", "data">> \in Seq(Ses!Ops)
      OBVIOUS
    <3>2. <<"data", "text", "data", "data">> \in Seq(Ses!Ops) /\ <<"data", "usage", "data", "data">> \in Seq(Ses!Ops)
      OBVIOUS
    <3> DEFINE b == Ses!BedrockRelayHandler
    <3>3. /\ b["noise"] = <<"data">> /\ b["garbled"] = <<"err">> /\ b["failure"] = <<"data", "err">>
          /\ b["empty"] = <<"data", "data", "data">> /\ b["tool"] = <<"data", "data", "data">>
          /\ b["stop"] = <<"data", "data", "data">> /\ b["chunk"] = <<"data", "text", "data", "data">>
          /\ b["usage"] = <<"data", "usage", "data", "data">>
      BY Zenon DEF Ses!BedrockRelayHandler
    <3> HIDE DEF b, Ses!Ops
    <3>4. \A kind \in Ses!Kinds : b[kind] \in Seq(Ses!Ops)
      BY <3>1, <3>2, <3>3, Zenon
    <3> QED BY <3>4 DEF b
  <2>3. Handles(Ses!GeminiRelayHandler) /\ Handles(Ses!OpenAIResponsesHandler)
    BY DEF Ses!GeminiRelayHandler, Ses!OpenAIResponsesHandler
  <2> HIDE DEF Handles
  <2> QED BY <1>1, <2>1, <2>2, <2>3 DEF Ses!RelayHandlers
<1>2. CASE h \in DOMAIN Ses!ChatHandlers
  BY <1>2, ChatHandles DEF Ses!StreamHandler
<1>3. CASE h \notin DOMAIN Ses!ChatHandlers
  <2>1. h \in DOMAIN Ses!RelayHandlers
    BY <1>3 DEF Ses!StreamHandler
  <2> QED BY <1>1, <1>3, <2>1 DEF Ses!StreamHandler
<1> QED BY <1>2, <1>3

Steps == {"prepare", "credential", "send", "poll", "check", "content"}
Hows == {"report", "deref", "reportIf", "reportSome", "reportOrCount", "reportElse", "count", "prompt"}

\* A call takes its steps and then settles usage, once.
IsCall(call) ==
    /\ call \in Seq(Steps \cup Hows) /\ Len(call) > 0
    /\ call[Len(call)] \in Hows
    /\ \A i \in 1..(Len(call) - 1) : call[i] \in Steps

\* Steps before a call make a call.
LEMMA Prefixed ==
    ASSUME NEW p \in Seq(Steps), NEW call, IsCall(call)
    PROVE  IsCall(p \o call)
<1> DEFINE q == p \o call
<1>1. p \in Seq(Steps \cup Hows) /\ \A i \in 1..Len(p) : p[i] \in Steps
  <2>1. \A i \in 1..Len(p) : p[i] \in Steps
    OBVIOUS
  <2>2. p \in Seq(Steps \cup Hows)
    BY SeqMonotonic
  <2> QED BY <2>1, <2>2
<1>2. q \in Seq(Steps \cup Hows)
  BY <1>1 DEF IsCall
<1>3. /\ Len(q) = Len(p) + Len(call) /\ Len(p) \in Nat /\ Len(call) \in Nat /\ Len(call) > 0
      /\ \A i \in 1..Len(q) : q[i] = IF i <= Len(p) THEN p[i] ELSE call[i - Len(p)]
  BY DEF IsCall
<1> HIDE DEF q
<1>4. q[Len(q)] = call[Len(call)]
  BY <1>3
<1>5. ASSUME NEW i \in 1..(Len(q) - 1) PROVE q[i] \in Steps
  BY <1>1, <1>3 DEF IsCall
<1>6. IsCall(q)
  BY <1>2, <1>3, <1>4, <1>5 DEF IsCall
<1> QED BY <1>6 DEF q

\* A call is steps and one way of settling usage, its last element.
LEMMA Ends ==
    ASSUME NEW p \in Seq(Steps), NEW how \in Hows
    PROVE  IsCall(p \o <<how>>) /\ (p \o <<how>>)[Len(p \o <<how>>)] = how
<1>1. IsCall(<<how>>)
  BY DEF IsCall
<1>2. (p \o <<how>>)[Len(p \o <<how>>)] = how
  OBVIOUS
<1> QED BY <1>1, <1>2, Prefixed

\* The same for a call that checks its answer between the two.
LEMMA EndsChecked ==
    ASSUME NEW p \in Seq(Steps), NEW s \in Steps, NEW how \in Hows
    PROVE  IsCall(p \o <<s, how>>)
<1>1. IsCall(<<s, how>>)
  BY DEF IsCall
<1> QED BY <1>1, Prefixed

\* A call without a report in the answer panics only where the report is
\* followed as a pointer.
LEMMA PanicsByDeref ==
    ASSUME NEW call, IsCall(call), NEW answer, Ses!Returns(call, answer) = "panic"
    PROVE  Ses!How(call) = "deref" /\ answer \in Ses!Unreported
<1>1. answer \in Ses!Unreported /\ \E i \in 1..Len(call) : call[i] = "deref"
  BY DEF Ses!Returns, Ses!Contains
<1>2. PICK i \in 1..Len(call) : call[i] = "deref"
  BY <1>1
<1>3. i = Len(call)
  BY <1>2 DEF IsCall, Steps
<1> QED BY <1>1, <1>2, <1>3 DEF Ses!How, Ses!Last

\* The requests of the providers are steps only.
LEMMA Providers ==
    /\ Ses!OpenAIProvider \in Seq(Steps) /\ Ses!BaiduProvider \in Seq(Steps)
    /\ Ses!VertexAIProvider \in Seq(Steps) /\ Ses!XunfeiProvider \in Seq(Steps)
    /\ Ses!ZhipuProvider \in Seq(Steps)
    /\ Ses!AliProvider \in Seq(Steps)
<1>1. /\ <<"prepare">> \in Seq(Steps) /\ <<"send">> \in Seq(Steps)
      /\ <<"credential", "prepare">> \in Seq(Steps) /\ <<"prepare", "send">> \in Seq(Steps)
  BY DEF Steps
<1> QED
  BY <1>1 DEF Ses!OpenAIProvider, Ses!BaiduProvider, Ses!VertexAIProvider, Ses!XunfeiProvider,
       Ses!ZhipuProvider, Ses!AliProvider, Ses!OpenAIRequest, Ses!SendRequest

\* Steps and ways of settling, as facts that are cited where calls are built.
LEMMA Prepared ==
    /\ <<"prepare">> \in Seq(Steps) /\ <<"poll">> \in Seq(Steps) /\ <<"content">> \in Seq(Steps)
    /\ "check" \in Steps /\ "content" \in Steps /\ "poll" \in Steps
    /\ Hows = {"report", "deref", "reportIf", "reportSome", "reportOrCount", "reportElse", "count", "prompt"}
BY DEF Steps, Hows

\* Every call of the chat interface is a call.
LEMMA ChatCallsAre == \A call \in Ses!ChatCalls : IsCall(call)
<1> USE Prepared, Providers, Ends, EndsChecked
<1>1. IsCall(Ses!OpenAIChat) /\ IsCall(Ses!MiniMaxChat)
  BY DEF Ses!OpenAIChat, Ses!MiniMaxChat, Ses!OpenAIAnswer
<1>11. ASSUME NEW call \in Ses!InheritedChats PROVE IsCall(call)
  <2> HIDE Prepared, Providers, Ends, EndsChecked
  <2>1. call = Ses!OpenAIProvider \o Ses!OpenAIAnswer
    BY <1>11, Zenon DEF Ses!InheritedChats, Ses!AzureProvider, Ses!AzureV1Provider, Ses!DeepseekProvider,
       Ses!GithubProvider, Ses!LingyiProvider, Ses!MistralProvider, Ses!XAIProvider
  <2>2. Ses!OpenAIProvider \in Seq(Steps) /\ "check" \in Steps /\ "reportOrCount" \in Hows
    BY Prepared, Providers
  <2>3. IsCall(Ses!OpenAIProvider \o <<"check", "reportOrCount">>)
    BY <2>2, EndsChecked
  <2> QED BY <2>1, <2>3 DEF Ses!OpenAIAnswer
<1>2. IsCall(Ses!AliChat) /\ IsCall(Ses!OllamaChat) /\ IsCall(Ses!HunyuanChat) /\ IsCall(Ses!PalmChat)
  BY DEF Ses!AliChat, Ses!OllamaChat, Ses!HunyuanChat, Ses!PalmChat, Ses!AliProvider,
         Ses!OllamaProvider, Ses!HunyuanProvider, Ses!PalmProvider
<1>3. IsCall(Ses!CozeChat) /\ IsCall(Ses!TencentChat) /\ IsCall(Ses!CloudflareAIChat)
      /\ IsCall(Ses!CohereChat) /\ IsCall(Ses!AzureDatabricksChat)
  BY DEF Ses!CozeChat, Ses!TencentChat, Ses!CloudflareAIChat, Ses!CohereChat, Ses!AzureDatabricksChat,
         Ses!CozeProvider, Ses!TencentProvider, Ses!CloudflareAIProvider, Ses!CohereProvider,
         Ses!AzureDatabricksProvider, Ses!AliProvider
<1>4. IsCall(Ses!BaiduChat) /\ IsCall(Ses!XunfeiChat)
  BY DEF Ses!BaiduChat, Ses!XunfeiChat
<1>5. IsCall(Ses!OpenRouterChat) /\ IsCall(Ses!BaichuanChat) /\ IsCall(Ses!GroqChat) /\ IsCall(Ses!MoonshotChat)
  BY DEF Ses!OpenRouterChat, Ses!BaichuanChat, Ses!GroqChat, Ses!MoonshotChat, Ses!OpenRouterProvider,
         Ses!BaichuanProvider, Ses!GroqProvider, Ses!MoonshotProvider
<1>6. /\ <<"prepare">> \o Ses!AliProvider \in Seq(Steps)
      /\ <<"prepare">> \o Ses!VertexAIProvider \in Seq(Steps)
      /\ <<"prepare">> \o Ses!ZhipuProvider \in Seq(Steps)
      /\ Ses!AliProvider \o <<"poll">> \in Seq(Steps)
  OBVIOUS
<1>7. IsCall(Ses!ClaudeChat) /\ IsCall(Ses!BedrockChat) /\ IsCall(Ses!VertexAIClaude)
  BY <1>6 DEF Ses!ClaudeChat, Ses!BedrockChat, Ses!VertexAIClaude, Ses!ClaudeConvert, Ses!ClaudeAnswer,
         Ses!ClaudeProvider, Ses!BedrockProvider, Ses!AliProvider
<1>8. IsCall(Ses!ZhipuChat) /\ IsCall(Ses!ReplicateChat)
  BY <1>6 DEF Ses!ZhipuChat, Ses!ZhipuConvert, Ses!ReplicateChat, Ses!ReplicateProvider, Ses!Prediction,
         Ses!AliProvider
<1>9. IsCall(Ses!OpenAIResponsesChat)
  BY Prefixed DEF Ses!OpenAIResponsesChat, Ses!ToResponsesRequest, Ses!OpenAIResponses
<1>10. IsCall(Ses!GeminiChat) /\ IsCall(Ses!VertexAIGemini)
  <2>1. IsCall(Ses!GeminiAnswer)
    BY DEF Ses!GeminiAnswer, Ses!GeminiChoice
  <2>2. Ses!GeminiConvert \in Seq(Steps)
    BY DEF Ses!GeminiConvert, Ses!GeminiContents
  <2>3. Ses!GeminiConvert \o Ses!GeminiProvider \in Seq(Steps) /\ Ses!GeminiConvert \o Ses!VertexAIProvider \in Seq(Steps)
    BY <2>2 DEF Ses!GeminiProvider, Ses!AliProvider
  <2> QED BY <2>1, <2>3, Prefixed DEF Ses!GeminiChat, Ses!VertexAIGemini
<1> SUFFICES ASSUME NEW call \in Ses!ChatCalls, call \notin Ses!InheritedChats PROVE IsCall(call)
  BY <1>11
<1> HIDE Prepared, Providers, Ends, EndsChecked
<1> QED
  BY <1>1, <1>2, <1>3, <1>4, <1>5, <1>7, <1>8, <1>9, <1>10 DEF Ses!ChatCalls

\* The calls of the other interfaces.
LEMMA OtherCallsAre ==
    /\ \A call \in Ses!CompatCalls : IsCall(call)
    /\ \A call \in Ses!EmbeddingsCalls : IsCall(call)
    /\ \A call \in Ses!RerankCalls : IsCall(call)
    /\ \A call \in Ses!ImageCalls : IsCall(call)
    /\ \A call \in Ses!SpeechCalls : IsCall(call)
    /\ \A call \in Ses!TranscriptionCalls : IsCall(call)
<1> USE Prepared, Providers, Ends, EndsChecked
<1>1. ASSUME NEW call \in Ses!CompatCalls PROVE IsCall(call)
  <2>1. PICK chat \in Ses!ChatCalls : call = <<"prepare">> \o chat
    BY <1>1, Zenon DEF Ses!CompatCalls, Ses!ToChatCompletionRequest
  <2> QED BY <2>1, Prefixed, ChatCallsAre
<1>2. \A call \in Ses!EmbeddingsCalls : IsCall(call)
  <2>1. IsCall(Ses!OpenAIEmbeddings) /\ IsCall(Ses!AliEmbeddings) /\ IsCall(Ses!BaiduEmbeddings)
        /\ IsCall(Ses!OllamaEmbeddings) /\ IsCall(Ses!ZhipuEmbeddings)
    BY DEF Ses!OpenAIEmbeddings, Ses!AliEmbeddings, Ses!BaiduEmbeddings, Ses!OllamaEmbeddings,
           Ses!ZhipuEmbeddings, Ses!OllamaProvider, Ses!AliProvider
  <2> HIDE Prepared, Providers, Ends, EndsChecked
  <2> QED BY <2>1 DEF Ses!EmbeddingsCalls
<1>3. \A call \in Ses!RerankCalls : IsCall(call)
  <2>1. IsCall(Ses!JinaRerank) /\ IsCall(Ses!CohereRerank) /\ IsCall(Ses!SiliconflowRerank)
    BY DEF Ses!JinaRerank, Ses!CohereRerank, Ses!SiliconflowRerank, Ses!JinaProvider,
           Ses!CohereProvider, Ses!SiliconflowProvider, Ses!AliProvider
  <2> HIDE Prepared, Providers, Ends, EndsChecked
  <2> QED BY <2>1, Zenon DEF Ses!RerankCalls
<1>4. \A call \in Ses!ImageCalls : IsCall(call)
  <2>1. IsCall(Ses!OpenAIImage) /\ IsCall(Ses!AzureImage) /\ IsCall(Ses!AzureImageJob)
    <3>1. IsCall(Ses!OpenAIImage) /\ IsCall(Ses!AzureImage)
      BY DEF Ses!OpenAIImage, Ses!AzureImage, Ses!AzureProvider
    <3>2. IsCall(Ses!AzureImageJob)
      BY DEF Ses!AzureImageJob, Ses!AzureProvider
    <3> QED BY <3>1, <3>2
  <2>2. IsCall(Ses!CloudflareAIImage) /\ IsCall(Ses!GeminiImage) /\ IsCall(Ses!VertexAIImage) /\ IsCall(Ses!ZhipuImage)
    BY DEF Ses!CloudflareAIImage, Ses!GeminiImage, Ses!VertexAIImage, Ses!ZhipuImage,
           Ses!CloudflareAIProvider, Ses!GeminiProvider, Ses!AliProvider
  <2>3. Ses!AliProvider \o <<"poll">> \in Seq(Steps)
    OBVIOUS
  <2>4. IsCall(Ses!SiliconflowImage) /\ IsCall(Ses!ReplicateImage) /\ IsCall(Ses!RecraftAIImage)
        /\ IsCall(Ses!StabilityAIImage)
    BY <2>3 DEF Ses!SiliconflowImage, Ses!ReplicateImage, Ses!RecraftAIImage, Ses!StabilityAIImage,
           Ses!SiliconflowProvider, Ses!ReplicateProvider, Ses!RecraftProvider, Ses!StabilityAIProvider,
           Ses!Prediction, Ses!AliProvider
  <2> HIDE Prepared, Providers, Ends, EndsChecked
  <2> QED BY <2>1, <2>2, <2>4 DEF Ses!ImageCalls
<1>5. \A call \in Ses!SpeechCalls : IsCall(call)
  <2>1. IsCall(Ses!OpenAISpeech) /\ IsCall(Ses!MiniMaxSpeech) /\ IsCall(Ses!AzureSpeech)
    <3>1. IsCall(Ses!OpenAISpeech)
      BY DEF Ses!OpenAISpeech
    <3>2. IsCall(Ses!MiniMaxSpeech)
      BY DEF Ses!MiniMaxSpeech, Ses!MiniMaxProvider, Ses!AliProvider
    <3>3. IsCall(Ses!AzureSpeech)
      BY DEF Ses!AzureSpeech, Ses!AzureSpeechProvider, Ses!AliProvider
    <3> QED BY <3>1, <3>2, <3>3
  <2> HIDE Prepared, Providers, Ends, EndsChecked
  <2> QED BY <2>1, Zenon DEF Ses!SpeechCalls
<1>6. \A call \in Ses!TranscriptionCalls : IsCall(call)
  <2>1. IsCall(Ses!OpenAITranscription) /\ IsCall(Ses!CloudflareAITranscription)
    <3>1. IsCall(Ses!OpenAITranscription)
      BY DEF Ses!OpenAITranscription, Ses!AudioForm, Ses!AliProvider
    <3>2. IsCall(Ses!CloudflareAITranscription)
      BY DEF Ses!CloudflareAITranscription, Ses!CloudflareAIProvider, Ses!AliProvider
    <3> QED BY <3>1, <3>2
  <2> HIDE Prepared, Providers, Ends, EndsChecked
  <2> QED BY <2>1, Zenon DEF Ses!TranscriptionCalls
<1> QED BY <1>1, <1>2, <1>3, <1>4, <1>5, <1>6

\* The calls that are their endpoint's only one, or one of three.
LEMMA SingleCallsAre ==
    /\ IsCall(Ses!OpenAICompletion) /\ IsCall(Ses!ClaudeRelay) /\ IsCall(Ses!BedrockRelay)
    /\ IsCall(Ses!VertexAIClaudeRelay) /\ IsCall(Ses!GeminiRelay) /\ IsCall(Ses!VertexAIGeminiRelay)
    /\ IsCall(Ses!OpenAIResponses) /\ IsCall(Ses!OpenAIModeration) /\ IsCall(Ses!OpenAIImageEdits)
    /\ IsCall(Ses!OpenAIImageVariations) /\ IsCall(Ses!OpenAITranslation) /\ IsCall(Ses!RecraftAIRelay)
    /\ IsCall(Ses!OpenAIRelay) /\ Ses!How(Ses!OpenAIRelay) = "prompt"
<1> USE Prepared, Providers, Ends, EndsChecked
<1>1. IsCall(Ses!OpenAICompletion) /\ IsCall(Ses!OpenAIResponses) /\ IsCall(Ses!OpenAIModeration)
      /\ IsCall(Ses!OpenAIImageEdits) /\ IsCall(Ses!OpenAIImageVariations)
  BY DEF Ses!OpenAICompletion, Ses!OpenAIResponses, Ses!OpenAIModeration, Ses!OpenAIImageEdits,
         Ses!OpenAIImageVariations
<1>2. IsCall(Ses!ClaudeRelay) /\ IsCall(Ses!BedrockRelay) /\ IsCall(Ses!VertexAIClaudeRelay)
      /\ IsCall(Ses!GeminiRelay) /\ IsCall(Ses!VertexAIGeminiRelay)
  BY DEF Ses!ClaudeRelay, Ses!BedrockRelay, Ses!VertexAIClaudeRelay, Ses!GeminiRelay,
         Ses!VertexAIGeminiRelay, Ses!ClaudeProvider, Ses!BedrockProvider, Ses!GeminiProvider, Ses!AliProvider
<1>3. IsCall(Ses!OpenAITranslation) /\ IsCall(Ses!RecraftAIRelay)
  BY DEF Ses!OpenAITranslation, Ses!AudioForm, Ses!RecraftAIRelay, Ses!RecraftProvider, Ses!AliProvider
<1>4. IsCall(Ses!OpenAIRelay) /\ Ses!How(Ses!OpenAIRelay) = "prompt"
  BY DEF Ses!OpenAIRelay, Ses!How, Ses!Last
<1> QED BY <1>1, <1>2, <1>3, <1>4

-----------------------------------------------------------------------------
(* The endpoints. *)

\* An endpoint streams with handlers of the table and answers with calls;
\* the paths that are passed on are never billed and count nothing.
EndpointIs(e) ==
    /\ e.handlers \subseteq DOMAIN Ses!StreamHandler
    /\ \A call \in e.calls : IsCall(call)
    /\ e.billing = "never" =>
          /\ e.lacking = "set" /\ e.safe = FALSE /\ e.json # "copy"
          /\ \A call \in e.calls : Ses!How(call) = "prompt"

\* Every endpoint of the table (relay/main.go and its send functions) is as
\* EndpointIs says.
LEMMA EndpointsAre == \A e \in Ses!Endpoints : EndpointIs(e)
<1> USE DEF Ses!Endpoint, Ses!Plain
<1>1. /\ DOMAIN Ses!ChatHandlers \subseteq DOMAIN Ses!StreamHandler
      /\ DOMAIN Ses!RelayHandlers \subseteq DOMAIN Ses!StreamHandler
  BY Zenon DEF Ses!StreamHandler
<1>2. {"completion", "claudeRelay", "bedrockRelay", "geminiRelay", "responses"} \subseteq DOMAIN Ses!RelayHandlers
  BY DEF Ses!RelayHandlers
<1>3. EndpointIs(Ses!RelayChat) /\ EndpointIs(Ses!RelayResponsesCompat)
  BY <1>1, ChatCallsAre, OtherCallsAre DEF EndpointIs, Ses!RelayChat, Ses!RelayResponsesCompat
<1>4. EndpointIs(Ses!RelayCompletions) /\ EndpointIs(Ses!RelayClaude)
  BY <1>1, <1>2, SingleCallsAre DEF EndpointIs, Ses!RelayCompletions, Ses!RelayClaude
<1>5. EndpointIs(Ses!RelayGemini) /\ EndpointIs(Ses!RelayResponses)
  BY <1>1, <1>2, SingleCallsAre DEF EndpointIs, Ses!RelayGemini, Ses!RelayResponses
<1>6. EndpointIs(Ses!RelayEmbeddings) /\ EndpointIs(Ses!RelayRerank) /\ EndpointIs(Ses!RelayImageGenerations)
      /\ EndpointIs(Ses!RelaySpeech) /\ EndpointIs(Ses!RelayTranscriptions)
  BY OtherCallsAre DEF EndpointIs, Ses!RelayEmbeddings, Ses!RelayRerank, Ses!RelayImageGenerations,
     Ses!RelaySpeech, Ses!RelayTranscriptions
<1>7. EndpointIs(Ses!RelayModerations) /\ EndpointIs(Ses!RelayImageEdits)
      /\ EndpointIs(Ses!RelayImageVariations) /\ EndpointIs(Ses!RelayTranslations)
  BY SingleCallsAre DEF EndpointIs, Ses!RelayModerations, Ses!RelayImageEdits, Ses!RelayImageVariations,
     Ses!RelayTranslations
<1>8. EndpointIs(Ses!RelayRecraftAI)
  BY SingleCallsAre DEF EndpointIs, Ses!RelayRecraftAI
<1>9. EndpointIs(Ses!RelayOnly)
  BY SingleCallsAre DEF EndpointIs, Ses!RelayOnly
<1> QED
  BY <1>3, <1>4, <1>5, <1>6, <1>7, <1>8, <1>9 DEF Ses!Endpoints

-----------------------------------------------------------------------------
(* The steps of a request. *)

\* A request keeps its endpoint and its handler.
LEMMA RequestFixed == ASSUME Ses!SessionNext PROVE ep' = ep /\ handler' = handler
BY DEF Ses!SessionNext, Ses!Request, Ses!SetRequestFails, Ses!SetRequest, Ses!Reserve, Ses!SendRefused,
     Ses!SendNothing, Ses!SendFails, Ses!SendSucceeds, Ses!CallAnswered, Ses!Failed, Ses!StopHeartbeat, Ses!Recv,
     Ses!StreamSettled, Ses!RespondBody, Ses!ErrorStops, Ses!ErrorWrites, Ses!CloseHeartbeat,
     Ses!Reader, Ses!ReadLine, Ses!ReadEnds, Ses!HandlerReturns, Ses!HandlerStep, Ses!GiveUp,
     Ses!Responder, Ses!Forward, Ses!HandlerEOF, Ses!HandlerError, Ses!ReaderEOF, Ses!ReaderError, Ses!Ended,
     Ses!Beat, Ses!BeatCancelled, Ses!BeatClientGone, Ses!BeatFires, Ses!BeatWrites, Ses!ClientLeaves

\* Nobody but the heartbeat writes late, and Stop only ever sets stopped.
LEMMA BeatStep ==
    ASSUME BeatKept, Ses!SessionNext
    PROVE  BeatKept'
<1>1. ASSUME late' = late, stopped => stopped', beat' = beat \/ beat' \in {"off", "timer", "ended"} PROVE BeatKept'
  BY <1>1 DEF BeatKept
<1>2. CASE Ses!Request
  <2>1. ASSUME NEW call, NEW answer, Ses!CallAnswered(call, answer) PROVE UNCHANGED <<late, stopped, beat>>
    BY <2>1 DEF Ses!CallAnswered, Ses!Failed, Ses!beatVars
  <2>2. ASSUME Ses!SetRequestFails \/ Ses!Reserve \/ Ses!SendRefused \/ Ses!SendNothing \/ Ses!SendFails
               \/ Ses!SendSucceeds \/ Ses!Recv \/ Ses!StreamSettled \/ Ses!RespondBody \/ Ses!ErrorWrites
        PROVE  UNCHANGED <<late, stopped, beat>>
    BY <2>2 DEF Ses!SetRequestFails, Ses!Reserve, Ses!SendRefused, Ses!SendNothing, Ses!SendFails, Ses!Failed,
       Ses!SendSucceeds, Ses!Recv, Ses!StreamSettled, Ses!RespondBody, Ses!ErrorWrites, Ses!beatVars
  <2>3. ASSUME Ses!SetRequest PROVE late' = late /\ stopped' = stopped /\ beat' \in {"off", "timer"}
    BY <2>3 DEF Ses!SetRequest
  <2>4. ASSUME Ses!StopHeartbeat \/ Ses!ErrorStops \/ Ses!CloseHeartbeat
        PROVE  late' = late /\ (stopped => stopped') /\ beat' = beat
    BY <2>4, Zenon DEF Ses!StopHeartbeat, Ses!ErrorStops, Ses!CloseHeartbeat
  <2> QED BY <1>1, <1>2, <2>1, <2>2, <2>3, <2>4 DEF Ses!Request
<1>3. CASE Ses!Reader \/ Ses!Responder \/ Ses!ClientLeaves
  <2>1. UNCHANGED <<late, stopped, beat>>
    BY <1>3 DEF Ses!Reader, Ses!ReadLine, Ses!ReadEnds, Ses!HandlerReturns, Ses!HandlerStep, Ses!GiveUp,
       Ses!Responder, Ses!Forward, Ses!HandlerEOF, Ses!HandlerError, Ses!ReaderEOF, Ses!ReaderError,
       Ses!Ended, Ses!ClientLeaves, Ses!beatVars
  <2> QED BY <1>1, <2>1
<1>4. CASE Ses!Beat
  BY <1>4 DEF BeatKept, Ses!Beat, Ses!BeatCancelled, Ses!BeatClientGone, Ses!BeatFires, Ses!BeatWrites
<1> QED BY <1>2, <1>3, <1>4 DEF Ses!SessionNext

\* OneEnding of any sequence.
EndsOnce(w) ==
    \A i \in DOMAIN w :
        /\ w[i] \in {"done", "error", "body", "streamError", "jsonError"} => i = Len(w)
        /\ w[i] = "data" => "jsonError" \notin {w[j] : j \in DOMAIN w}

\* What a request without a stream is sent.
Short == {<<>>, <<"part">>, <<"body">>, <<"jsonError">>, <<"streamError">>,
          <<"part", "jsonError">>, <<"part", "streamError">>}

\* Each of these has one ending, and only one has a body.
LEMMA ShortEnds ==
    ASSUME NEW w \in Short
    PROVE  w \in Seq(Items) /\ EndsOnce(w) /\ (w # <<"body">> => \A i \in DOMAIN w : w[i] # "body")
<1>1. CASE w = <<>>
  BY <1>1 DEF EndsOnce
<1>2. ASSUME NEW x \in {"part", "body", "jsonError", "streamError"}, w = <<x>>
      PROVE  w \in Seq(Items) /\ EndsOnce(w) /\ (w # <<"body">> => \A i \in DOMAIN w : w[i] # "body")
  BY <1>2 DEF EndsOnce, Items
<1>3. ASSUME NEW x \in {"jsonError", "streamError"}, w = <<"part", x>>
      PROVE  w \in Seq(Items) /\ EndsOnce(w) /\ (\A i \in DOMAIN w : w[i] # "body")
  <2>1. w \in Seq(Items)
    BY <1>3 DEF Items
  <2>2. Len(w) = 2 /\ DOMAIN w = {1, 2} /\ w[1] = "part" /\ w[2] = x
    BY <1>3
  <2> QED BY <1>3, <2>1, <2>2 DEF EndsOnce
<1> QED BY <1>1, <1>2, <1>3, Zenon DEF Short

\* What a responder writes, and how it ends.
LEMMA DataEnds ==
    ASSUME NEW w \in Seq(Items), OnlyData(w),
           NEW items \in {<<>>, <<"data">>, <<"error">>, <<"done">>, <<"usage", "done">>}
    PROVE  /\ w \o items \in Seq(Items) /\ EndsOnce(w \o items)
           /\ \A i \in DOMAIN (w \o items) : (w \o items)[i] # "body"
           /\ items = <<"data">> => OnlyData(w \o items)
<1> DEFINE v == w \o items
<1>1. items \in Seq(Items) /\ Len(items) \in 0..2
  <2>1. <<>> \in Seq(Items) /\ <<"data">> \in Seq(Items) /\ <<"error">> \in Seq(Items) /\ <<"done">> \in Seq(Items)
    BY DEF Items
  <2>2. <<"usage", "done">> \in Seq(Items)
    BY DEF Items
  <2>3. Len(items) \in 0..2
    OBVIOUS
  <2> QED BY <2>1, <2>2, <2>3, Zenon
<1>2. v \in Seq(Items) /\ Len(v) = Len(w) + Len(items)
      /\ \A i \in 1..(Len(w) + Len(items)) : v[i] = IF i <= Len(w) THEN w[i] ELSE items[i - Len(w)]
  BY <1>1, ConcatProperties
<1>3. DOMAIN v = 1..Len(v) /\ Len(w) \in Nat /\ \A i \in 1..Len(w) : w[i] = "data"
  BY <1>2 DEF OnlyData
<1> HIDE DEF v
<1>4. \A i \in 1..Len(w) : v[i] = "data"
  BY <1>1, <1>2, <1>3
<1> SUFFICES v \in Seq(Items) /\ EndsOnce(v) /\ (\A i \in DOMAIN v : v[i] # "body") /\ (items = <<"data">> => OnlyData(v))
  BY DEF v
<1>5. CASE items = <<>>
  BY <1>2, <1>3, <1>4, <1>5 DEF EndsOnce
<1>6. ASSUME NEW x \in {"data", "error", "done"}, items = <<x>>
      PROVE  EndsOnce(v) /\ (\A i \in DOMAIN v : v[i] # "body") /\ (items = <<"data">> => OnlyData(v))
  <2>1. Len(v) = Len(w) + 1 /\ v[Len(w) + 1] = x /\ DOMAIN v = 1..(Len(w) + 1)
    BY <1>2, <1>3, <1>6
  <2>2. \A i \in DOMAIN v : i = Len(w) + 1 \/ v[i] = "data"
    BY <1>3, <1>4, <2>1
  <2> QED BY <1>3, <1>6, <2>1, <2>2 DEF EndsOnce, OnlyData
<1>7. CASE items = <<"usage", "done">>
  <2>1. Len(v) = Len(w) + 2 /\ v[Len(w) + 1] = "usage" /\ v[Len(w) + 2] = "done" /\ DOMAIN v = 1..(Len(w) + 2)
    BY <1>2, <1>3, <1>7
  <2>2. \A i \in DOMAIN v : i = Len(w) + 1 \/ i = Len(w) + 2 \/ v[i] = "data"
    BY <1>3, <1>4, <2>1
  <2>3. Len(w) \in Nat /\ items # <<"data">>
    BY <1>3, <1>7
  <2>4. \A i \in DOMAIN v : v[i] \in {"data", "usage", "done"} /\ (v[i] = "done" => i = Len(w) + 2)
    BY <2>1, <2>2, <2>3
  <2>5. \A i \in DOMAIN v : v[i] \notin {"error", "body", "streamError", "jsonError"}
    BY <2>4
  <2> QED BY <1>2, <2>1, <2>3, <2>4, <2>5 DEF EndsOnce
<1> QED BY <1>2, <1>5, <1>6, <1>7, Zenon

\* The sequences that Write makes where little was written before.
LEMMA Joins ==
    ASSUME NEW x \in Items
    PROVE  <<>> \o <<x>> = <<x>> /\ <<>> \o <<>> = <<>> /\ <<"part">> \o <<x>> = <<"part", x>>
<1>1. <<>> \in Seq(Items) /\ <<x>> \in Seq(Items) /\ <<"part">> \in Seq(Items) /\ <<"part", x>> \in Seq(Items)
  BY DEF Items
<1>2. <<>> \o <<x>> = <<x>> /\ <<>> \o <<>> = <<>>
  BY <1>1, ConcatEmptySeq
<1>3. <<"part">> \o <<x>> \in Seq(Items) /\ Len(<<"part">> \o <<x>>) = 2
      /\ (<<"part">> \o <<x>>)[1] = "part" /\ (<<"part">> \o <<x>>)[2] = x
  BY <1>1, ConcatProperties
<1>4. <<"part">> \o <<x>> = <<"part", x>>
  <2> DEFINE s == <<"part">> \o <<x>>
             t == <<"part", x>>
  <2>1. t \in Seq(Items) /\ Len(t) = 2 /\ t[1] = "part" /\ t[2] = x
    BY <1>1
  <2>2. s \in Seq(Items) /\ Len(s) = 2 /\ s[1] = "part" /\ s[2] = x
    BY <1>3
  <2> HIDE DEF s, t
  <2>3. s = t
    BY <2>1, <2>2, SeqEqual
  <2> QED BY <2>3 DEF s, t
<1> QED BY <1>2, <1>4

\* Nothing follows an ending: the stream's writers are gone by the time the
\* request's goroutine writes, and the other way round.
LEMMA WireStep ==
    ASSUME WireKept, Ses!SessionNext
    PROVE  WireKept'
<1> DEFINE Early == req \in {"set", "reserve", "send", "stop"}
<1>0. /\ EndsOnce(wire) /\ (EndsOnce(wire') => Ses!OneEnding')
      /\ Early => wire = <<>> /\ responder = "none"
      /\ responder = "none" => reader = "none" /\ ~delivered
  BY Zenon DEF WireKept, EndsOnce, Ses!OneEnding
<1>1. ASSUME UNCHANGED <<wire, handler, responder, req>>,
             UNCHANGED <<reader, delivered>> \/ responder # "none"
      PROVE  WireKept'
  BY <1>1, <1>0 DEF WireKept
<1>2. ASSUME Early, UNCHANGED <<wire, handler, responder, reader, delivered>> PROVE WireKept'
  BY <1>0, <1>2, ShortEnds DEF WireKept, Short
<1>3. ASSUME Early, UNCHANGED <<handler, responder, reader, delivered>>, req' = "end", Ses!Write(<<"jsonError">>)
      PROVE  WireKept'
  <2>1. wire' \in {<<>>, <<"jsonError">>}
    BY <1>0, <1>3, Joins DEF Ses!Write, Items
  <2> QED BY <1>0, <1>3, <2>1, ShortEnds DEF WireKept, Short
<1>4. CASE Ses!Recv
  BY <1>0, <1>4 DEF WireKept, Ses!Recv, OnlyData, Ses!beatVars
<1>5. CASE Ses!StreamSettled
  BY <1>0, <1>5 DEF WireKept, Ses!StreamSettled, Ses!beatVars
<1>6. CASE Ses!RespondBody
  <2>1. responder = "none" /\ wire = <<>> /\ handler = Ses!NoHandler
    BY <1>6 DEF WireKept, Ses!RespondBody
  <2>2. \/ wire' \in {<<>>, <<"body">>, <<"part">>} /\ req' = "end"
        \/ wire' \in {<<>>, <<"part">>} /\ req' = "error"
    BY <1>6, <2>1, Joins DEF Ses!RespondBody, Ses!Write, Items
  <2>3. UNCHANGED <<handler, responder, reader, delivered>>
    BY <1>6 DEF Ses!RespondBody, Ses!readerVars
  <2> QED BY <1>0, <2>1, <2>2, <2>3, ShortEnds DEF WireKept, Short
<1>7. CASE Ses!ErrorStops
  BY <1>0, <1>7 DEF WireKept, Ses!ErrorStops, Ses!readerVars
<1>8. CASE Ses!ErrorWrites
  <2>1. responder = "none" /\ wire \in {<<>>, <<"part">>}
    BY <1>8 DEF WireKept, Ses!ErrorWrites
  <2>2. wire' \in Short \ {<<"body">>} /\ req' = "end"
    <3>1. wire' = wire \/ wire' = wire \o <<"streamError">> \/ wire' = wire \o <<"jsonError">>
      BY <1>8 DEF Ses!ErrorWrites, Ses!Write
    <3>2. req' = "end"
      BY <1>8 DEF Ses!ErrorWrites
    <3>3. wire' \in {<<>>, <<"streamError">>, <<"jsonError">>, <<"part">>, <<"part", "streamError">>, <<"part", "jsonError">>}
      <4>1. "streamError" \in Items /\ "jsonError" \in Items
        BY DEF Items
      <4>2. CASE wire = <<>>
        BY <3>1, <4>1, <4>2, Joins
      <4>3. CASE wire = <<"part">>
        BY <3>1, <4>1, <4>3, Joins
      <4> QED BY <2>1, <4>2, <4>3
    <3>4. <<"body">> \notin {<<>>, <<"streamError">>, <<"jsonError">>, <<"part">>, <<"part", "streamError">>, <<"part", "jsonError">>}
      OBVIOUS
    <3> QED BY <3>2, <3>3, <3>4, Zenon DEF Short
  <2>3. UNCHANGED <<handler, responder, reader, delivered>>
    BY <1>8 DEF Ses!ErrorWrites, Ses!readerVars
  <2> QED BY <1>0, <2>1, <2>2, <2>3, ShortEnds DEF WireKept, Short
<1>9. CASE Ses!Forward
  <2>1. /\ responder = "select" /\ UNCHANGED <<handler, responder, req>>
        /\ wire' = wire \/ wire' = wire \o <<"data">>
    BY <1>9 DEF Ses!Forward, Ses!Write
  <2>2. OnlyData(wire) /\ wire \in Seq(Items)
    BY <2>1 DEF WireKept
  <2>3. /\ wire' \in Seq(Items) /\ EndsOnce(wire') /\ OnlyData(wire')
        /\ \A i \in DOMAIN wire' : wire'[i] # "body"
    <3>1. CASE wire' = wire
      BY <1>0, <2>2, <3>1 DEF OnlyData
    <3>2. CASE wire' = wire \o <<"data">>
      BY <2>2, <3>2, DataEnds, Zenon
    <3> QED BY <2>1, <3>1, <3>2
  <2> QED BY <1>0, <2>1, <2>3 DEF WireKept
<1>10. ASSUME NEW items \in {<<>>, <<"error">>, <<"done">>, <<"usage", "done">>}, Ses!Ended(items)
       PROVE  WireKept'
  <2>1. /\ responder = "select" /\ responder' = "ended" /\ UNCHANGED <<handler, req>>
        /\ wire' = wire \/ wire' = wire \o items
    BY <1>10 DEF Ses!Ended, Ses!Write
  <2>2. OnlyData(wire) /\ wire \in Seq(Items) /\ req = "respond"
    BY <2>1 DEF WireKept
  <2>3. /\ wire' \in Seq(Items) /\ EndsOnce(wire')
        /\ \A i \in DOMAIN wire' : wire'[i] # "body"
    <3>1. CASE wire' = wire
      BY <1>0, <2>2, <3>1 DEF OnlyData
    <3>2. CASE wire' = wire \o items
      BY <2>2, <3>2, DataEnds, Zenon
    <3> QED BY <2>1, <3>1, <3>2
  <2> QED BY <1>0, <2>1, <2>2, <2>3 DEF WireKept

<1>11. CASE Ses!Request
  <2>1. ASSUME NEW call, NEW answer, Ses!CallAnswered(call, answer) PROVE WireKept'
    <3>1. Early /\ UNCHANGED <<handler, responder, reader, delivered>>
      BY <2>1 DEF Ses!CallAnswered, Ses!Failed, Ses!readerVars
    <3>2. wire' = wire \/ (req' = "end" /\ Ses!Write(<<"jsonError">>))
      BY <2>1 DEF Ses!CallAnswered, Ses!Failed
    <3> QED BY <1>2, <1>3, <3>1, <3>2
  <2>2. CASE Ses!SetRequestFails
    BY <1>3, <2>2 DEF Ses!SetRequestFails, Ses!readerVars
  <2>3. CASE Ses!SetRequest \/ Ses!Reserve \/ Ses!SendRefused \/ Ses!SendNothing \/ Ses!SendFails
             \/ Ses!SendSucceeds \/ Ses!StopHeartbeat
    BY <1>2, <2>3 DEF Ses!SetRequest, Ses!Reserve, Ses!SendRefused, Ses!SendNothing, Ses!SendFails,
       Ses!Failed, Ses!SendSucceeds, Ses!StopHeartbeat, Ses!readerVars
  <2>4. CASE Ses!CloseHeartbeat
    BY <1>1, <2>4 DEF Ses!CloseHeartbeat, Ses!readerVars
  <2> QED BY <1>4, <1>5, <1>6, <1>7, <1>8, <1>11, <2>1, <2>2, <2>3, <2>4 DEF Ses!Request
<1>12. CASE Ses!Reader
  <2>1. UNCHANGED <<wire, handler, responder, req, delivered>> /\ reader # "none"
    BY <1>12 DEF Ses!Reader, Ses!ReadLine, Ses!ReadEnds, Ses!HandlerReturns, Ses!HandlerStep, Ses!GiveUp
  <2> QED BY <1>0, <1>1, <2>1
<1>13. CASE Ses!Responder
  BY <1>9, <1>10, <1>13 DEF Ses!Responder, Ses!HandlerEOF, Ses!HandlerError, Ses!ReaderEOF, Ses!ReaderError, Ses!EndItems
<1>14. CASE Ses!Beat \/ Ses!ClientLeaves
  BY <1>1, <1>14 DEF Ses!Beat, Ses!BeatCancelled, Ses!BeatClientGone, Ses!BeatFires, Ses!BeatWrites,
     Ses!ClientLeaves, Ses!readerVars
<1> QED BY <1>11, <1>12, <1>13, <1>14 DEF Ses!SessionNext

\* A bill is one of three.
LEMMA BillIs == \A u : Ses!Bill(u) \in {"tokens", "prompt", "nothing"}
BY DEF Ses!Bill

\* Undo or Consume come before the end, but for the two panics.
LEMMA ReserveStep ==
    ASSUME ReserveKept, EndpointIs(ep), Ses!SessionNext
    PROVE  ReserveKept'
<1>1. ASSUME UNCHANGED <<ep, body, req, tries, billed>> PROVE ReserveKept'
  BY <1>1 DEF ReserveKept, Ses!ReservationSettled, Ses!NoUsage
<1>2. ASSUME ep' = ep, billed' \in {"undone", "tokens", "prompt", "nothing"},
             req' \in {"error", "end"} \/ (req' = "reserve" /\ ep.billing = "each")
      PROVE  ReserveKept'
  BY <1>2 DEF ReserveKept, Ses!ReservationSettled
<1>3. ASSUME UNCHANGED <<ep, billed>>, req' \notin {"end", "error", "safeWrite", "reserve", "set"}
      PROVE  ReserveKept'
  BY <1>3 DEF ReserveKept, Ses!ReservationSettled
<1>4. ASSUME UNCHANGED <<ep, billed>>, billed # "open", req' # "reserve" PROVE ReserveKept'
  BY <1>4 DEF ReserveKept, Ses!ReservationSettled
<1>5. ASSUME Ses!Failed, req = "send" PROVE ReserveKept'
  <2>1. UNCHANGED <<ep, body>>
    BY <1>5 DEF Ses!Failed
  <2>2. CASE tries < MaxTries /\ ep.billing # "never" /\ ep.billing # "each" /\ UNCHANGED <<req, billed>>
    BY <1>3, <1>5, <2>1, <2>2
  <2>3. CASE ep.billing = "each" /\ req' = "reserve" /\ billed' = "undone"
    BY <1>2, <2>1, <2>3
  <2>4. CASE req' = "error" /\ ep.billing # "never" /\ billed' = "undone"
    BY <1>2, <2>1, <2>4
  <2>5. CASE req' = "error" /\ ep.billing = "never" /\ billed' = billed
    BY <1>4, <2>1, <2>5 DEF ReserveKept
  <2> QED BY <1>5, <2>2, <2>3, <2>4, <2>5 DEF Ses!Failed
<1>6. ASSUME NEW call \in ep.calls, NEW answer \in Ses!Answers, Ses!CallAnswered(call, answer) PROVE ReserveKept'
  <2>1. CASE Ses!Failed
    BY <1>5, <1>6, <2>1 DEF Ses!CallAnswered
  <2>2. CASE UNCHANGED <<ep, billed>> /\ req' \in {"stop", "respond"}
    BY <1>3, <2>2
  <2>3. CASE /\ Ses!Returns(call, answer) = "panic" \/ Ses!NoUsage
             /\ body' = [how |-> Ses!How(call), answer |-> answer] /\ req' = "end"
             /\ UNCHANGED <<ep, billed, tries>>
    <3>1. Ses!Returns(call, answer) = "panic" => Ses!How(call) = "deref" /\ answer \in Ses!Unreported
      BY PanicsByDeref DEF EndpointIs
    <3> QED BY <2>3, <3>1 DEF ReserveKept, Ses!ReservationSettled, Ses!NoUsage
  <2> QED BY <1>6, <2>1, <2>2, <2>3 DEF Ses!CallAnswered
<1>7. CASE Ses!Request
  <2>1. CASE Ses!SetRequestFails
    BY <1>4, <2>1 DEF ReserveKept, Ses!SetRequestFails
  <2>2. CASE Ses!SetRequest
    BY <2>2 DEF ReserveKept, Ses!ReservationSettled, Ses!SetRequest
  <2>3. CASE Ses!Reserve
    BY <2>3 DEF ReserveKept, Ses!ReservationSettled, Ses!Reserve
  <2>4. CASE Ses!SendRefused
    BY <1>2, <2>4 DEF Ses!SendRefused
  <2>5. CASE Ses!SendNothing \/ Ses!StreamSettled
    BY <1>2, <2>5, BillIs DEF Ses!SendNothing, Ses!StreamSettled, Ses!Consume
  <2>6. CASE Ses!SendFails
    BY <1>5, <2>6 DEF Ses!SendFails
  <2>7. CASE Ses!SendSucceeds \/ Ses!StopHeartbeat
    BY <1>3, <2>7 DEF Ses!SendSucceeds, Ses!StopHeartbeat
  <2>8. CASE Ses!Recv \/ Ses!CloseHeartbeat
    BY <1>1, <2>8 DEF Ses!Recv, Ses!CloseHeartbeat
  <2>9. CASE Ses!RespondBody
    <3>1. ep' = ep /\ req' \in {"end", "error"}
      BY <2>9 DEF Ses!RespondBody
    <3>2. \/ ep.billing = "never" /\ billed' = billed
          \/ billed' \in {"undone", "tokens", "prompt", "nothing"}
      BY <2>9, BillIs DEF Ses!RespondBody, Ses!Consume
    <3> QED BY <1>2, <1>4, <3>1, <3>2 DEF ReserveKept
  <2>10. CASE Ses!ErrorStops \/ Ses!ErrorWrites
    BY <1>4, <2>10 DEF ReserveKept, Ses!ErrorStops, Ses!ErrorWrites
  <2> QED BY <1>6, <1>7, <2>1, <2>2, <2>3, <2>4, <2>5, <2>6, <2>7, <2>8, <2>9, <2>10 DEF Ses!Request
<1>8. CASE Ses!Reader
  BY <1>1, <1>8 DEF Ses!Reader, Ses!ReadLine, Ses!ReadEnds, Ses!HandlerReturns, Ses!HandlerStep, Ses!GiveUp
<1>9. CASE Ses!Responder
  BY <1>1, <1>9 DEF Ses!Responder, Ses!Forward, Ses!HandlerEOF, Ses!HandlerError, Ses!ReaderEOF,
     Ses!ReaderError, Ses!Ended
<1>10. CASE Ses!Beat \/ Ses!ClientLeaves
  BY <1>1, <1>10 DEF Ses!Beat, Ses!BeatCancelled, Ses!BeatClientGone, Ses!BeatFires, Ses!BeatWrites, Ses!ClientLeaves
<1> QED BY <1>7, <1>8, <1>9, <1>10 DEF Ses!SessionNext

\* Writing to the fields of usage.
LEMMA UsageSet ==
    ASSUME NEW u \in UsageType, NEW p \in BOOLEAN, NEW t \in BOOLEAN
    PROVE  /\ [u EXCEPT !.prompt = p, !.tokens = t] = [prompt |-> p, tokens |-> t, text |-> u.text]
           /\ [u EXCEPT !.tokens = t] = [prompt |-> u.prompt, tokens |-> t, text |-> u.text]
           /\ [u EXCEPT !.text = t] = [prompt |-> u.prompt, tokens |-> u.tokens, text |-> t]
           /\ u.prompt \in BOOLEAN /\ u.tokens \in BOOLEAN /\ u.text \in BOOLEAN
           /\ \A x, y, z \in BOOLEAN : [prompt |-> x, tokens |-> y, text |-> z] \in UsageType
<1>1. u.prompt \in BOOLEAN /\ u.tokens \in BOOLEAN /\ u.text \in BOOLEAN
  BY Zenon DEF UsageType
<1>2. ASSUME NEW x \in BOOLEAN, NEW y \in BOOLEAN, NEW z \in BOOLEAN, u = [prompt |-> x, tokens |-> y, text |-> z]
      PROVE  /\ [u EXCEPT !.prompt = p, !.tokens = t] = [prompt |-> p, tokens |-> t, text |-> z]
             /\ [u EXCEPT !.tokens = t] = [prompt |-> x, tokens |-> t, text |-> z]
             /\ [u EXCEPT !.text = t] = [prompt |-> x, tokens |-> y, text |-> t]
  <2>1. [u EXCEPT !.prompt = p, !.tokens = t] = [prompt |-> p, tokens |-> t, text |-> z]
    <3> DEFINE v == [u EXCEPT !.prompt = p]
    <3>1. v = [prompt |-> p, tokens |-> y, text |-> z]
      BY <1>2
    <3> HIDE DEF v
    <3>2. [v EXCEPT !.tokens = t] = [prompt |-> p, tokens |-> t, text |-> z]
      BY <3>1
    <3> QED BY <3>2 DEF v
  <2>2. [u EXCEPT !.tokens = t] = [prompt |-> x, tokens |-> t, text |-> z]
    BY <1>2
  <2>3. [u EXCEPT !.text = t] = [prompt |-> x, tokens |-> y, text |-> t]
    BY <1>2
  <2> QED BY <2>1, <2>2, <2>3
<1>3. u = [prompt |-> u.prompt, tokens |-> u.tokens, text |-> u.text]
  BY Zenon DEF UsageType
<1>4. /\ [u EXCEPT !.prompt = p, !.tokens = t] = [prompt |-> p, tokens |-> t, text |-> u.text]
      /\ [u EXCEPT !.tokens = t] = [prompt |-> u.prompt, tokens |-> t, text |-> u.text]
      /\ [u EXCEPT !.text = t] = [prompt |-> u.prompt, tokens |-> u.tokens, text |-> t]
  BY <1>1, <1>2, <1>3, Zenon
<1>5. \A x, y, z \in BOOLEAN : [prompt |-> x, tokens |-> y, text |-> z] \in UsageType
  BY Zenon DEF UsageType
<1> QED BY <1>1, <1>4, <1>5

\* The Usage that RelayHandler makes for each try.
LEMMA FreshIs == /\ Ses!FreshUsage \in UsageType /\ Ses!FreshUsage.prompt = TRUE
                 /\ Ses!FreshUsage.tokens = FALSE /\ Ses!FreshUsage.text = FALSE
BY DEF UsageType, Ses!FreshUsage

\* usage stays what it is.
LEMMA SettledIs ==
    ASSUME NEW call, NEW answer \in Ses!Answers
    PROVE  /\ Ses!Settled(call, answer, Ses!FreshUsage) \in UsageType
           /\ Counts(Ses!How(call), answer, Ses!Settled(call, answer, Ses!FreshUsage))
<1> DEFINE how == Ses!How(call)
           u == Ses!Settled(call, answer, Ses!FreshUsage)
           full == answer = "full"
           content == answer \in Ses!Content
           reported == [prompt |-> full, tokens |-> full, text |-> FALSE]
           counted == [prompt |-> TRUE, tokens |-> content, text |-> FALSE]
<1>2. full \in BOOLEAN /\ content \in BOOLEAN
  OBVIOUS
<1>1. u = CASE how \in {"report", "deref"} -> reported
            [] how = "reportIf" -> IF answer \in {"full", "zero"} THEN reported ELSE Ses!FreshUsage
            [] how = "reportSome" -> IF answer = "full" THEN reported ELSE Ses!FreshUsage
            [] how = "reportOrCount" -> IF answer = "full" THEN reported ELSE counted
            [] how = "reportElse" -> IF answer \in {"full", "zero"} THEN reported ELSE counted
            [] how = "count" -> counted
            [] OTHER -> Ses!FreshUsage
  <2>1. reported = [Ses!FreshUsage EXCEPT !.prompt = full, !.tokens = full]
    <3> HIDE DEF full
    <3> QED BY <1>2, FreshIs, UsageSet, Zenon
  <2>2. counted = [Ses!FreshUsage EXCEPT !.tokens = content]
    <3> HIDE DEF content
    <3> QED BY <1>2, FreshIs, UsageSet, Zenon
  <2> QED BY <2>1, <2>2, Zenon DEF Ses!Settled
<1>3. reported \in UsageType /\ counted \in UsageType /\ Ses!FreshUsage \in UsageType
  BY <1>2, Zenon DEF UsageType, Ses!FreshUsage
<1>4. reported.tokens = full /\ counted.tokens = content /\ counted.prompt = TRUE /\ Ses!FreshUsage.prompt = TRUE
  BY Zenon DEF Ses!FreshUsage
<1>5. full => content
  BY DEF Ses!Content
<1>6. full <=> answer = "full"
  OBVIOUS
<1>7. content <=> answer \in Ses!Content
  OBVIOUS
<1> HIDE DEF u, reported, counted, how, full, content
<1>8. u \in UsageType
  BY <1>1, <1>3
<1>9. Counts(how, answer, u)
  BY <1>1, <1>4, <1>5, <1>6, <1>7 DEF Counts, Ses!Trusting
<1> QED BY <1>8, <1>9 DEF u, how

\* usage stays three Booleans: the counted prompt, token counts and text.
LEMMA UsageStep ==
    ASSUME usage \in UsageType, BodyKept, WireKept, Ses!SessionNext
    PROVE  usage' \in UsageType
<1>1. Ses!FreshUsage \in UsageType
  BY DEF Ses!FreshUsage, UsageType
<1>2. ASSUME NEW call, NEW answer \in Ses!Answers, Ses!CallAnswered(call, answer) PROVE usage' \in UsageType
  <2>1. usage = Ses!FreshUsage
    BY <1>2 DEF Ses!CallAnswered, BodyKept
  <2>2. usage' = usage \/ usage' = Ses!Settled(call, answer, usage)
    BY <1>2 DEF Ses!CallAnswered, Ses!Failed, Ses!readerVars
  <2> QED BY <1>1, <2>1, <2>2, SettledIs
<1>3. CASE Ses!Request
  <2>1. CASE Ses!Reserve
    BY <1>1, <2>1 DEF Ses!Reserve
  <2>2. CASE \/ Ses!SetRequestFails \/ Ses!SetRequest \/ Ses!SendRefused \/ Ses!SendNothing \/ Ses!SendFails
             \/ Ses!SendSucceeds \/ Ses!StopHeartbeat \/ Ses!Recv \/ Ses!StreamSettled \/ Ses!RespondBody
             \/ Ses!ErrorStops \/ Ses!ErrorWrites \/ Ses!CloseHeartbeat
    <3>1. usage' = usage
      BY <2>2 DEF Ses!SetRequestFails, Ses!SetRequest, Ses!SendRefused, Ses!SendNothing, Ses!SendFails, Ses!Failed,
         Ses!SendSucceeds, Ses!StopHeartbeat, Ses!Recv, Ses!StreamSettled, Ses!RespondBody, Ses!ErrorStops,
         Ses!ErrorWrites, Ses!CloseHeartbeat, Ses!readerVars
    <3> QED BY <3>1
  <2> QED BY <1>2, <1>3, <2>1, <2>2 DEF Ses!Request
<1>4. CASE Ses!HandlerStep
  <2> DEFINE counted == line \in {"usage", "stop"}
             text == usage.text \/ line = "chunk"
  <2>1. \/ usage' = [usage EXCEPT !.text = text]
        \/ usage' = [usage EXCEPT !.tokens = counted]
        \/ usage' = [prompt |-> counted, tokens |-> counted, text |-> FALSE]
        \/ usage' = usage
    BY <1>4, Zenon DEF Ses!HandlerStep
  <2>2. counted \in BOOLEAN /\ text \in BOOLEAN
    OBVIOUS
  <2> HIDE DEF counted, text
  <2>6. usage.prompt \in BOOLEAN /\ usage.tokens \in BOOLEAN /\ usage.text \in BOOLEAN
    BY <2>2, UsageSet, Zenon
  <2>3. CASE usage' = [usage EXCEPT !.text = text]
    <3>1. usage' = [prompt |-> usage.prompt, tokens |-> usage.tokens, text |-> text]
      BY <2>2, <2>3, UsageSet, Zenon
    <3> QED BY <2>2, <2>6, <3>1, UsageSet, Zenon
  <2>4. CASE usage' = [usage EXCEPT !.tokens = counted]
    <3>1. usage' = [prompt |-> usage.prompt, tokens |-> counted, text |-> usage.text]
      BY <2>2, <2>4, UsageSet, Zenon
    <3> QED BY <2>2, <2>6, <3>1, UsageSet, Zenon
  <2>5. CASE usage' = [prompt |-> counted, tokens |-> counted, text |-> FALSE]
    BY <2>2, <2>5, UsageSet, Zenon
  <2> QED BY <2>1, <2>3, <2>4, <2>5
<1>6. CASE Ses!Reader
  BY <1>4, <1>6 DEF Ses!Reader, Ses!ReadLine, Ses!ReadEnds, Ses!HandlerReturns, Ses!GiveUp
<1>7. CASE Ses!Responder
  BY <1>7 DEF Ses!Responder, Ses!Forward, Ses!HandlerEOF, Ses!HandlerError, Ses!ReaderEOF, Ses!ReaderError, Ses!Ended
<1>8. CASE Ses!Beat \/ Ses!ClientLeaves
  BY <1>8 DEF Ses!Beat, Ses!BeatCancelled, Ses!BeatClientGone, Ses!BeatFires, Ses!BeatWrites, Ses!ClientLeaves,
     Ses!readerVars
<1> QED BY <1>3, <1>6, <1>7, <1>8 DEF Ses!SessionNext

\* A body is billed by what its call left in usage.
LEMMA BodyStep ==
    ASSUME BodyKept, BodyBilled, WireKept, ReserveKept, EndpointIs(ep), Ses!SessionNext
    PROVE  BodyKept' /\ BodyBilled'
<1>1. WireKept'
  BY WireStep
<1>2. handler' = handler /\ ep' = ep
  BY RequestFixed
<1>3. CASE handler # Ses!NoHandler
  <2>1. \A i \in DOMAIN wire' : wire'[i] # "body"
    BY <1>1, <1>2, <1>3 DEF WireKept
  <2> QED BY <1>2, <1>3, <2>1 DEF BodyKept, BodyBilled, Ses!Range
<1>4. CASE handler = Ses!NoHandler
  <2>1. responder = "none" /\ reader = "none"
    BY <1>4 DEF WireKept
  <2>2. ASSUME UNCHANGED <<req, body, usage, billed, wire>> PROVE BodyKept' /\ BodyBilled'
    BY <1>2, <2>2 DEF BodyKept, BodyBilled
  <2>3. ASSUME req' = "end", ep.billing = "never" => billed' = billed, wire' \in Short \ {<<"body">>}
        PROVE  BodyKept' /\ BodyBilled'
    <3>1. "body" \notin Ses!Range(wire')
      BY <2>3, ShortEnds DEF Ses!Range
    <3> QED BY <1>2, <1>4, <2>3, <3>1 DEF BodyKept, BodyBilled
  <2>4. ASSUME req' \in {"reserve", "send", "error", "safeWrite"}, ep.billing = "never" => billed' = billed,
               req' \in {"reserve", "send"} => usage' = Ses!FreshUsage
        PROVE  BodyKept' /\ BodyBilled'
    BY <1>2, <1>4, <2>4 DEF BodyKept, BodyBilled
  <2>5. ASSUME Ses!Failed, req = "send" PROVE BodyKept' /\ BodyBilled'
    <3>1. usage' = Ses!FreshUsage
      BY <1>4, <2>5 DEF Ses!Failed, BodyKept, Ses!readerVars
    <3> QED BY <2>4, <2>5, <3>1 DEF Ses!Failed
  <2>6. ASSUME NEW call \in ep.calls, NEW answer \in Ses!Answers, Ses!CallAnswered(call, answer)
        PROVE  BodyKept' /\ BodyBilled'
    <3>1. CASE Ses!Failed
      BY <2>5, <2>6, <3>1 DEF Ses!CallAnswered
    <3>2. CASE /\ usage' = Ses!Settled(call, answer, usage)
               /\ body' = [how |-> Ses!How(call), answer |-> answer]
               /\ req' \in {"stop", "respond"} /\ billed' = billed
      <4>1. usage = Ses!FreshUsage
        BY <1>4, <2>6 DEF Ses!CallAnswered, BodyKept
      <4>2. Counts(body'.how, body'.answer, usage')
        BY <3>2, <4>1, SettledIs
      <4>3. ep.billing = "never" => body'.how = "prompt"
        BY <3>2 DEF EndpointIs
      <4> QED BY <1>2, <1>4, <3>2, <4>2, <4>3 DEF BodyKept, BodyBilled
    <3>3. CASE Ses!Write(<<"jsonError">>) /\ req' = "end" /\ billed' = billed
      <4>1. wire = <<>>
        BY <2>6 DEF WireKept, Ses!CallAnswered
      <4>2. wire' \in {<<>>, <<"jsonError">>}
        BY <3>3, <4>1, Joins DEF Ses!Write, Items
      <4>3. wire' \in Short \ {<<"body">>}
        BY <4>2 DEF Short
      <4> QED BY <2>3, <3>3, <4>3
    <3> QED BY <2>6, <3>1, <3>2, <3>3 DEF Ses!CallAnswered
  <2>7. CASE Ses!Request
    <3>1. CASE Ses!SetRequestFails
      <4>1. wire' \in {<<>>, <<"jsonError">>}
        BY <3>1, Joins DEF Ses!SetRequestFails, Ses!Write, Items, WireKept
      <4>2. wire' \in Short \ {<<"body">>}
        BY <4>1 DEF Short
      <4> QED BY <2>3, <3>1, <4>2 DEF Ses!SetRequestFails
    <3>2. CASE Ses!SetRequest
      BY <1>4, <2>4, <3>2 DEF Ses!SetRequest, BodyKept, Ses!readerVars
    <3>3. CASE Ses!Reserve
      BY <2>4, <3>3 DEF Ses!Reserve, ReserveKept
    <3>4. CASE Ses!SendRefused
      BY <2>4, <3>4 DEF Ses!SendRefused, EndpointIs
    <3>5. CASE Ses!SendNothing
      <4>1. ep.billing # "never" /\ req' = "end" /\ wire' = <<>>
        BY <3>5 DEF Ses!SendNothing, EndpointIs, WireKept
      <4> QED BY <2>3, <4>1 DEF Short
    <3>6. CASE Ses!SendFails
      BY <2>5, <3>6 DEF Ses!SendFails
    <3>7. CASE Ses!StopHeartbeat
      BY <1>2, <3>7 DEF BodyKept, BodyBilled, Ses!StopHeartbeat, Ses!readerVars
    <3>8. CASE Ses!SendSucceeds \/ Ses!Recv \/ Ses!StreamSettled
      BY <1>4, <2>1, <3>8 DEF Ses!SendSucceeds, Ses!Recv, Ses!StreamSettled
    <3>9. CASE Ses!RespondBody
      <4>1. body' = body /\ Counts(body.how, body.answer, usage) /\ (ep.billing = "never" => body.how = "prompt" /\ billed = "none")
        BY <1>4, <3>9 DEF Ses!RespondBody, BodyKept
      <4>2. CASE req' = "end" /\ billed' = Ses!Bill(usage) /\ ep.billing # "never"
        BY <1>2, <4>1, <4>2 DEF BodyKept, BodyBilled, Counts, Ses!Bill
      <4>3. CASE req' = "end" /\ ep.billing = "never" /\ billed' = billed
        BY <1>2, <4>1, <4>3 DEF BodyKept, BodyBilled
      <4>4. CASE req' = "error" /\ (ep.billing = "never" => billed' = billed)
        BY <2>4, <4>4
      <4>5. CASE ep.json = "copy" /\ req' = "end" /\ Ses!Write(<<"part">>)
        <5>1. wire' \in {<<>>, <<"part">>}
          BY <1>4, <2>1, <3>9, <4>5, Joins DEF Ses!RespondBody, Ses!Write, Items, WireKept
        <5>2. "body" \notin Ses!Range(wire') /\ (ep.billing = "never" => FALSE)
          <6>1. "body" \notin Ses!Range(wire')
            BY <5>1, ShortEnds DEF Ses!Range, Short
          <6>2. ep.billing # "never"
            BY <4>5 DEF EndpointIs
          <6> QED BY <6>1, <6>2
        <5> QED BY <1>2, <4>5, <5>2 DEF BodyKept, BodyBilled
      <4> QED BY <3>9, <4>2, <4>3, <4>4, <4>5 DEF Ses!RespondBody, Ses!Consume
    <3>10. CASE Ses!ErrorStops
      BY <2>4, <3>10 DEF Ses!ErrorStops
    <3>11. CASE Ses!ErrorWrites
      <4>1. wire \in {<<>>, <<"part">>}
        BY <3>11 DEF WireKept, Ses!ErrorWrites
      <4>2. wire' \in {<<>>, <<"jsonError">>, <<"streamError">>, <<"part">>, <<"part", "jsonError">>, <<"part", "streamError">>}
        <5>1. wire' = wire \/ wire' = wire \o <<"streamError">> \/ wire' = wire \o <<"jsonError">>
          BY <3>11 DEF Ses!ErrorWrites, Ses!Write
        <5>2. "streamError" \in Items /\ "jsonError" \in Items
          BY DEF Items
        <5>3. CASE wire = <<>>
          BY <5>1, <5>2, <5>3, Joins
        <5>4. CASE wire = <<"part">>
          BY <5>1, <5>2, <5>4, Joins
        <5> QED BY <4>1, <5>3, <5>4
      <4>3. wire' \in Short \ {<<"body">>}
        <5>1. <<"body">> \notin {<<>>, <<"jsonError">>, <<"streamError">>, <<"part">>, <<"part", "jsonError">>, <<"part", "streamError">>}
          OBVIOUS
        <5> QED BY <4>2, <5>1, Zenon DEF Short
      <4> QED BY <2>3, <3>11, <4>3 DEF Ses!ErrorWrites
    <3>12. CASE Ses!CloseHeartbeat
      BY <2>2, <3>12 DEF Ses!CloseHeartbeat, Ses!readerVars
    <3> QED BY <2>6, <2>7, <3>1, <3>2, <3>3, <3>4, <3>5, <3>6, <3>7, <3>8, <3>9, <3>10, <3>11, <3>12 DEF Ses!Request
  <2>8. CASE Ses!Reader \/ Ses!Responder
    BY <2>1, <2>8 DEF Ses!Reader, Ses!ReadLine, Ses!ReadEnds, Ses!HandlerReturns, Ses!HandlerStep, Ses!GiveUp,
     Ses!Responder, Ses!Forward, Ses!HandlerEOF, Ses!HandlerError, Ses!ReaderEOF, Ses!ReaderError, Ses!Ended
  <2>9. CASE Ses!Beat \/ Ses!ClientLeaves
    BY <2>2, <2>9 DEF Ses!Beat, Ses!BeatCancelled, Ses!BeatClientGone, Ses!BeatFires, Ses!BeatWrites,
       Ses!ClientLeaves, Ses!readerVars
  <2> QED BY <2>7, <2>8, <2>9 DEF Ses!SessionNext
<1> QED BY <1>3, <1>4

\* What is left of a sequence after its head.
LEMMA TailOf ==
    ASSUME NEW S, NEW s \in Seq(S), s # <<>>
    PROVE  /\ Tail(s) \in Seq(S) /\ 1 \in DOMAIN s /\ Head(s) = s[1]
           /\ \A i \in DOMAIN Tail(s) : i + 1 \in DOMAIN s /\ Tail(s)[i] = s[i + 1]
           /\ \A i \in DOMAIN s \ {1} : i - 1 \in DOMAIN Tail(s) /\ Tail(s)[i - 1] = s[i]
<1>1. Len(s) \in Nat \ {0} /\ DOMAIN s = 1..Len(s) /\ Head(s) = s[1]
  OBVIOUS
<1>2. Tail(s) \in Seq(S) /\ Len(Tail(s)) = Len(s) - 1 /\ DOMAIN Tail(s) = 1..(Len(s) - 1)
      /\ \A i \in 1..(Len(s) - 1) : Tail(s)[i] = s[i + 1]
  OBVIOUS
<1> QED BY <1>1, <1>2

\* A handler's steps: text is counted once, the upstream's counts replace it
\* on their lines.
LEMMA UsageAfter ==
    ASSUME usage \in UsageType, Ses!HandlerStep
    PROVE  /\ Head(ops) = "text" /\ line = "chunk" => usage'.text
           /\ Head(ops) = "text" /\ Counted => Counted'
           /\ Head(ops) \in {"usage", "replace"} /\ line \in {"usage", "stop"} => usage'.tokens
           /\ Head(ops) \in {"close", "panic"} => usage' = usage
<1> DEFINE counted == line \in {"usage", "stop"}
           text == usage.text \/ line = "chunk"
<1>1. /\ Head(ops) = "text" => usage' = [usage EXCEPT !.text = text]
      /\ Head(ops) = "usage" => usage' = [usage EXCEPT !.tokens = counted]
      /\ Head(ops) = "replace" => usage' = [prompt |-> counted, tokens |-> counted, text |-> FALSE]
      /\ Head(ops) \in {"close", "panic"} => usage' = usage
  <2>1. usage' = CASE Head(ops) = "text" -> [usage EXCEPT !.text = text]
                   [] Head(ops) = "usage" -> [usage EXCEPT !.tokens = counted]
                   [] Head(ops) = "replace" -> [prompt |-> counted, tokens |-> counted, text |-> FALSE]
                   [] OTHER -> usage
    BY Zenon DEF Ses!HandlerStep
  <2> HIDE DEF text, counted
  <2> QED BY <2>1
<1>2. counted \in BOOLEAN /\ text \in BOOLEAN
  OBVIOUS
<1>3. (counted <=> line \in {"usage", "stop"}) /\ (text <=> usage.text \/ line = "chunk")
  OBVIOUS
<1> HIDE DEF text, counted
<1>4. Head(ops) = "text" => usage' = [prompt |-> usage.prompt, tokens |-> usage.tokens, text |-> text]
  BY <1>1, <1>2, UsageSet, Zenon
<1>5. ASSUME Head(ops) = "text" PROVE usage'.text = text /\ usage'.tokens = usage.tokens
  <2>1. usage' = [prompt |-> usage.prompt, tokens |-> usage.tokens, text |-> text]
    BY <1>4, <1>5
  <2>2. usage'.text = text
    BY <2>1, Zenon
  <2>3. usage'.tokens = usage.tokens
    BY <2>1, Zenon
  <2> QED BY <2>2, <2>3
<1>6. Head(ops) = "usage" => usage' = [prompt |-> usage.prompt, tokens |-> counted, text |-> usage.text]
  BY <1>1, <1>2, UsageSet, Zenon
<1>7. ASSUME Head(ops) \in {"usage", "replace"} PROVE usage'.tokens = counted
  <2>1. CASE usage' = [prompt |-> usage.prompt, tokens |-> counted, text |-> usage.text]
    BY <2>1, Zenon
  <2>2. CASE usage' = [prompt |-> counted, tokens |-> counted, text |-> FALSE]
    BY <2>2, Zenon
  <2> QED BY <1>1, <1>6, <1>7, <2>1, <2>2
<1> QED BY <1>1, <1>3, <1>5, <1>7, Zenon DEF Counted

\* Text that is forwarded is counted by the time the stream has ended.
LEMMA TextStep ==
    ASSUME TextKept, TextBilled, WireKept, usage \in UsageType, Ses!SessionNext
    PROVE  TextKept' /\ TextBilled'
<1> DEFINE Collected == handler \in DOMAIN Ses!StreamHandler \ Ses!ReportOnly
<1>1. WireKept'
  BY WireStep
<1>2. handler' = handler
  BY RequestFixed
<1>3. ops' = ops \/ (ops # <<>> /\ ops' = Tail(ops)) \/ \E kind \in Ses!Kinds : Ses!ReadLine(kind)
  BY DEF Ses!SessionNext, Ses!Request, Ses!SetRequestFails, Ses!SetRequest, Ses!Reserve, Ses!SendRefused,
     Ses!SendNothing, Ses!SendFails, Ses!SendSucceeds, Ses!CallAnswered, Ses!Failed, Ses!StopHeartbeat, Ses!Recv,
     Ses!StreamSettled, Ses!RespondBody, Ses!ErrorStops, Ses!ErrorWrites, Ses!CloseHeartbeat, Ses!readerVars,
     Ses!Reader, Ses!ReadEnds, Ses!HandlerReturns, Ses!HandlerStep, Ses!GiveUp,
     Ses!Responder, Ses!Forward, Ses!HandlerEOF, Ses!HandlerError, Ses!ReaderEOF, Ses!ReaderError, Ses!Ended,
     Ses!Beat, Ses!BeatCancelled, Ses!BeatClientGone, Ses!BeatFires, Ses!BeatWrites, Ses!ClientLeaves
<1>4. ASSUME NEW kind \in Ses!Kinds, Ses!ReadLine(kind)
      PROVE  handler \in DOMAIN Ses!StreamHandler /\ ops' = Ses!StreamHandler[handler][kind] /\ ops' \in Seq(Ses!Ops)
  <2>1. reader = "read" /\ ops' = Ses!StreamHandler[handler][kind]
    BY <1>4 DEF Ses!ReadLine
  <2>2. handler \in DOMAIN Ses!StreamHandler
    BY <2>1 DEF WireKept, TextKept
  <2> QED BY <2>1, <2>2, HandlerHandles DEF Handles
<1>5. ops \in Seq(Ses!Ops) /\ ops' \in Seq(Ses!Ops) /\ handler' \in DOMAIN Ses!StreamHandler \cup {Ses!NoHandler}
  BY <1>2, <1>3, <1>4, TailOf DEF TextKept
<1>6. CASE responder' = "none" \/ handler \in Ses!ReportOnly
  BY <1>1, <1>2, <1>5, <1>6 DEF TextKept, TextBilled, WireKept
<1>7. CASE responder' # "none" /\ handler \notin Ses!ReportOnly
  <2>0. handler # Ses!NoHandler /\ Collected
    BY <1>1, <1>2, <1>5, <1>7 DEF WireKept
  <2>1. responder \notin {"none", "ended"} => req = "respond"
    BY DEF WireKept
  <2>2. ASSUME UNCHANGED <<ops, reader, line, usage, delivered, responder>>, req' = "end" => req = "end" /\ billed' = billed
        PROVE  TextKept' /\ TextBilled'
    BY <1>2, <2>2 DEF TextKept, TextBilled, TextAhead, Counted
  <2>3. ASSUME req' = req, billed' = billed, delivered' = delivered, TextKept' PROVE TextBilled'
    BY <1>2, <2>3 DEF TextBilled
  <2>4. ASSUME reader' # "handle", delivered' = delivered, usage' = usage, reader # "handle" \/ ~TextAhead
        PROVE  TextKept'
    BY <1>2, <1>5, <1>7, <2>4 DEF TextKept, Counted
  <2>5. CASE Ses!Request
    <3>1. CASE Ses!Recv
      <4>1. ~delivered /\ delivered' = delivered /\ reader' = "read" /\ req' = "respond"
        BY <3>1 DEF Ses!Recv, WireKept
      <4> QED BY <1>2, <1>5, <4>1 DEF TextKept, TextBilled
    <3>2. CASE Ses!StreamSettled
      <4>1. /\ UNCHANGED <<ops, reader, line, usage, delivered, responder>>
            /\ responder = "ended" /\ billed' = Ses!Bill(usage)
        BY <3>2 DEF Ses!StreamSettled, Ses!Consume, Ses!beatVars
      <4>2. TextKept'
        BY <1>2, <4>1 DEF TextKept, TextAhead, Counted
      <4>3. delivered => Counted
        BY <1>7, <4>1 DEF TextKept
      <4>4. TextBilled'
        BY <4>1, <4>3 DEF TextBilled, Counted, Ses!Bill
      <4> QED BY <4>2, <4>4
    <3>3. CASE Ses!CloseHeartbeat
      BY <2>2, <3>3 DEF Ses!CloseHeartbeat, Ses!readerVars
    <3>4. ASSUME \/ Ses!SetRequestFails \/ Ses!SetRequest \/ Ses!Reserve \/ Ses!SendRefused \/ Ses!SendNothing
                 \/ Ses!SendFails \/ Ses!SendSucceeds \/ Ses!StopHeartbeat \/ Ses!RespondBody
                 \/ Ses!ErrorStops \/ Ses!ErrorWrites
                 \/ \E call \in ep.calls, answer \in Ses!Answers : Ses!CallAnswered(call, answer)
          PROVE  FALSE
      <4>1. responder' = responder
        BY <3>4 DEF Ses!SetRequestFails, Ses!SetRequest, Ses!Reserve, Ses!SendRefused, Ses!SendNothing,
           Ses!SendFails, Ses!Failed, Ses!SendSucceeds, Ses!StopHeartbeat, Ses!RespondBody, Ses!ErrorStops,
           Ses!ErrorWrites, Ses!CallAnswered, Ses!readerVars
      <4>2. req \in {"set", "reserve", "send", "stop", "error", "safeWrite"}
        BY <2>0, <3>4 DEF Ses!SetRequestFails, Ses!SetRequest, Ses!Reserve, Ses!SendRefused, Ses!SendNothing,
           Ses!SendFails, Ses!Failed, Ses!SendSucceeds, Ses!StopHeartbeat, Ses!RespondBody, Ses!ErrorStops,
           Ses!ErrorWrites, Ses!CallAnswered
      <4>3. responder = "none"
        BY <4>2 DEF WireKept
      <4> QED BY <1>7, <4>1, <4>3
    <3> QED BY <2>5, <3>1, <3>2, <3>3, <3>4 DEF Ses!Request
  <2>6. ASSUME NEW kind \in Ses!Kinds, Ses!ReadLine(kind) PROVE TextKept' /\ TextBilled'
    <3>1. /\ reader = "read" /\ UNCHANGED <<req, billed, usage, delivered, responder>>
          /\ line' = kind /\ reader' = "handle"
      BY <2>6 DEF Ses!ReadLine
    <3>2. Collects(Ses!StreamHandler[handler]) /\ ops' = Ses!StreamHandler[handler][kind]
      BY <1>4, <2>0, <2>6, HandlerCollects
    <3>3. kind \notin {"usage", "stop"} => \A i \in DOMAIN ops' : ops'[i] \notin {"usage", "replace"}
      BY <3>2 DEF Collects
    <3>4. kind = "chunk" => (\A i \in DOMAIN ops' : ops'[i] \in {"data", "text"}) /\ TextAhead'
      <4>1. kind = "chunk" => ops' \in ChunkOps
        BY <3>2 DEF Collects
      <4>2. \A s \in ChunkOps : (\A i \in DOMAIN s : s[i] \in {"data", "text"}) /\ \E i \in DOMAIN s : s[i] = "text"
        BY DEF ChunkOps
      <4> QED BY <4>1, <4>2 DEF TextAhead
    <3>5. delivered => Counted
      BY <1>7, <3>1 DEF TextKept
    <3>6. TextKept'
      BY <1>2, <1>5, <3>1, <3>3, <3>4, <3>5 DEF TextKept, Counted
    <3> QED BY <2>3, <3>1, <3>6
  <2>7. ASSUME reader = "handle", ops # <<>>, ops' = Tail(ops), line' = line
        PROVE  /\ Head(ops) \in Ses!Ops
               /\ line = "chunk" => Head(ops) \in {"data", "text"}
               /\ line \notin {"usage", "stop"} => Head(ops) \notin {"usage", "replace"}
               /\ line' = "chunk" => \A i \in DOMAIN ops' : ops'[i] \in {"data", "text"}
               /\ line' \notin {"usage", "stop"} => \A i \in DOMAIN ops' : ops'[i] \notin {"usage", "replace"}
               /\ TextAhead /\ Head(ops) # "text" => TextAhead'
    <3>1. /\ line = "chunk" => \A i \in DOMAIN ops : ops[i] \in {"data", "text"}
          /\ line \notin {"usage", "stop"} => \A i \in DOMAIN ops : ops[i] \notin {"usage", "replace"}
      BY <1>7, <2>7 DEF TextKept
    <3>2. /\ 1 \in DOMAIN ops /\ Head(ops) = ops[1]
          /\ \A i \in DOMAIN ops' : i + 1 \in DOMAIN ops /\ ops'[i] = ops[i + 1]
          /\ \A i \in DOMAIN ops \ {1} : i - 1 \in DOMAIN ops' /\ ops'[i - 1] = ops[i]
      BY <1>5, <2>7, TailOf
    <3>3. Head(ops) \in Ses!Ops
      BY <1>5, <3>2
    <3>4. TextAhead /\ Head(ops) # "text" => TextAhead'
      <4>1. SUFFICES ASSUME NEW i \in DOMAIN ops, ops[i] = "text", ops[1] # "text" PROVE TextAhead'
        BY <3>2 DEF TextAhead
      <4>2. i # 1
        BY <4>1
      <4> QED BY <3>2, <4>1, <4>2 DEF TextAhead
    <3> QED BY <2>7, <3>1, <3>2, <3>3, <3>4
  <2>8. CASE Ses!ReadEnds("fail") \/ Ses!ReadEnds("eof") \/ Ses!GiveUp \/ Ses!HandlerReturns
    <3>1. /\ UNCHANGED <<req, billed, usage, delivered, responder>> /\ reader' # "handle"
          /\ reader # "handle" \/ ops = <<>>
      BY <2>8 DEF Ses!ReadEnds, Ses!GiveUp, Ses!HandlerReturns
    <3>2. ops = <<>> => ~TextAhead
      BY DEF TextAhead
    <3>3. TextKept'
      BY <2>4, <3>1, <3>2
    <3> QED BY <2>3, <3>1, <3>3
  <2>9. CASE Ses!HandlerStep
    <3>1. /\ reader = "handle" /\ ops # <<>> /\ ops' = Tail(ops)
          /\ Head(ops) \in {"text", "usage", "replace", "close", "panic"}
          /\ UNCHANGED <<req, billed, delivered, responder, line>>
      BY <2>9 DEF Ses!HandlerStep
    <3>2. /\ line = "chunk" => Head(ops) = "text"
          /\ line \notin {"usage", "stop"} => Head(ops) \notin {"usage", "replace"}
          /\ line' = "chunk" => \A i \in DOMAIN ops' : ops'[i] \in {"data", "text"}
          /\ line' \notin {"usage", "stop"} => \A i \in DOMAIN ops' : ops'[i] \notin {"usage", "replace"}
      BY <2>7, <3>1
    <3>3. line = "chunk" => Counted'
      BY <3>2, UsageAfter, <2>9 DEF Counted
    <3>4. Counted => Counted'
      <4>1. CASE Head(ops) = "text"
        BY <2>9, <4>1, UsageAfter
      <4>2. CASE Head(ops) \in {"usage", "replace"}
        BY <2>9, <3>2, <4>2, UsageAfter DEF Counted
      <4>3. CASE Head(ops) \in {"close", "panic"}
        BY <2>9, <4>3, UsageAfter DEF Counted
      <4> QED BY <3>1, <4>1, <4>2, <4>3
    <3>5. delivered => Counted'
      BY <1>7, <3>3, <3>4 DEF TextKept
    <3>6. TextKept'
      BY <1>2, <1>5, <3>1, <3>2, <3>3, <3>5 DEF TextKept
    <3> QED BY <2>3, <3>1, <3>6
  <2>10. CASE Ses!Forward
    <3>1. /\ reader = "handle" /\ ops # <<>> /\ ops' = Tail(ops) /\ Head(ops) = "data"
          /\ UNCHANGED <<req, reader, responder, usage, line>> /\ responder = "select" /\ req = "respond"
          /\ delivered' <=> delivered \/ line = "chunk"
      BY <2>1, <2>10 DEF Ses!Forward
    <3>2. /\ line' = "chunk" => \A i \in DOMAIN ops' : ops'[i] \in {"data", "text"}
          /\ line' \notin {"usage", "stop"} => \A i \in DOMAIN ops' : ops'[i] \notin {"usage", "replace"}
          /\ TextAhead => TextAhead'
      BY <2>7, <3>1
    <3>3. line = "chunk" => TextAhead \/ Counted
      BY <1>7, <3>1 DEF TextKept
    <3>4. Counted' <=> Counted
      BY <3>1 DEF Counted
    <3>5. delivered' => Counted' \/ (reader' = "handle" /\ line' = "chunk" /\ TextAhead' /\ responder' = "select")
      BY <1>7, <3>1, <3>2, <3>3, <3>4 DEF TextKept
    <3> QED BY <1>2, <1>5, <3>1, <3>2, <3>3, <3>4, <3>5 DEF TextKept, TextBilled
  <2>11. CASE Ses!HandlerEOF \/ Ses!HandlerError
    <3>1. /\ reader = "handle" /\ ops # <<>> /\ ops' = Tail(ops) /\ Head(ops) \in {"eof", "err"}
          /\ UNCHANGED <<req, billed, reader, usage, line, delivered>>
      BY <2>11 DEF Ses!HandlerEOF, Ses!HandlerError, Ses!Ended
    <3>2. /\ line # "chunk"
          /\ line' \notin {"usage", "stop"} => \A i \in DOMAIN ops' : ops'[i] \notin {"usage", "replace"}
      BY <2>7, <3>1
    <3>3. delivered' => Counted'
      BY <1>7, <3>1, <3>2 DEF TextKept, Counted
    <3>4. TextKept'
      BY <1>2, <1>5, <3>1, <3>2, <3>3 DEF TextKept
    <3> QED BY <2>3, <3>1, <3>4
  <2>12. CASE Ses!ReaderEOF \/ Ses!ReaderError
    <3>1. /\ UNCHANGED <<req, billed, usage, delivered>> /\ reader' = "ended" /\ reader # "handle"
      BY <2>12 DEF Ses!ReaderEOF, Ses!ReaderError, Ses!Ended
    <3>2. TextKept'
      BY <2>4, <3>1
    <3> QED BY <2>3, <3>1, <3>2
  <2>13. CASE Ses!Beat \/ Ses!ClientLeaves
    BY <2>2, <2>13 DEF Ses!Beat, Ses!BeatCancelled, Ses!BeatClientGone, Ses!BeatFires, Ses!BeatWrites,
       Ses!ClientLeaves, Ses!readerVars
  <2> QED BY <2>5, <2>6, <2>8, <2>9, <2>10, <2>11, <2>12, <2>13 DEF Ses!SessionNext, Ses!Reader, Ses!Responder
<1> QED BY <1>6, <1>7

-----------------------------------------------------------------------------
(* The theorems. *)

\* A request begins with nothing written, reserved or read.
LEMMA SesInvInit == ASSUME Ses!SessionInit PROVE SesInv
<1>1. ep \in Ses!Endpoints /\ EndpointIs(ep)
  BY EndpointsAre DEF Ses!SessionInit
<1>2. handler \in DOMAIN Ses!StreamHandler \cup {Ses!NoHandler}
  BY <1>1 DEF Ses!SessionInit, EndpointIs
<1>3. usage \in UsageType
  BY FreshIs DEF Ses!SessionInit
<1>4. BeatKept
  BY DEF Ses!SessionInit, BeatKept
<1>5. WireKept
  BY ShortEnds DEF Ses!SessionInit, WireKept, Ses!OneEnding
<1>6. ReserveKept /\ BodyKept
  BY DEF Ses!SessionInit, ReserveKept, Ses!ReservationSettled, BodyKept
<1>7. TextKept /\ TextBilled /\ BodyBilled
  <2>1. ops = <<>> /\ reader = "none" /\ ~delivered /\ req = "set"
    BY DEF Ses!SessionInit
  <2> QED BY <1>2, <2>1 DEF TextKept, TextBilled, BodyBilled
<1> QED BY <1>1, <1>3, <1>4, <1>5, <1>6, <1>7 DEF SesInv

\* Every step keeps the invariant: the steps of a request by the lemmas above,
\* those of the other parts as they leave the request alone.
LEMMA SesInvStep == ASSUME SesInv, [LiveNext]_allVars PROVE SesInv'
<1>1. EndpointIs(ep)
  BY EndpointsAre DEF SesInv
<1>2. CASE Ses!SessionNext
  <2>1. ep' = ep
    BY <1>2, RequestFixed
  <2>2. BeatKept' /\ WireKept'
    BY <1>2, BeatStep, WireStep DEF SesInv
  <2>3. ReserveKept'
    BY <1>1, <1>2, ReserveStep DEF SesInv
  <2>4. usage' \in UsageType
    BY <1>2, UsageStep DEF SesInv
  <2>5. BodyKept' /\ BodyBilled'
    BY <1>1, <1>2, BodyStep DEF SesInv
  <2>6. TextKept' /\ TextBilled'
    BY <1>2, TextStep DEF SesInv
  <2> QED BY <2>1, <2>2, <2>3, <2>4, <2>5, <2>6 DEF SesInv
<1>3. CASE UNCHANGED sesVars
  <2>1. UNCHANGED <<ep, handler, req, tries, body, client, wire, reader>>
    BY <1>3 DEF sesVars
  <2>2. UNCHANGED <<ops, line, lines, closed, responder, usage, delivered, erred, billed, beat, stopped,
                    headerSent, pings, late>>
    BY <1>3 DEF sesVars
  <2>3. BeatKept' /\ (usage \in UsageType => usage' \in UsageType) /\ ep' = ep
    BY <2>1, <2>2 DEF SesInv, BeatKept
  <2>4. WireKept'
    BY <2>1, <2>2 DEF SesInv, WireKept, Ses!OneEnding
  <2>5. ReserveKept'
    BY <2>1, <2>2 DEF SesInv, ReserveKept, Ses!ReservationSettled, Ses!NoUsage
  <2>6. BodyKept' /\ BodyBilled'
    BY <2>1, <2>2 DEF SesInv, BodyKept, BodyBilled
  <2>7. TextKept' /\ TextBilled'
    BY <2>1, <2>2 DEF SesInv, TextKept, TextBilled, TextAhead, Counted
  <2> QED BY <2>3, <2>4, <2>5, <2>6, <2>7 DEF SesInv
<1> QED BY <1>2, <1>3 DEF LiveNext, allVars, Relays, Serves, Converts, Proxies

\* The invariant of a relayed request holds of every behaviour.
LEMMA SesInvHolds == LiveSpec => []SesInv
<1>1. LiveInit => SesInv
  BY SesInvInit DEF LiveInit, NoSession
<1>2. SesInv /\ [LiveNext]_allVars => SesInv'
  BY SesInvStep
<1>3. LiveSpec => LiveInit /\ [][LiveNext]_allVars
  BY PTL DEF LiveSpec
<1> QED BY <1>1, <1>2, <1>3, PTL

\* After heartbeat.Stop at most the one write is made that had looked at
\* stopped before (heartbeat.go): every later look finds it set.
THEOREM LateWriteOnceAlways == LiveSpec => []LateWriteOnce
<1>1. SesInv => LateWriteOnce
  BY DEF SesInv, BeatKept, LateWriteOnce, Ses!LateWriteOnce
<1> QED BY <1>1, SesInvHolds, PTL

\* The client is sent one ending, by the responder, the answer's writer or the
\* error path, whichever of them it is (relay/common.go, relay/main.go).
THEOREM OneEndingAlways == LiveSpec => []OneEnding
<1>1. SesInv => OneEnding
  BY DEF SesInv, WireKept, OneEnding
<1> QED BY <1>1, SesInvHolds, PTL

\* The quota that a try reserved is given back or consumed by the time its
\* request is over, for any number of tries, but for the two panics
\* (relay/main.go).
THEOREM ReservationSettledAlways == LiveSpec => []ReservationSettled
<1>1. SesInv => ReservationSettled
  BY DEF SesInv, ReserveKept, ReservationSettled
<1> QED BY <1>1, SesInvHolds, PTL

\* What reached the client is billed, for any lines in any order, any handler
\* that collects the text and however the stream ends.
THEOREM DeliveredIsBilledAlways == LiveSpec => []DeliveredIsBilled
<1>1. SesInv => DeliveredIsBilled
  BY DEF SesInv, TextBilled, BodyBilled, DeliveredIsBilled, Ses!DeliveredIsBilled
<1> QED BY <1>1, SesInvHolds, PTL

-----------------------------------------------------------------------------
(* Realtime: the sum of what the sessions hold *)

\* What a session has in the key.
Held == [s \in Sessions |-> IF phase[s] = "settled" THEN stuck[s] ELSE cacheQuota[s]]

\* MapThenSumSet of RealtimeConserves is such a sum.
LEMMA HeldSum ==
    ASSUME IsFiniteSet(Sessions), \A s \in Sessions : Held[s] \in Int
    PROVE  \E g \in [SUBSET Sessions -> Int] :
              /\ Sums(g, Held, Sessions)
              /\ MapThenSumSet(LAMBDA s : IF phase[s] = "settled" THEN stuck[s] ELSE cacheQuota[s], Sessions)
                   = g[Sessions]
<1> DEFINE unfold(g) == [s \in SUBSET Sessions |->
                          IF s = {} THEN 0
                          ELSE LET x == CHOOSE x \in s : TRUE
                               IN  (IF phase[x] = "settled" THEN stuck[x] ELSE cacheQuota[x]) + g[s \ {x}]]
           iter == CHOOSE g : g = unfold(g)
<1>1. MapThenSumSet(LAMBDA s : IF phase[s] = "settled" THEN stuck[s] ELSE cacheQuota[s], Sessions) = iter[Sessions]
  BY DEF MapThenSumSet, MapThenFoldSet
<1>2. PICK h \in [SUBSET Sessions -> Int] : Sums(h, Held, Sessions)
  BY SumExists
<1>3. ASSUME NEW s \in SUBSET Sessions, s # {}
      PROVE  Held[Taken(s)] = IF phase[Taken(s)] = "settled" THEN stuck[Taken(s)] ELSE cacheQuota[Taken(s)]
  BY <1>3, TakenIn DEF Held
<1>4. h = unfold(h)
  <2>1. \A s \in SUBSET Sessions : h[s] = unfold(h)[s]
    BY <1>2, <1>3 DEF Sums, Taken
  <2>2. unfold(h) = [s \in SUBSET Sessions |-> unfold(h)[s]] /\ h = [s \in SUBSET Sessions |-> h[s]]
    BY <1>2
  <2> HIDE DEF unfold
  <2> QED BY <2>1, <2>2
<1>5. iter = unfold(iter)
  <2> HIDE DEF unfold
  <2> QED BY <1>4, Zenon
<1>6. Sums(iter, Held, Sessions)
  <2> HIDE DEF iter
  <2>1. ASSUME NEW s \in SUBSET Sessions
        PROVE  iter[s] = IF s = {} THEN 0 ELSE Held[Taken(s)] + iter[s \ {Taken(s)}]
    <3>1. iter[s] = unfold(iter)[s]
      BY <1>5
    <3> QED BY <1>3, <3>1 DEF Taken
  <2> QED BY <2>1 DEF Sums
<1>7. IntSums(h, Sessions)
  BY <1>2 DEF IntSums
<1> HIDE DEF iter
<1>8. iter[Sessions] = h[Sessions]
  BY <1>2, <1>6, <1>7, SumUnique
<1> QED BY <1>1, <1>2, <1>8

-----------------------------------------------------------------------------
(* Sessions *)

Phases == {"connect", "proxy", "aborted", "closing", "bill", "settled"}

RtTyped ==
    /\ phase \in [Sessions -> Phases] /\ tryLeft \in [Sessions -> Int]
    /\ open \in [Sessions -> SUBSET Sides]
    /\ transfer \in [Sessions -> [Sides -> {"read", "usage", "left", "gone"}]]
    /\ waiting \in [Sessions -> BOOLEAN]
    /\ spent \in [Sessions -> Nat] /\ cacheQuota \in [Sessions -> Nat] /\ bill \in [Sessions -> Nat]
    /\ realtimeKey \in Int /\ overdue \in [Sessions -> Nat] /\ stuck \in [Sessions -> Nat]

\* Usage that is read when the session is closed is merged once more at most.
Closes(s) ==
    /\ phase[s] \in {"connect", "aborted"} => transfer[s]["supplier"] = "read"
    /\ phase[s] \in {"closing", "bill", "settled"} => open[s] = {}
    /\ phase[s] \notin {"bill", "settled"} => overdue[s] = 0
    /\ phase[s] # "settled" => stuck[s] = 0
    /\ phase[s] \in {"bill", "settled"} => bill[s] + overdue[s] = spent[s]
    /\ transfer[s]["supplier"] = "usage" => overdue[s] = 0
    /\ overdue[s] \in {0, Price}

\* The key is what the sessions hold.
Conserved == Totals(realtimeKey, Held, Sessions)

\* The sessions whose next response may still be added to the key.
Armed == {s \in Sessions : transfer[s]["supplier"] \in {"read", "usage"}}

\* Each session that has stopped reading may have gone over by one response.
Bounded == realtimeKey < Allowance + Price * Cardinality(Sessions \ Armed)

RtInv == RtTyped /\ (\A s \in Sessions : Closes(s)) /\ Conserved /\ Bounded

\* Multiples of the price.
LEMMA Priced ==
    /\ \A n \in Nat : Price * n \in Nat /\ Price * (n + 1) = Price * n + Price
    /\ \A n, m \in Nat : n <= m => Price * n <= Price * m
    /\ Allowance \in Int /\ Allowance >= 1 /\ Allowance >= UserQuota
<1>1. Price \in Nat /\ UserQuota \in Int
  BY RealtimeAssumption
<1>2. \A n \in Nat : Price * n \in Nat /\ Price * (n + 1) = Price * n + Price
  BY <1>1
<1>3. ASSUME NEW n \in Nat, NEW m \in Nat, n <= m PROVE Price * n <= Price * m
  <2>1. PICK k \in Nat : m = n + k
    <3>1. m - n \in Nat /\ m = n + (m - n)
      BY <1>3
    <3> QED BY <3>1
  <2>2. Price * m = Price * n + Price * k /\ Price * k >= 0
    BY <1>1, <2>1
  <2> QED BY <1>1, <2>2
<1> QED BY <1>1, <1>2, <1>3 DEF Allowance

\* What is held is a number.
LEMMA HeldType == RtTyped => \A s \in Sessions : Held[s] \in Int
BY DEF RtTyped, Held

\* What leaves both the key and the holdings as they are.
LEMMA Unheld ==
    ASSUME RtTyped, Conserved, \A s \in Sessions : Held'[s] = Held[s], realtimeKey' = realtimeKey
    PROVE  Conserved'
<1>1. PICK g \in [SUBSET Sessions -> Int] : Sums(g, Held, Sessions) /\ realtimeKey = g[Sessions]
  BY DEF Conserved, Totals
<1>2. Sums(g, Held', Sessions)
  BY <1>1, TakenIn DEF Sums
<1> QED BY <1>1, <1>2 DEF Conserved, Totals

\* Before the first connection nothing is held.
LEMMA RtInvInit == RealtimeInit => RtInv
<1> SUFFICES ASSUME RealtimeInit PROVE RtInv
  OBVIOUS
<1>0. ConnectTries \in Nat /\ Price \in Nat \ {0} /\ UserQuota \in Int /\ IsFiniteSet(Sessions)
  BY RealtimeAssumption
<1>1. RtTyped
  BY <1>0 DEF RealtimeInit, RtTyped, Sides, Phases
<1>2. \A s \in Sessions : Closes(s)
  BY DEF RealtimeInit, Closes, Sides
<1>3. Conserved
  <2> DEFINE g == [s \in SUBSET Sessions |-> 0]
  <2>1. \A s \in Sessions : Held[s] = 0
    BY DEF Held, RealtimeInit
  <2>2. Sums(g, Held, Sessions)
    BY <2>1, TakenIn DEF Sums
  <2>3. realtimeKey = 0 /\ g[Sessions] = 0 /\ g \in [SUBSET Sessions -> Int]
    BY DEF RealtimeInit
  <2> HIDE DEF g
  <2> QED BY <2>2, <2>3 DEF Conserved, Totals
<1>4. Bounded
  <2>1. Sessions \ Armed = {}
    BY DEF Armed, RealtimeInit, Sides
  <2>2. Cardinality(Sessions \ Armed) = 0
    BY <2>1, FS_EmptySet
  <2> QED BY <2>2, Priced DEF Bounded, RealtimeInit
<1> QED BY <1>1, <1>2, <1>3, <1>4 DEF RtInv

\* One session disarmed is one more that is not armed.
LEMMA ArmedLess ==
    ASSUME NEW s \in Sessions, Armed' = Armed \/ Armed' = Armed \ {s}
    PROVE  LET n == Cardinality(Sessions \ Armed)
               m == (Cardinality(Sessions \ Armed))'
           IN  n \in Nat /\ m \in Nat /\ (m = n \/ m = n + 1) /\ (s \in Armed /\ Armed' = Armed \ {s} => m = n + 1)
<1>1. IsFiniteSet(Sessions \ Armed)
  BY RealtimeAssumption, FS_Difference
<1>2. Cardinality(Sessions \ Armed) \in Nat
  BY <1>1, FS_CardinalityType
<1>3. (Sessions \ Armed)' = Sessions \ Armed \/ (Sessions \ Armed)' = (Sessions \ Armed) \cup {s}
  OBVIOUS
<1>4. s \in Armed /\ Armed' = Armed \ {s} => s \notin Sessions \ Armed /\ (Sessions \ Armed)' = (Sessions \ Armed) \cup {s}
  OBVIOUS
<1>5. Cardinality((Sessions \ Armed) \cup {s}) =
        IF s \in Sessions \ Armed THEN Cardinality(Sessions \ Armed) ELSE Cardinality(Sessions \ Armed) + 1
  BY <1>1, FS_AddElement
<1> QED BY <1>2, <1>3, <1>4, <1>5

\* Every step of a session keeps the key and the holdings together.
LEMMA RtInvStep == RtInv /\ [RealtimeNext]_rtVars => RtInv'
<1> SUFFICES ASSUME RtInv, [RealtimeNext]_rtVars PROVE RtInv'
  OBVIOUS
<1> USE DEF RtInv
<1>0. Price \in Nat \ {0}
  BY RealtimeAssumption
<1>1. CASE UNCHANGED rtVars
  <2>1. UNCHANGED <<phase, tryLeft, open, transfer, waiting, spent, cacheQuota, bill, realtimeKey, overdue, stuck>>
    BY <1>1 DEF rtVars
  <2>2. RtTyped' /\ (\A s \in Sessions : Closes(s)')
    BY <2>1 DEF RtTyped, Closes
  <2>3. Conserved'
    BY <2>1, Unheld DEF Held
  <2> QED BY <2>1, <2>2, <2>3 DEF Bounded, Armed
<1>2. ASSUME NEW s \in Sessions, RealtimeStep(s) PROVE RtInv'
  <2> DEFINE Others == \A q \in Sessions \ {s} :
                /\ phase'[q] = phase[q] /\ open'[q] = open[q] /\ transfer'[q] = transfer[q]
                /\ overdue'[q] = overdue[q] /\ stuck'[q] = stuck[q] /\ bill'[q] = bill[q] /\ spent'[q] = spent[q]
             Kept == RtTyped' /\ Others
  <2>1. ASSUME Others, Closes(s)' PROVE \A q \in Sessions : Closes(q)'
    <3>1. ASSUME NEW q \in Sessions \ {s} PROVE Closes(q)'
      BY <2>1 DEF Closes
    <3> QED BY <2>1, <3>1
  \* Steps that touch neither the key nor what is held.
  <2>2. ASSUME RtTyped', Others, Closes(s)', realtimeKey' = realtimeKey, Held'[s] = Held[s], cacheQuota' = cacheQuota,
               Armed' = Armed \/ Armed' = Armed \ {s}
        PROVE  RtInv'
    <3>1. \A q \in Sessions : Held'[q] = Held[q]
      BY <2>2 DEF Held
    <3>2. Conserved'
      BY <2>2, <3>1, Unheld
    <3>3. Bounded'
      <4> DEFINE n == Cardinality(Sessions \ Armed)
                 m == (Cardinality(Sessions \ Armed))'
      <4>1. n \in Nat /\ m \in Nat /\ (m = n \/ m = n + 1)
        BY <2>2, ArmedLess
      <4>2. realtimeKey < Allowance + Price * n
        BY DEF Bounded
      <4>3. (Allowance + Price * Cardinality(Sessions \ Armed))' = Allowance + Price * m
        BY DEF Allowance
      <4> HIDE DEF n, m
      <4>4. realtimeKey' < Allowance + Price * m
        <5> DEFINE a == Price * n
                   b == Price * m
        <5>1. a \in Nat /\ b \in Nat /\ a <= b
          BY <4>1, Priced
        <5>2. realtimeKey < Allowance + a /\ Allowance \in Int /\ realtimeKey \in Int
          BY <4>2, Priced DEF RtTyped
        <5> HIDE DEF a, b
        <5>3. realtimeKey' < Allowance + b
          BY <2>2, <5>1, <5>2
        <5> QED BY <5>3 DEF b
      <4> QED BY <4>3, <4>4 DEF Bounded, n, m
    <3> QED BY <2>1, <2>2, <3>2, <3>3
  <2>3. CASE Connected(s)
    <3>1. Kept /\ Closes(s)'
      BY <2>3 DEF Connected, RtTyped, Closes, Phases, Sides
    <3>2. realtimeKey' = realtimeKey /\ cacheQuota' = cacheQuota /\ Armed' = Armed /\ Held'[s] = Held[s]
      BY <2>3 DEF Connected, RtTyped, Armed, Held
    <3> QED BY <2>2, <3>1, <3>2
  <2>4. CASE ConnectFails(s)
    <3>1. Kept /\ Closes(s)'
      BY <2>4 DEF ConnectFails, RtTyped, Closes
    <3>2. realtimeKey' = realtimeKey /\ cacheQuota' = cacheQuota /\ Armed' = Armed /\ Held'[s] = Held[s]
      BY <2>4 DEF ConnectFails, RtTyped, Armed, Held
    <3> QED BY <2>2, <3>1, <3>2
  <2>5. CASE AbortWithMessage(s)
    <3>1. Kept /\ Closes(s)'
      BY <2>5 DEF AbortWithMessage, RtTyped, Closes, Phases
    <3>2. realtimeKey' = realtimeKey /\ cacheQuota' = cacheQuota /\ Armed' = Armed /\ Held'[s] = Held[s]
      BY <2>5 DEF AbortWithMessage, RtTyped, Armed, Held
    <3> QED BY <2>2, <3>1, <3>2
  <2>6. ASSUME NEW side \in Sides, TransferEnds(s, side) PROVE RtInv'
    <3>1. transfer' = [transfer EXCEPT ![s] = [transfer[s] EXCEPT ![side] = "left"]]
      BY <2>6 DEF TransferEnds, Move
    <3>2. RtTyped' /\ Others
      BY <2>6, <3>1 DEF TransferEnds, RtTyped
    <3>3. transfer'[s]["supplier"] = IF side = "supplier" THEN "left" ELSE transfer[s]["supplier"]
      BY <3>1 DEF RtTyped, Sides
    <3>4. Closes(s)'
      BY <2>6, <3>3 DEF TransferEnds, Closes, Running
    <3>5. realtimeKey' = realtimeKey /\ cacheQuota' = cacheQuota /\ Held'[s] = Held[s]
      BY <2>6 DEF TransferEnds, RtTyped, Held
    <3>6. Armed' = Armed \/ Armed' = Armed \ {s}
      BY <3>2, <3>3 DEF Armed
    <3> QED BY <2>2, <3>2, <3>4, <3>5, <3>6
  <2>7. ASSUME NEW side \in Sides, Done(s, side) PROVE RtInv'
    <3>1. transfer' = [transfer EXCEPT ![s] = [transfer[s] EXCEPT ![side] = "gone"]]
      BY <2>7 DEF Done, Move
    <3>2. RtTyped' /\ Others
      BY <2>7, <3>1 DEF Done, RtTyped
    <3>3. transfer'[s]["supplier"] = IF side = "supplier" THEN "gone" ELSE transfer[s]["supplier"]
      BY <3>1 DEF RtTyped, Sides
    <3>4. Closes(s)'
      BY <2>7, <3>3 DEF Done, Closes
    <3>5. realtimeKey' = realtimeKey /\ cacheQuota' = cacheQuota /\ Held'[s] = Held[s]
      BY <2>7 DEF Done, RtTyped, Held
    <3>6. Armed' = Armed \/ Armed' = Armed \ {s}
      BY <3>2, <3>3 DEF Armed
    <3> QED BY <2>2, <3>2, <3>4, <3>5, <3>6
  <2>8. CASE ReadUsage(s)
    <3>1. transfer' = [transfer EXCEPT ![s] = [transfer[s] EXCEPT !["supplier"] = "usage"]]
      BY <2>8 DEF ReadUsage, Move
    <3>2. RtTyped' /\ Others
      BY <2>8, <3>1 DEF ReadUsage, RtTyped
    <3>3. transfer'[s]["supplier"] = "usage"
      BY <3>1 DEF RtTyped, Sides
    <3>4. Closes(s)'
      BY <2>8, <3>3 DEF ReadUsage, Closes, Running, RtTyped, Phases
    <3>5. realtimeKey' = realtimeKey /\ cacheQuota' = cacheQuota /\ Held'[s] = Held[s]
      BY <2>8 DEF ReadUsage, RtTyped, Held
    <3>6. Armed' = Armed
      BY <2>8, <3>2, <3>3 DEF Armed, ReadUsage
    <3> QED BY <2>2, <3>2, <3>4, <3>5, <3>6
  <2>9. CASE UpdateUserRealtimeQuota(s)
    <3>0. PICK place \in {"left", "read"} :
            /\ transfer' = [transfer EXCEPT ![s] = [transfer[s] EXCEPT !["supplier"] = place]]
            /\ place = "read" => realtimeKey' < UserQuota
      BY <2>9, Zenon DEF UpdateUserRealtimeQuota, Move
    <3>1. /\ transfer[s]["supplier"] = "usage" /\ realtimeKey' = realtimeKey + Price
          /\ cacheQuota' = [cacheQuota EXCEPT ![s] = @ + Price] /\ spent' = [spent EXCEPT ![s] = @ + Price]
          /\ overdue' = [overdue EXCEPT ![s] = IF phase[s] \in {"bill", "settled"} THEN @ + Price ELSE @]
          /\ stuck' = [stuck EXCEPT ![s] = IF phase[s] = "settled" THEN @ + Price ELSE @]
          /\ UNCHANGED <<phase, tryLeft, open, waiting, bill>>
      BY <2>9 DEF UpdateUserRealtimeQuota, Overdue
    <3>2. RtTyped' /\ Others
      <4>1. transfer' \in [Sessions -> [Sides -> {"read", "usage", "left", "gone"}]]
        BY <3>0 DEF RtTyped
      <4>2. spent' \in [Sessions -> Nat] /\ cacheQuota' \in [Sessions -> Nat] /\ realtimeKey' \in Int
        BY <1>0, <3>1 DEF RtTyped
      <4>3. overdue' \in [Sessions -> Nat]
        BY <1>0, <3>1 DEF RtTyped
      <4>4. stuck' \in [Sessions -> Nat]
        BY <1>0, <3>1 DEF RtTyped
      <4>5. RtTyped'
        BY <3>1, <4>1, <4>2, <4>3, <4>4 DEF RtTyped
      <4>6. Others
        BY <3>0, <3>1 DEF RtTyped
      <4> QED BY <4>5, <4>6
    <3>3. transfer'[s]["supplier"] = place
      BY <3>0 DEF RtTyped, Sides
    <3>4. Closes(s)'
      BY <1>0, <3>1, <3>3 DEF Closes, RtTyped
    <3>5. Shifted(Held, Held', s, Price, Sessions)
      BY <1>0, <3>1 DEF RtTyped, Held, Shifted
    <3>6. Conserved'
      <4>1. realtimeKey' = realtimeKey + Price /\ Price \in Int /\ realtimeKey \in Int
        BY <1>0, <3>1 DEF RtTyped
      <4>2. Totals(realtimeKey, Held, Sessions)
        BY DEF Conserved
      <4>3. Totals(realtimeKey + Price, Held', Sessions)
        BY <3>5, <4>1, <4>2, SumMoves, RealtimeAssumption
      <4> QED BY <4>1, <4>3 DEF Conserved
    <3>7. Bounded'
      <4> DEFINE n == Cardinality(Sessions \ Armed)
                 m == (Cardinality(Sessions \ Armed))'
      <4>1. s \in Armed
        BY <3>1 DEF Armed
      <4>2. (place = "left" => Armed' = Armed \ {s}) /\ (place = "read" => Armed' = Armed)
        BY <3>0, <3>2, <3>3, <4>1 DEF Armed
      <4>3. n \in Nat /\ m \in Nat /\ (place = "left" => m = n + 1)
        BY <3>0, <4>1, <4>2, ArmedLess
      <4>4. realtimeKey < Allowance + Price * n
        BY DEF Bounded
      <4>5. (Allowance + Price * Cardinality(Sessions \ Armed))' = Allowance + Price * m
        BY DEF Allowance
      <4> HIDE DEF n, m
      <4>6. CASE place = "left"
        <5>1. realtimeKey' < Allowance + Price * m
          <6> DEFINE a == Price * n
                     b == Price * m
          <6>1. a \in Nat /\ b = a + Price
            BY <4>3, <4>6, Priced
          <6>2. realtimeKey < Allowance + a /\ Allowance \in Int /\ realtimeKey \in Int
            BY <4>4, Priced DEF RtTyped
          <6> HIDE DEF a, b
          <6>3. realtimeKey' < Allowance + b
            BY <1>0, <3>1, <6>1, <6>2
          <6> QED BY <6>3 DEF b
        <5> QED BY <4>5, <5>1 DEF Bounded, n, m
      <4>7. CASE place = "read"
        <5>1. realtimeKey' < Allowance + Price * m
          <6> DEFINE b == Price * m
          <6>1. b \in Nat
            BY <4>3, Priced
          <6>2. realtimeKey' < UserQuota /\ Allowance >= UserQuota /\ Allowance \in Int
                /\ UserQuota \in Int /\ realtimeKey' \in Int
            BY <3>0, <3>2, <4>7, Priced, RealtimeAssumption DEF RtTyped
          <6> HIDE DEF b
          <6>3. realtimeKey' < Allowance + b
            BY <6>1, <6>2
          <6> QED BY <6>3 DEF b
        <5> QED BY <4>5, <5>1 DEF Bounded, n, m
      <4> QED BY <3>0, <4>6, <4>7
    <3> QED BY <2>1, <3>2, <3>4, <3>6, <3>7
  <2>10. CASE Close(s)
    <3>1. Kept /\ Closes(s)'
      BY <2>10 DEF Close, RtTyped, Closes, Phases
    <3>2. realtimeKey' = realtimeKey /\ cacheQuota' = cacheQuota /\ Armed' = Armed /\ Held'[s] = Held[s]
      BY <2>10 DEF Close, RtTyped, Armed, Held
    <3> QED BY <2>2, <3>1, <3>2
  <2>11. CASE Consume(s)
    <3>1. Kept /\ Closes(s)'
      BY <1>0, <2>11 DEF Consume, RtTyped, Closes, Phases
    <3>2. realtimeKey' = realtimeKey /\ cacheQuota' = cacheQuota /\ Armed' = Armed /\ Held'[s] = Held[s]
      BY <2>11 DEF Consume, RtTyped, Armed, Held
    <3> QED BY <2>2, <3>1, <3>2
  <2>12. CASE Settle(s)
    <3>1. Kept /\ Closes(s)' /\ realtimeKey' = realtimeKey - cacheQuota[s]
      BY <2>12 DEF Settle, RtTyped, Closes, Phases
    <3>2. \A q \in Sessions : Held[q] \in Int /\ Held'[q] = Held[q] + (IF q = s THEN -cacheQuota[s] ELSE 0)
      BY <2>12 DEF Settle, RtTyped, Held, Closes
    <3>3. Conserved'
      <4>1. realtimeKey' = realtimeKey + (-cacheQuota[s]) /\ -cacheQuota[s] \in Int /\ realtimeKey \in Int
        BY <3>1 DEF RtTyped
      <4>2. Totals(realtimeKey, Held, Sessions)
        BY DEF Conserved
      <4> DEFINE d == -cacheQuota[s]
      <4>3. d \in Int /\ Shifted(Held, Held', s, d, Sessions)
        BY <3>2, <4>1 DEF Shifted
      <4> HIDE DEF d
      <4>4. Totals(realtimeKey + d, Held', Sessions)
        BY <4>1, <4>2, <4>3, SumMoves, RealtimeAssumption
      <4> QED BY <4>1, <4>4 DEF Conserved, d
    <3>4. Bounded'
      <4>1. Armed' = Armed
        BY <2>12 DEF Settle, Armed
      <4>2. cacheQuota[s] \in Nat /\ realtimeKey \in Int
        BY DEF RtTyped
      <4>3. (Allowance + Price * Cardinality(Sessions \ Armed))' = Allowance + Price * Cardinality(Sessions \ Armed)
        BY <4>1 DEF Allowance
      <4>4. Allowance + Price * Cardinality(Sessions \ Armed) \in Int
        <5>1. Cardinality(Sessions \ Armed) \in Nat
          BY RealtimeAssumption, FS_Difference, FS_CardinalityType
        <5>2. Price * Cardinality(Sessions \ Armed) \in Nat
          BY <5>1, Priced
        <5> QED BY <5>2, Priced
      <4> QED BY <3>1, <4>2, <4>3, <4>4 DEF Bounded
    <3> QED BY <2>1, <3>1, <3>3, <3>4
  <2> QED BY <1>2, <2>3, <2>4, <2>5, <2>6, <2>7, <2>8, <2>9, <2>10, <2>11, <2>12 DEF RealtimeStep
<1> QED BY <1>1, <1>2 DEF RealtimeNext

\* The invariant contains both halves of RealtimeBilled.
LEMMA RtInvMeans == RtInv => RealtimeConserves /\ RealtimeOverrun
<1> SUFFICES ASSUME RtInv PROVE RealtimeConserves /\ RealtimeOverrun
  OBVIOUS
<1>1. realtimeKey = MapThenSumSet(LAMBDA s : IF phase[s] = "settled" THEN stuck[s] ELSE cacheQuota[s], Sessions)
  <2>1. \A s \in Sessions : Held[s] \in Int
    BY HeldType DEF RtInv
  <2>2. PICK g \in [SUBSET Sessions -> Int] : Sums(g, Held, Sessions) /\ realtimeKey = g[Sessions]
    BY DEF RtInv, Conserved, Totals
  <2>3. PICK k \in [SUBSET Sessions -> Int] :
            /\ Sums(k, Held, Sessions)
            /\ MapThenSumSet(LAMBDA s : IF phase[s] = "settled" THEN stuck[s] ELSE cacheQuota[s], Sessions) = k[Sessions]
    BY <2>1, HeldSum, RealtimeAssumption
  <2>4. IntSums(g, Sessions)
    BY DEF IntSums
  <2>5. k[Sessions] = g[Sessions]
    BY <2>1, <2>2, <2>3, <2>4, SumUnique, RealtimeAssumption
  <2> QED BY <2>2, <2>3, <2>5
<1>2. ASSUME NEW s \in Sessions
      PROVE  (phase[s] \in {"bill", "settled"} => bill[s] + overdue[s] = spent[s]) /\ overdue[s] <= Price
  BY RealtimeAssumption DEF RtInv, Closes
<1>3. RealtimeOverrun
  <2>1. IsFiniteSet(Sessions) /\ Sessions \ Armed \in SUBSET Sessions
    BY RealtimeAssumption
  <2>2. Cardinality(Sessions \ Armed) \in Nat /\ Cardinality(Sessions) \in Nat
        /\ Cardinality(Sessions \ Armed) <= Cardinality(Sessions)
    BY <2>1, FS_Subset, FS_CardinalityType
  <2>3. Price * Cardinality(Sessions \ Armed) <= Price * Cardinality(Sessions)
    BY <2>2, Priced
  <2> QED BY <2>2, <2>3, Priced DEF RtInv, Bounded, RealtimeOverrun, RtTyped
<1> QED BY <1>1, <1>2, <1>3 DEF RealtimeConserves

\* The key user_realtime_quota is what the sessions hold that are not settled,
\* each is billed for every response but one, and the user's quota is exceeded
\* by at most one response per session (relay/realtime.go), for any number of
\* sessions and responses.
THEOREM RealtimeBilledAlways == LiveSpec => []RealtimeBilled
<1>1. LiveInit => RtInv
  BY RtInvInit DEF LiveInit
<1>2. ASSUME RtInv, [LiveNext]_allVars PROVE RtInv'
  <2>1. [RealtimeNext]_rtVars
    BY <1>2 DEF LiveNext, allVars, Relays, Serves, Converts, Proxies
  <2> QED BY <1>2, <2>1, RtInvStep
<1>3. LiveSpec => LiveInit /\ [][LiveNext]_allVars
  BY PTL DEF LiveSpec
<1>4. RtInv => RealtimeBilled
  BY RtInvMeans DEF RealtimeBilled
<1> QED BY <1>1, <1>2, <1>3, <1>4, PTL
-----------------------------------------------------------------------------
(* The converter: how many events of a name there are *)

\* The events the converter writes.
EventNames == {"created", "in_progress", "item.added", "item.done", "part.added", "part.done",
          "text.delta", "text.done", "arguments.delta", "arguments.done", "error",
          "completed", "incomplete"}
Events == [name : EventNames, item : Nat, part : Nat]

\* How many of the first n have one of these names.
Tally(out, names, n) == Cardinality({i \in 1..n : out[i].name \in names})

\* An event more is counted if it has such a name, at its place and not before.
LEMMA TallyAppend ==
    ASSUME NEW out \in Seq(Events), NEW e \in Events, NEW names
    PROVE  /\ \A n \in 0..Len(out) : Tally(Append(out, e), names, n) = Tally(out, names, n)
           /\ Tally(Append(out, e), names, Len(out) + 1)
                = Tally(out, names, Len(out)) + (IF e.name \in names THEN 1 ELSE 0)
           /\ \A n \in 0..Len(out) : Tally(out, names, n) \in Nat
<1> DEFINE more == Append(out, e)
           set(s, n) == {i \in 1..n : s[i].name \in names}
           len == Len(out)
<1>1. /\ len \in Nat /\ more \in Seq(Events) /\ Len(more) = len + 1
      /\ \A i \in 1..len : more[i] = out[i]
      /\ more[len + 1] = e
  OBVIOUS
<1>2. \A n \in 0..len : set(more, n) = set(out, n)
  BY <1>1
<1>3. \A n \in 0..len : IsFiniteSet(set(out, n))
  <2> SUFFICES ASSUME NEW n \in 0..len PROVE IsFiniteSet(set(out, n))
    OBVIOUS
  <2>1. n \in Nat /\ set(out, n) \subseteq 1..n
    BY <1>1
  <2>2. IsFiniteSet(1..n)
    BY <2>1, FS_Interval
  <2> HIDE DEF set
  <2> QED BY <2>1, <2>2, FS_Subset
<1>4. set(more, len + 1) = IF e.name \in names THEN set(out, len) \cup {len + 1} ELSE set(out, len)
  BY <1>1
<1>5. len + 1 \notin set(out, len)
  BY <1>1
<1> HIDE DEF set, more
<1>6. Cardinality(set(more, len + 1)) = Cardinality(set(out, len)) + (IF e.name \in names THEN 1 ELSE 0)
  <2>1. len \in 0..len /\ IsFiniteSet(set(out, len))
    BY <1>1, <1>3
  <2>2. Cardinality(set(out, len) \cup {len + 1}) = Cardinality(set(out, len)) + 1
    BY <1>5, <2>1, FS_AddElement
  <2>3. Cardinality(set(out, len)) \in Nat
    BY <2>1, FS_CardinalityType
  <2> QED BY <1>4, <2>2, <2>3
<1>7. \A n \in 0..len : Cardinality(set(out, n)) \in Nat
  BY <1>3, FS_CardinalityType
<1> QED BY <1>2, <1>6, <1>7 DEF Tally, set, more

ItemEvents == {"item.added", "item.done", "part.added", "part.done", "text.delta",
               "text.done", "arguments.delta", "arguments.done"}
PartEvents == {"part.added", "part.done", "text.delta", "text.done"}

\* What EventsNested says of one event.
Nested(out, n) ==
    LET e    == out[n]
        item == Tally(out, {"item.added"}, n) - Tally(out, {"item.done"}, n - 1)
        within == Tally(out, {"part.added"}, n) - Tally(out, {"part.done"}, n - 1)
    IN  /\ item \in {0, 1} /\ within \in {0, 1}
        /\ e.name \in ItemEvents => item = 1 /\ e.item = Tally(out, {"item.added"}, n)
        /\ e.name \in PartEvents => within = 1 /\ e.part = Tally(out, {"part.added"}, n)
        /\ e.name \in {"item.added", "item.done"} => within = 0

\* Events that are nested, of which so many begin and end items and parts.
Nests(out, added, done, begun, ended) ==
    /\ out \in Seq(Events)
    /\ \A n \in 1..Len(out) : Nested(out, n)
    /\ added = Tally(out, {"item.added"}, Len(out)) /\ done = Tally(out, {"item.done"}, Len(out))
    /\ begun = Tally(out, {"part.added"}, Len(out)) /\ ended = Tally(out, {"part.done"}, Len(out))

OneIf(e, name) == IF e.name = name THEN 1 ELSE 0

\* An event that is in its place keeps them nested.
LEMMA NestsAppend ==
    ASSUME NEW out, NEW a, NEW d, NEW p, NEW q, Nests(out, a, d, p, q), NEW e \in Events,
           LET item == (a + OneIf(e, "item.added")) - d
               within == (p + OneIf(e, "part.added")) - q
           IN  /\ item \in {0, 1} /\ within \in {0, 1}
               /\ e.name \in ItemEvents => item = 1 /\ e.item = a + OneIf(e, "item.added")
               /\ e.name \in PartEvents => within = 1 /\ e.part = p + OneIf(e, "part.added")
               /\ e.name \in {"item.added", "item.done"} => within = 0
    PROVE  Nests(Append(out, e), a + OneIf(e, "item.added"), d + OneIf(e, "item.done"),
                 p + OneIf(e, "part.added"), q + OneIf(e, "part.done"))
<1> DEFINE more == Append(out, e)
           len == Len(out)
<1>1. out \in Seq(Events) /\ len \in Nat /\ more \in Seq(Events) /\ Len(more) = len + 1
      /\ (\A i \in 1..len : more[i] = out[i]) /\ more[len + 1] = e
  BY DEF Nests
<1>2. /\ \A names : \A n \in 0..len : Tally(more, names, n) = Tally(out, names, n)
      /\ \A name : Tally(more, {name}, len + 1) = Tally(out, {name}, len) + OneIf(e, name)
  <2>1. ASSUME NEW names
        PROVE  /\ \A n \in 0..len : Tally(more, names, n) = Tally(out, names, n)
               /\ Tally(more, names, len + 1) = Tally(out, names, len) + (IF e.name \in names THEN 1 ELSE 0)
    BY <1>1, TallyAppend
  <2> HIDE DEF more
  <2>2. ASSUME NEW name PROVE Tally(more, {name}, len + 1) = Tally(out, {name}, len) + OneIf(e, name)
    <3>1. e.name \in {name} <=> e.name = name
      OBVIOUS
    <3> QED BY <2>1, <3>1 DEF OneIf
  <2> QED BY <2>1, <2>2
<1> HIDE DEF more
<1>3. ASSUME NEW n \in 1..len PROVE Nested(more, n)
  <2>1. n \in 0..len /\ n - 1 \in 0..len /\ more[n] = out[n] /\ Nested(out, n)
    BY <1>1 DEF Nests
  <2>2. \A name : Tally(more, {name}, n) = Tally(out, {name}, n) /\ Tally(more, {name}, n - 1) = Tally(out, {name}, n - 1)
    BY <1>2, <2>1
  <2> QED BY <2>1, <2>2 DEF Nested
<1>4. Nested(more, len + 1)
  <2>1. (len + 1) - 1 = len /\ len \in 0..len
    BY <1>1
  <2>2. /\ Tally(more, {"item.added"}, len + 1) = a + OneIf(e, "item.added")
        /\ Tally(more, {"part.added"}, len + 1) = p + OneIf(e, "part.added")
        /\ Tally(more, {"item.done"}, len) = d
        /\ Tally(more, {"part.done"}, len) = q
    BY <1>2, <2>1 DEF Nests
  <2>3. more[len + 1] = e
    BY <1>1
  <2> DEFINE item == Tally(more, {"item.added"}, len + 1) - Tally(more, {"item.done"}, len)
             within == Tally(more, {"part.added"}, len + 1) - Tally(more, {"part.done"}, len)
  <2>4. item = (a + OneIf(e, "item.added")) - d /\ within = (p + OneIf(e, "part.added")) - q
    BY <2>2
  <2> HIDE DEF item, within
  <2>5. /\ item \in {0, 1} /\ within \in {0, 1}
        /\ e.name \in ItemEvents => item = 1 /\ e.item = Tally(more, {"item.added"}, len + 1)
        /\ e.name \in PartEvents => within = 1 /\ e.part = Tally(more, {"part.added"}, len + 1)
        /\ e.name \in {"item.added", "item.done"} => within = 0
    BY <2>2, <2>4
  <2> QED BY <2>1, <2>3, <2>5 DEF Nested, item, within
<1>5. \A n \in 1..Len(more) : Nested(more, n)
  <2>1. \A n \in 1..Len(more) : n \in 1..len \/ n = len + 1
    BY <1>1
  <2> QED BY <1>3, <1>4, <2>1
<1>6. Nests(more, a + OneIf(e, "item.added"), d + OneIf(e, "item.done"), p + OneIf(e, "part.added"), q + OneIf(e, "part.done"))
  BY <1>1, <1>2, <1>5 DEF Nests
<1> QED BY <1>6 DEF more

-----------------------------------------------------------------------------
(* The converter's record *)

ConvType ==
    [first : BOOLEAN, lastIndex : Int, lastType : Conv!ItemTypes \cup {""}, lastTool : Int,
     item : Nat, items : Nat, part : Nat, parts : Nat, content : Seq(Nat),
     output : Seq([item : Nat, content : Seq(Nat)]), status : {"", "completed", "incomplete"}, over : BOOLEAN]

ConvStates == [c : ConvType, out : Seq(Events)]

OpenOf(n) == IF n = Conv!None THEN 0 ELSE 1

\* What is open is what was begun last; what has ended is in the output.
Shaped(c) ==
    /\ c.item \in {Conv!None, c.items} /\ c.part \in {Conv!None, c.parts}
    /\ c.part # Conv!None => c.item # Conv!None
    /\ Len(c.output) = c.items - OpenOf(c.item)
    /\ \A i \in DOMAIN c.output : c.output[i].item = i

\* The events agree with the record.
ConvKept(s) ==
    /\ s \in ConvStates /\ Shaped(s.c)
    /\ Nests(s.out, s.c.items, s.c.items - OpenOf(s.c.item), s.c.parts, s.c.parts - OpenOf(s.c.part))

\* By the type of the last choice an item is open, and its part may be.
KindOpen(c) ==
    /\ c.lastType # "" => c.item # Conv!None
    /\ c.lastType = "" => c.item = Conv!None
    /\ c.part # Conv!None => c.lastType \in {"message", "reasoning"}

\* An event leaves the record as it is.
LEMMA Emitted ==
    ASSUME NEW s \in ConvStates, NEW name \in EventNames
    PROVE  /\ Conv!Emit(s, name) \in ConvStates /\ Conv!Emit(s, name).c = s.c
           /\ Conv!Emit(s, name).out = Append(s.out, Conv!Event(name, s.c.item, s.c.part))
           /\ Conv!Event(name, s.c.item, s.c.part) \in Events
<1>1. s.c \in ConvType /\ s.out \in Seq(Events) /\ s.c.item \in Nat /\ s.c.part \in Nat
  BY DEF ConvStates, ConvType
<1>2. Conv!Event(name, s.c.item, s.c.part) \in Events
  BY <1>1 DEF Conv!Event, Events
<1>3. Append(s.out, Conv!Event(name, s.c.item, s.c.part)) \in Seq(Events)
  BY <1>1, <1>2
<1> QED BY <1>1, <1>2, <1>3 DEF Conv!Emit, Conv!State, ConvStates

\* The name of the last event.
EndsWith(out, name) == Len(out) > 0 /\ out[Len(out)].name = name

LEMMA EmitLast ==
    ASSUME NEW s \in ConvStates, NEW name
    PROVE  EndsWith(Conv!Emit(s, name).out, name)
<1> DEFINE e == Conv!Event(name, s.c.item, s.c.part)
<1>1. s.out \in Seq(Events) /\ Conv!Emit(s, name).out = Append(s.out, e) /\ e.name = name
  BY DEF ConvStates, Conv!Emit, Conv!State, Conv!Event
<1> HIDE DEF e
<1>2. Len(Append(s.out, e)) = Len(s.out) + 1 /\ Len(s.out) \in Nat /\ Append(s.out, e)[Len(s.out) + 1] = e
  BY <1>1
<1> QED BY <1>1, <1>2 DEF EndsWith

\* An event that neither begins nor ends anything keeps them.
LEMMA EmitKept ==
    ASSUME NEW s, ConvKept(s), NEW name \in EventNames \ {"item.added", "item.done", "part.added", "part.done"},
           name \in ItemEvents => s.c.item # Conv!None, name \in PartEvents => s.c.part # Conv!None
    PROVE  /\ ConvKept(Conv!Emit(s, name)) /\ Conv!Emit(s, name).c = s.c
           /\ Conv!Emit(s, name).out = Append(s.out, Conv!Event(name, s.c.item, s.c.part))
<1> DEFINE e == Conv!Event(name, s.c.item, s.c.part)
           items == s.c.items
           parts == s.c.parts
           i == OpenOf(s.c.item)
           p == OpenOf(s.c.part)
<1>1. /\ Conv!Emit(s, name) \in ConvStates /\ Conv!Emit(s, name).c = s.c /\ Conv!Emit(s, name).out = Append(s.out, e) /\ e \in Events
  BY Emitted DEF ConvKept
<1>2. items \in Nat /\ parts \in Nat /\ i \in {0, 1} /\ p \in {0, 1}
  BY DEF ConvKept, ConvStates, ConvType, OpenOf
<1>3. /\ s.c.item # Conv!None => i = 1 /\ s.c.item = items
      /\ s.c.part # Conv!None => p = 1 /\ s.c.part = parts
  BY DEF ConvKept, Shaped, OpenOf
<1>4. e.name = name /\ e.item = s.c.item /\ e.part = s.c.part
  BY DEF Conv!Event
<1>5. \A n \in {"item.added", "item.done", "part.added", "part.done"} : OneIf(e, n) = 0
  BY <1>4 DEF OneIf
<1>6. Nests(s.out, items, items - i, parts, parts - p)
  BY DEF ConvKept
<1> HIDE DEF e, items, parts, i, p
<1>7. Nests(Append(s.out, e), items + OneIf(e, "item.added"), (items - i) + OneIf(e, "item.done"),
            parts + OneIf(e, "part.added"), (parts - p) + OneIf(e, "part.done"))
  <2>1. LET item == (items + OneIf(e, "item.added")) - (items - i)
            within == (parts + OneIf(e, "part.added")) - (parts - p)
        IN  /\ item \in {0, 1} /\ within \in {0, 1}
            /\ e.name \in ItemEvents => item = 1 /\ e.item = items + OneIf(e, "item.added")
            /\ e.name \in PartEvents => within = 1 /\ e.part = parts + OneIf(e, "part.added")
            /\ e.name \in {"item.added", "item.done"} => within = 0
    BY <1>2, <1>3, <1>4, <1>5
  <2> QED BY <1>1, <1>6, <2>1, NestsAppend
<1>8. Nests(Append(s.out, e), items, items - i, parts, parts - p)
  BY <1>2, <1>5, <1>7
<1> QED BY <1>1, <1>8 DEF ConvKept, items, parts, i, p, e

-----------------------------------------------------------------------------
(* Ending and beginning *)

LEMMA DonePartKept ==
    ASSUME NEW s, ConvKept(s), s.c.part # Conv!None
    PROVE  /\ ConvKept(Conv!DonePart(s)) /\ Conv!DonePart(s).c.part = Conv!None
           /\ Conv!DonePart(s).c.item = s.c.item /\ Conv!DonePart(s).c.lastType = s.c.lastType
<1> DEFINE t == Conv!Emit(s, "text.done")
           e == Conv!Event("part.done", s.c.item, s.c.part)
           u == Conv!Emit(t, "part.done")
           items == s.c.items
           parts == s.c.parts
           i == OpenOf(s.c.item)
<1>1. ConvKept(t) /\ t.c = s.c
  <2>1. s.c.item # Conv!None
    BY DEF ConvKept, Shaped
  <2>2. "text.done" \in EventNames \ {"item.added", "item.done", "part.added", "part.done"}
    BY DEF EventNames
  <2> QED BY <2>1, <2>2, EmitKept
<1>2. u \in ConvStates /\ u.c = s.c /\ u.out = Append(t.out, e) /\ e \in Events
  <2>1. t \in ConvStates /\ "part.done" \in EventNames /\ t.c.item = s.c.item /\ t.c.part = s.c.part
    BY <1>1 DEF ConvKept, EventNames
  <2> HIDE DEF t
  <2> QED BY <1>1, <2>1, Emitted
<1>3. items \in Nat /\ parts \in Nat /\ i = 1 /\ s.c.item = items /\ s.c.part = parts
  BY DEF ConvKept, ConvStates, ConvType, Shaped, OpenOf
<1>4. Nests(t.out, items, items - i, parts, parts - 1)
  BY <1>1 DEF ConvKept, OpenOf
<1>5. e.name = "part.done" /\ e.item = items /\ e.part = parts
  BY <1>3 DEF Conv!Event
<1>6. OneIf(e, "part.done") = 1 /\ OneIf(e, "part.added") = 0 /\ OneIf(e, "item.added") = 0 /\ OneIf(e, "item.done") = 0
  BY <1>5 DEF OneIf
<1> DEFINE d == Conv!DonePart(s)
<1>7. d \in ConvStates /\ d.out = u.out /\ d.c = [s.c EXCEPT !.content = Append(@, s.c.part), !.part = Conv!None]
  <2>1. s.c \in ConvType /\ s.c.content \in Seq(Nat) /\ s.c.part \in Nat /\ u.out \in Seq(Events)
    BY <1>2 DEF ConvKept, ConvStates, ConvType
  <2>2. Append(s.c.content, s.c.part) \in Seq(Nat)
    BY <2>1
  <2>3. [s.c EXCEPT !.content = Append(@, s.c.part), !.part = Conv!None] \in ConvType
    BY <2>1, <2>2 DEF ConvType, Conv!None
  <2>4. d = Conv!State([s.c EXCEPT !.content = Append(@, s.c.part), !.part = Conv!None], u.out)
    BY <1>2 DEF Conv!DonePart
  <2> HIDE DEF d, u
  <2> QED BY <2>1, <2>3, <2>4 DEF Conv!State, ConvStates
<1> HIDE DEF t, e, u, items, parts, i, d
<1>8. Nests(u.out, items, items - i, parts, parts)
  <2>1. Nests(Append(t.out, e), items + OneIf(e, "item.added"), (items - i) + OneIf(e, "item.done"),
              parts + OneIf(e, "part.added"), (parts - 1) + OneIf(e, "part.done"))
    <3>1. LET item == (items + OneIf(e, "item.added")) - (items - i)
              within == (parts + OneIf(e, "part.added")) - (parts - 1)
          IN  /\ item \in {0, 1} /\ within \in {0, 1}
              /\ e.name \in ItemEvents => item = 1 /\ e.item = items + OneIf(e, "item.added")
              /\ e.name \in PartEvents => within = 1 /\ e.part = parts + OneIf(e, "part.added")
              /\ e.name \in {"item.added", "item.done"} => within = 0
      BY <1>3, <1>5, <1>6
    <3> QED BY <1>2, <1>4, <3>1, NestsAppend
  <2>2. items + 0 = items /\ (items - i) + 0 = items - i /\ parts + 0 = parts /\ (parts - 1) + 1 = parts
    BY <1>3
  <2> QED BY <1>2, <1>6, <2>1, <2>2
<1>9. /\ d.c.part = Conv!None /\ d.c.item = s.c.item /\ d.c.items = s.c.items /\ d.c.parts = s.c.parts
      /\ d.c.output = s.c.output /\ d.c.lastType = s.c.lastType
  BY <1>7 DEF ConvKept, ConvStates, ConvType
<1>10. parts - OpenOf(d.c.part) = parts /\ i = OpenOf(d.c.item)
  BY <1>3, <1>9 DEF OpenOf, i
<1>11. ConvKept(d)
  <2>1. Nests(d.out, d.c.items, d.c.items - OpenOf(d.c.item), d.c.parts, d.c.parts - OpenOf(d.c.part))
    BY <1>7, <1>8, <1>9, <1>10 DEF items, parts
  <2>2. Shaped(d.c)
    BY <1>9 DEF ConvKept, Shaped
  <2> QED BY <1>7, <2>1, <2>2 DEF ConvKept
<1> QED BY <1>9, <1>11 DEF d

\* What is open is ended first, then the item, which is added to the output.
LEMMA DoneKept ==
    ASSUME NEW s, ConvKept(s), KindOpen(s.c), s.c.item # Conv!None
    PROVE  /\ ConvKept(Conv!Done(s)) /\ Conv!Done(s).c.part = Conv!None /\ Conv!Done(s).c.item = Conv!None
           /\ Conv!Done(s).c.lastType = s.c.lastType
<1> DEFINE t == CASE s.c.lastType = "function_call" -> Conv!Emit(s, "arguments.done")
                  [] s.c.lastType \in {"message", "reasoning"} /\ s.c.part # Conv!None -> Conv!DonePart(s)
                  [] OTHER -> s
           e == Conv!Event("item.done", t.c.item, t.c.part)
           u == Conv!Emit(t, "item.done")
           d == Conv!Done(s)
<1>1. ConvKept(t) /\ t.c.part = Conv!None /\ t.c.item = s.c.item /\ t.c.lastType = s.c.lastType
  <2>1. CASE s.c.lastType = "function_call"
    <3>1. t = Conv!Emit(s, "arguments.done")
      BY <2>1
    <3>2. s.c.part = Conv!None
      BY <2>1 DEF KindOpen
    <3>3. "arguments.done" \in EventNames \ {"item.added", "item.done", "part.added", "part.done"}
          /\ "arguments.done" \notin PartEvents
      BY DEF EventNames, PartEvents
    <3>4. ConvKept(Conv!Emit(s, "arguments.done")) /\ Conv!Emit(s, "arguments.done").c = s.c
      BY <3>3, EmitKept
    <3> HIDE DEF t
    <3> QED BY <3>1, <3>2, <3>4
  <2>2. CASE s.c.lastType \in {"message", "reasoning"} /\ s.c.part # Conv!None
    <3>1. t = Conv!DonePart(s)
      BY <2>2
    <3> HIDE DEF t
    <3> QED BY <2>2, <3>1, DonePartKept
  <2>3. CASE s.c.lastType # "function_call" /\ ~(s.c.lastType \in {"message", "reasoning"} /\ s.c.part # Conv!None)
    <3>1. t = s
      BY <2>3
    <3>2. s.c.part = Conv!None
      BY <2>3 DEF KindOpen
    <3> HIDE DEF t
    <3> QED BY <3>1, <3>2
  <2> HIDE DEF t
  <2> QED BY <2>1, <2>2, <2>3
<1>2. d = Conv!State([u.c EXCEPT !.output = Append(@, [item |-> t.c.item, content |-> t.c.content]),
                            !.item = Conv!None, !.content = <<>>], u.out)
  BY DEF Conv!Done
<1> HIDE DEF t, d
<1>3. u \in ConvStates /\ u.c = t.c /\ u.out = Append(t.out, e) /\ e \in Events
  <2>1. t \in ConvStates /\ "item.done" \in EventNames
    BY <1>1 DEF ConvKept, EventNames
  <2> QED BY <2>1, Emitted
<1> DEFINE items == t.c.items
           parts == t.c.parts
           out == t.c.output
           entry == [item |-> t.c.item, content |-> t.c.content]
<1>4. /\ items \in Nat /\ parts \in Nat /\ t.c.item = items /\ items # Conv!None /\ t.c \in ConvType
      /\ out \in Seq([item : Nat, content : Seq(Nat)]) /\ Len(out) = items - 1
      /\ entry \in [item : Nat, content : Seq(Nat)] /\ \A i \in DOMAIN out : out[i].item = i
  BY <1>1 DEF ConvKept, ConvStates, ConvType, Shaped, OpenOf
<1>5. Nests(t.out, items, items - 1, parts, parts)
  <2>1. OpenOf(t.c.item) = 1 /\ OpenOf(t.c.part) = 0
    BY <1>1 DEF OpenOf
  <2>2. parts - 0 = parts
    BY <1>4
  <2> QED BY <1>1, <2>1, <2>2 DEF ConvKept
<1>6. e.name = "item.done" /\ e.item = items
  BY <1>4 DEF Conv!Event
<1>7. OneIf(e, "part.done") = 0 /\ OneIf(e, "part.added") = 0 /\ OneIf(e, "item.added") = 0 /\ OneIf(e, "item.done") = 1
  BY <1>6 DEF OneIf
<1>8. /\ Append(out, entry) \in Seq([item : Nat, content : Seq(Nat)])
      /\ Len(Append(out, entry)) = items
      /\ \A i \in DOMAIN Append(out, entry) : Append(out, entry)[i].item = i
  <2> DEFINE set == [item : Nat, content : Seq(Nat)]
             more == Append(out, entry)
  <2>1. entry.item = items
    BY <1>4
  <2>2. out \in Seq(set) /\ entry \in set
    BY <1>4
  <2> HIDE DEF out, entry, set, items
  <2>3. /\ more \in Seq(set) /\ Len(more) = Len(out) + 1 /\ DOMAIN more = 1..(Len(out) + 1)
        /\ \A i \in 1..Len(out) : more[i] = out[i] /\ i \in DOMAIN out
        /\ more[Len(out) + 1] = entry
    BY <2>2
  <2> HIDE DEF more
  <2>4. ASSUME NEW i \in DOMAIN more PROVE more[i].item = i
    <3>1. CASE i = Len(out) + 1
      BY <1>4, <2>1, <2>3, <3>1
    <3>2. CASE i # Len(out) + 1
      <4>1. i \in 1..Len(out)
        BY <2>2, <2>3, <3>2
      <4> QED BY <1>4, <2>3, <4>1
    <3> QED BY <3>1, <3>2
  <2>5. Len(more) = items
    BY <1>4, <2>3
  <2> QED BY <2>3, <2>4, <2>5 DEF more, set
<1> HIDE DEF u, items, parts, out, entry, e
<1>9. /\ d \in ConvStates /\ d.out = u.out /\ d.c.item = Conv!None /\ d.c.part = Conv!None /\ d.c.items = items
      /\ d.c.parts = parts /\ d.c.output = Append(out, entry) /\ d.c.lastType = s.c.lastType
  <2> DEFINE c == [t.c EXCEPT !.output = Append(@, entry), !.item = Conv!None, !.content = <<>>]
  <2>1. c = [t.c EXCEPT !.output = Append(out, entry), !.item = Conv!None, !.content = <<>>]
    BY DEF out
  <2>2. <<>> \in Seq(Nat) /\ Conv!None \in Nat
    BY DEF Conv!None
  <2>3. c \in ConvType
    BY <1>4, <1>8, <2>1, <2>2 DEF ConvType
  <2>4. /\ c.item = Conv!None /\ c.part = t.c.part /\ c.items = items /\ c.parts = parts
        /\ c.output = Append(out, entry) /\ c.lastType = t.c.lastType
    BY <1>4, <2>1 DEF ConvType, items, parts
  <2>5. d = Conv!State(c, u.out) /\ u.out \in Seq(Events)
    BY <1>2, <1>3 DEF entry, ConvStates
  <2> HIDE DEF c
  <2> QED BY <1>1, <2>3, <2>4, <2>5 DEF Conv!State, ConvStates
<1>10. Nests(u.out, items, items, parts, parts)
  <2>1. Nests(Append(t.out, e), items + OneIf(e, "item.added"), (items - 1) + OneIf(e, "item.done"),
              parts + OneIf(e, "part.added"), parts + OneIf(e, "part.done"))
    <3>1. LET item == (items + OneIf(e, "item.added")) - (items - 1)
              within == (parts + OneIf(e, "part.added")) - parts
          IN  /\ item \in {0, 1} /\ within \in {0, 1}
              /\ e.name \in ItemEvents => item = 1 /\ e.item = items + OneIf(e, "item.added")
              /\ e.name \in PartEvents => within = 1 /\ e.part = parts + OneIf(e, "part.added")
              /\ e.name \in {"item.added", "item.done"} => within = 0
      BY <1>4, <1>6, <1>7 DEF PartEvents
    <3> QED BY <1>3, <1>5, <3>1, NestsAppend
  <2>2. items + 0 = items /\ (items - 1) + 1 = items /\ parts + 0 = parts
    BY <1>4
  <2> QED BY <1>3, <1>7, <2>1, <2>2
<1>11. OpenOf(d.c.item) = 0 /\ OpenOf(d.c.part) = 0 /\ items - 0 = items /\ parts - 0 = parts
  BY <1>4, <1>9 DEF OpenOf
<1>12. Nests(d.out, d.c.items, d.c.items - OpenOf(d.c.item), d.c.parts, d.c.parts - OpenOf(d.c.part))
  BY <1>9, <1>10, <1>11
<1>13. Shaped(d.c)
  BY <1>8, <1>9, <1>11 DEF Shaped
<1> QED BY <1>9, <1>12, <1>13 DEF ConvKept, d

\* The rest of the record is free.
LEMMA KeptSame ==
    ASSUME NEW s, ConvKept(s), NEW t \in ConvStates, t.out = s.out,
           t.c.item = s.c.item, t.c.items = s.c.items, t.c.part = s.c.part, t.c.parts = s.c.parts,
           t.c.output = s.c.output
    PROVE  ConvKept(t)
BY DEF ConvKept, Shaped

\* One item and one part at a time: the next begins with the next number.
LEMMA CreateNewItemKept ==
    ASSUME NEW s, ConvKept(s), KindOpen(s.c)
    PROVE  /\ ConvKept(Conv!CreateNewItem(s)) /\ Conv!CreateNewItem(s).c.part = Conv!None
           /\ Conv!CreateNewItem(s).c.item # Conv!None
<1> DEFINE t == IF s.c.item # Conv!None THEN Conv!Done(s) ELSE s
           n == t.c.items + 1
           c == [t.c EXCEPT !.item = n, !.items = n]
           e == Conv!Event("item.added", n, t.c.part)
           d == Conv!CreateNewItem(s)
<1>1. ConvKept(t) /\ t.c.part = Conv!None /\ t.c.item = Conv!None
  <2>1. CASE s.c.item # Conv!None
    <3>1. t = Conv!Done(s)
      BY <2>1
    <3> HIDE DEF t
    <3> QED BY <2>1, <3>1, DoneKept
  <2>2. CASE s.c.item = Conv!None
    <3>1. t = s /\ s.c.part = Conv!None
      BY <2>2 DEF ConvKept, Shaped
    <3> HIDE DEF t
    <3> QED BY <2>2, <3>1
  <2> HIDE DEF t
  <2> QED BY <2>1, <2>2
<1>2. d = Conv!Emit(Conv!State(c, t.out), "item.added")
  BY DEF Conv!CreateNewItem
<1> HIDE DEF t, d
<1>3. /\ t.c \in ConvType /\ t.out \in Seq(Events) /\ t.c.items \in Nat /\ n \in Nat /\ n # Conv!None
      /\ t.c.parts \in Nat /\ Len(t.c.output) = t.c.items - 0
      /\ \A i \in DOMAIN t.c.output : t.c.output[i].item = i
  <2>1. t.c \in ConvType /\ t.out \in Seq(Events) /\ t.c.items \in Nat /\ t.c.parts \in Nat
    BY <1>1 DEF ConvKept, ConvStates, ConvType
  <2>2. n \in Nat /\ n # Conv!None
    BY <2>1 DEF Conv!None
  <2>3. Len(t.c.output) = t.c.items - 0 /\ \A i \in DOMAIN t.c.output : t.c.output[i].item = i
    BY <1>1 DEF ConvKept, Shaped, OpenOf
  <2> QED BY <2>1, <2>2, <2>3
<1> HIDE DEF n
<1>4. /\ c \in ConvType /\ c.item = n /\ c.items = n /\ c.part = Conv!None /\ c.parts = t.c.parts
      /\ c.output = t.c.output
  BY <1>1, <1>3 DEF ConvType
<1> HIDE DEF c
<1>5. Conv!State(c, t.out) \in ConvStates /\ Conv!State(c, t.out).c = c /\ Conv!State(c, t.out).out = t.out
  BY <1>3, <1>4 DEF Conv!State, ConvStates
<1>6. d \in ConvStates /\ d.c = c /\ d.out = Append(t.out, e) /\ e \in Events
  <2>1. "item.added" \in EventNames
    BY DEF EventNames
  <2>2. c.part = t.c.part
    BY <1>1, <1>4
  <2> QED BY <1>2, <1>4, <1>5, <2>1, <2>2, Emitted
<1>7. e.name = "item.added" /\ e.item = n
  BY DEF Conv!Event
<1>8. OneIf(e, "part.done") = 0 /\ OneIf(e, "part.added") = 0 /\ OneIf(e, "item.added") = 1 /\ OneIf(e, "item.done") = 0
  BY <1>7 DEF OneIf
<1> DEFINE items == t.c.items
           parts == t.c.parts
<1>9. Nests(t.out, items, items, parts, parts)
  <2>1. OpenOf(t.c.item) = 0 /\ OpenOf(t.c.part) = 0
    BY <1>1 DEF OpenOf
  <2>2. parts - 0 = parts /\ items - 0 = items
    BY <1>3
  <2> QED BY <1>1, <2>1, <2>2 DEF ConvKept
<1>10. n = items + 1 /\ items \in Nat /\ parts \in Nat
  BY <1>3 DEF n
<1> HIDE DEF e, items, parts
<1>11. Nests(d.out, n, items, parts, parts)
  <2>1. Nests(Append(t.out, e), items + OneIf(e, "item.added"), items + OneIf(e, "item.done"),
              parts + OneIf(e, "part.added"), parts + OneIf(e, "part.done"))
    <3>1. LET item == (items + OneIf(e, "item.added")) - items
              within == (parts + OneIf(e, "part.added")) - parts
          IN  /\ item \in {0, 1} /\ within \in {0, 1}
              /\ e.name \in ItemEvents => item = 1 /\ e.item = items + OneIf(e, "item.added")
              /\ e.name \in PartEvents => within = 1 /\ e.part = parts + OneIf(e, "part.added")
              /\ e.name \in {"item.added", "item.done"} => within = 0
      BY <1>7, <1>8, <1>10 DEF PartEvents
    <3> QED BY <1>6, <1>9, <3>1, NestsAppend
  <2>2. items + 0 = items /\ parts + 0 = parts
    BY <1>10
  <2> QED BY <1>6, <1>8, <1>10, <2>1, <2>2
<1>12. OpenOf(n) = 1 /\ OpenOf(Conv!None) = 0 /\ n - 1 = items /\ parts - 0 = parts
  BY <1>3, <1>10 DEF OpenOf
<1>13. Nests(d.out, c.items, c.items - OpenOf(c.item), c.parts, c.parts - OpenOf(c.part))
  BY <1>4, <1>11, <1>12 DEF parts
<1>14. Shaped(c)
  <2>1. Len(c.output) = c.items - OpenOf(c.item)
    BY <1>3, <1>4, <1>12 DEF items
  <2> QED BY <1>3, <1>4, <2>1 DEF Shaped
<1>15. ConvKept(d) /\ d.c.part = Conv!None /\ d.c.item # Conv!None
  BY <1>3, <1>4, <1>6, <1>13, <1>14 DEF ConvKept
<1> QED BY <1>15 DEF d

\* The part of a text delta is the one that is open, or a new one.
LEMMA ProcessTextKept ==
    ASSUME NEW s, ConvKept(s), s.c.item # Conv!None, NEW choice
    PROVE  /\ ConvKept(Conv!ProcessText(s, choice)) /\ Conv!ProcessText(s, choice).c.item # Conv!None
           /\ EndsWith(Conv!ProcessText(s, choice).out, "text.delta")
<1> DEFINE t == IF s.c.lastIndex # choice.index /\ s.c.part # Conv!None THEN Conv!DonePart(s) ELSE s
           n == t.c.parts + 1
           c == [t.c EXCEPT !.part = n, !.parts = n]
           e == Conv!Event("part.added", t.c.item, n)
           a == Conv!Emit(Conv!State(c, t.out), "part.added")
           u == IF t.c.part # Conv!None THEN t ELSE a
<1>1. ConvKept(t) /\ t.c.item # Conv!None
  <2>1. CASE s.c.lastIndex # choice.index /\ s.c.part # Conv!None
    <3>1. t = Conv!DonePart(s)
      BY <2>1
    <3> HIDE DEF t
    <3> QED BY <2>1, <3>1, DonePartKept
  <2>2. CASE ~(s.c.lastIndex # choice.index /\ s.c.part # Conv!None)
    <3>1. t = s
      BY <2>2
    <3> HIDE DEF t
    <3> QED BY <3>1
  <2> HIDE DEF t
  <2> QED BY <2>1, <2>2
<1>2. Conv!ProcessText(s, choice) = Conv!Emit(u, "text.delta")
  BY DEF Conv!ProcessText
<1> HIDE DEF t
<1>3. ASSUME t.c.part = Conv!None
      PROVE  ConvKept(a) /\ a.c.item # Conv!None /\ a.c.part # Conv!None
  <2>1. /\ t.c \in ConvType /\ t.out \in Seq(Events) /\ t.c.items \in Nat /\ t.c.parts \in Nat
        /\ t.c.item = t.c.items
    BY <1>1 DEF ConvKept, ConvStates, ConvType, Shaped
  <2>2. n \in Nat /\ n # Conv!None /\ n = t.c.parts + 1
    BY <2>1 DEF Conv!None
  <2> HIDE DEF n
  <2>3. /\ c \in ConvType /\ c.part = n /\ c.parts = n /\ c.item = t.c.item /\ c.items = t.c.items
        /\ c.output = t.c.output
    BY <2>1, <2>2 DEF ConvType
  <2> HIDE DEF c
  <2>4. Conv!State(c, t.out) \in ConvStates /\ Conv!State(c, t.out).c = c /\ Conv!State(c, t.out).out = t.out
    BY <2>1, <2>3 DEF Conv!State, ConvStates
  <2>5. a \in ConvStates /\ a.c = c /\ a.out = Append(t.out, e) /\ e \in Events
    <3>1. "part.added" \in EventNames
      BY DEF EventNames
    <3> QED BY <2>3, <2>4, <3>1, Emitted
  <2> HIDE DEF a
  <2>6. e.name = "part.added" /\ e.item = t.c.items /\ e.part = n
    BY <2>1 DEF Conv!Event
  <2>7. OneIf(e, "part.done") = 0 /\ OneIf(e, "part.added") = 1 /\ OneIf(e, "item.added") = 0 /\ OneIf(e, "item.done") = 0
    BY <2>6 DEF OneIf
  <2> DEFINE items == t.c.items
             parts == t.c.parts
  <2>8. Nests(t.out, items, items - 1, parts, parts) /\ OpenOf(t.c.item) = 1
    <3>1. OpenOf(t.c.item) = 1 /\ OpenOf(t.c.part) = 0
      BY <1>1, <1>3 DEF OpenOf
    <3>2. parts - 0 = parts
      BY <2>1
    <3> QED BY <1>1, <3>1, <3>2 DEF ConvKept
  <2>9. items \in Nat /\ parts \in Nat /\ n = parts + 1
    BY <2>1, <2>2
  <2> HIDE DEF e, items, parts
  <2>10. Nests(a.out, items, items - 1, n, parts)
    <3>1. Nests(Append(t.out, e), items + OneIf(e, "item.added"), (items - 1) + OneIf(e, "item.done"),
                parts + OneIf(e, "part.added"), parts + OneIf(e, "part.done"))
      <4>1. LET item == (items + OneIf(e, "item.added")) - (items - 1)
                within == (parts + OneIf(e, "part.added")) - parts
            IN  /\ item \in {0, 1} /\ within \in {0, 1}
                /\ e.name \in ItemEvents => item = 1 /\ e.item = items + OneIf(e, "item.added")
                /\ e.name \in PartEvents => within = 1 /\ e.part = parts + OneIf(e, "part.added")
                /\ e.name \in {"item.added", "item.done"} => within = 0
        BY <2>6, <2>7, <2>9 DEF items
      <4> QED BY <2>5, <2>8, <4>1, NestsAppend
    <3>2. items + 0 = items /\ parts + 0 = parts /\ (items - 1) + 0 = items - 1
      BY <2>9
    <3> QED BY <2>5, <2>7, <2>9, <3>1, <3>2
  <2>11. OpenOf(n) = 1 /\ n - 1 = parts
    BY <2>2, <2>9 DEF OpenOf
  <2>12. Nests(a.out, c.items, c.items - OpenOf(c.item), c.parts, c.parts - OpenOf(c.part))
    BY <2>3, <2>8, <2>10, <2>11 DEF items
  <2>13. Shaped(c)
    BY <1>1, <2>3 DEF ConvKept, Shaped
  <2> QED BY <1>1, <2>2, <2>3, <2>5, <2>12, <2>13 DEF ConvKept
<1>4. ConvKept(u) /\ u.c.item # Conv!None /\ u.c.part # Conv!None
  <2>1. CASE t.c.part # Conv!None
    <3>1. u = t
      BY <2>1
    <3> HIDE DEF u
    <3> QED BY <1>1, <2>1, <3>1
  <2>2. CASE t.c.part = Conv!None
    <3>1. u = a
      BY <2>2
    <3> HIDE DEF u, a
    <3> QED BY <1>3, <2>2, <3>1
  <2> HIDE DEF u
  <2> QED BY <2>1, <2>2
<1> HIDE DEF u
<1>5. "text.delta" \in EventNames \ {"item.added", "item.done", "part.added", "part.done"}
  BY DEF EventNames
<1>6. ConvKept(Conv!Emit(u, "text.delta")) /\ Conv!Emit(u, "text.delta").c = u.c
  BY <1>4, <1>5, EmitKept
<1>7. EndsWith(Conv!Emit(u, "text.delta").out, "text.delta")
  BY <1>4, EmitLast DEF ConvKept
<1> QED BY <1>2, <1>4, <1>6, <1>7

\* What is open after a choice is of the choice's kind.
LEMMA ProcessChoiceKept ==
    ASSUME NEW s, ConvKept(s), KindOpen(s.c), NEW choice \in Conv!Choices
    PROVE  /\ ConvKept(Conv!ProcessChoice(s, choice)) /\ KindOpen(Conv!ProcessChoice(s, choice).c)
           /\ \/ EndsWith(Conv!ProcessChoice(s, choice).out, "text.delta")
              \/ EndsWith(Conv!ProcessChoice(s, choice).out, "arguments.delta")
<1> DEFINE newTool == choice.type = "function_call" /\ s.c.lastTool # choice.tool
           status == IF choice.finish # "" THEN choice.finish ELSE s.c.status
           tool == IF newTool THEN choice.tool ELSE s.c.lastTool
           c == [s.c EXCEPT !.status = status, !.lastTool = tool]
           st == Conv!State(c, s.out)
           fresh == newTool \/ s.c.lastType # choice.type
           t == IF fresh THEN Conv!CreateNewItem(st) ELSE st
           u == IF choice.type = "function_call" THEN Conv!Emit(t, "arguments.delta")
                ELSE Conv!ProcessText(t, choice)
           k == [u.c EXCEPT !.lastIndex = choice.index, !.lastType = choice.type]
           d == Conv!ProcessChoice(s, choice)
<1>0. \A x \in {0, 1} : x \in Int
  OBVIOUS
<1>1. /\ choice.index \in Int /\ choice.tool \in Int /\ choice.type \in Conv!ItemTypes
      /\ choice.finish \in {"", "completed", "incomplete"}
  <2>1. \E type \in Conv!ItemTypes, index \in {0, 1}, tl \in {0, 1}, finish \in {"", "completed", "incomplete"} :
           choice = [type |-> type, index |-> index, tool |-> tl, finish |-> finish]
    BY Zenon DEF Conv!Choices, Conv!Choice, Conv!ItemTypes
  <2>2. PICK type \in Conv!ItemTypes, index \in {0, 1}, tl \in {0, 1}, finish \in {"", "completed", "incomplete"} :
           choice = [type |-> type, index |-> index, tool |-> tl, finish |-> finish]
    BY <2>1
  <2>3. choice.type = type /\ choice.index = index /\ choice.tool = tl /\ choice.finish = finish
    BY <2>2
  <2>4. index \in Int /\ tl \in Int
    BY <1>0, Zenon
  <2> QED BY <2>3, <2>4, Zenon
<1>2. d = Conv!State(k, u.out)
  <2>1. st = Conv!State([s.c EXCEPT !.status = IF choice.finish # "" THEN choice.finish ELSE @,
                               !.lastTool = IF newTool THEN choice.tool ELSE @], s.out)
    OBVIOUS
  <2> QED BY <2>1 DEF Conv!ProcessChoice
<1>3. s.c \in ConvType /\ s.out \in Seq(Events) /\ s.c.status \in {"", "completed", "incomplete"} /\ s.c.lastTool \in Int
  BY DEF ConvKept, ConvStates, ConvType
<1>4. status \in {"", "completed", "incomplete"} /\ tool \in Int
  BY <1>1, <1>3
<1> HIDE DEF status, tool
<1>5. /\ c \in ConvType /\ c.item = s.c.item /\ c.items = s.c.items /\ c.part = s.c.part
      /\ c.parts = s.c.parts /\ c.output = s.c.output /\ c.lastType = s.c.lastType
  BY <1>3, <1>4 DEF ConvType
<1> HIDE DEF c
<1>6. st \in ConvStates /\ st.c = c /\ st.out = s.out
  BY <1>3, <1>5 DEF Conv!State, ConvStates
<1> HIDE DEF st
<1>7. ConvKept(st) /\ KindOpen(st.c)
  <2>1. ConvKept(st)
    BY <1>5, <1>6, KeptSame
  <2>2. KindOpen(st.c)
    BY <1>5, <1>6 DEF KindOpen
  <2> QED BY <2>1, <2>2
<1> HIDE DEF newTool, d
<1>8. ConvKept(t) /\ t.c.item # Conv!None /\ (choice.type = "function_call" => t.c.part = Conv!None)
  <2>1. CASE fresh
    <3>1. t = Conv!CreateNewItem(st)
      BY <2>1
    <3> HIDE DEF t
    <3> QED BY <1>7, <3>1, CreateNewItemKept
  <2>2. CASE ~fresh
    <3>1. t = st /\ st.c.lastType = choice.type
      BY <1>5, <1>6, <2>2
    <3>2. st.c.item # Conv!None /\ (choice.type = "function_call" => st.c.part = Conv!None)
      BY <1>1, <1>7, <3>1 DEF KindOpen, Conv!ItemTypes
    <3> HIDE DEF t
    <3> QED BY <1>7, <3>1, <3>2
  <2> HIDE DEF fresh, t
  <2> QED BY <2>1, <2>2
<1> HIDE DEF fresh, t
<1>9. /\ ConvKept(u) /\ u.c.item # Conv!None /\ (choice.type = "function_call" => u.c.part = Conv!None)
      /\ EndsWith(u.out, "text.delta") \/ EndsWith(u.out, "arguments.delta")
  <2>1. CASE choice.type = "function_call"
    <3>1. u = Conv!Emit(t, "arguments.delta")
      BY <2>1
    <3>2. "arguments.delta" \in EventNames \ {"item.added", "item.done", "part.added", "part.done"}
          /\ "arguments.delta" \notin PartEvents
      BY DEF EventNames, PartEvents
    <3>3. ConvKept(Conv!Emit(t, "arguments.delta")) /\ Conv!Emit(t, "arguments.delta").c = t.c
      BY <1>8, <3>2, EmitKept
    <3>4. EndsWith(Conv!Emit(t, "arguments.delta").out, "arguments.delta")
      BY <1>8, EmitLast DEF ConvKept
    <3> HIDE DEF u
    <3> QED BY <1>8, <2>1, <3>1, <3>3, <3>4
  <2>2. CASE choice.type # "function_call"
    <3>1. u = Conv!ProcessText(t, choice)
      BY <2>2
    <3> HIDE DEF u
    <3> QED BY <1>8, <2>2, <3>1, ProcessTextKept
  <2> HIDE DEF u
  <2> QED BY <2>1, <2>2
<1> HIDE DEF u
<1>10. u.c \in ConvType /\ u.out \in Seq(Events)
  BY <1>9 DEF ConvKept, ConvStates
<1>11. /\ k \in ConvType /\ k.item = u.c.item /\ k.items = u.c.items /\ k.part = u.c.part
       /\ k.parts = u.c.parts /\ k.output = u.c.output /\ k.lastType = choice.type
  BY <1>1, <1>10 DEF ConvType
<1> HIDE DEF k
<1>12. d \in ConvStates /\ d.c = k /\ d.out = u.out
  BY <1>2, <1>10, <1>11 DEF Conv!State, ConvStates
<1>13. ConvKept(d)
  BY <1>9, <1>11, <1>12, KeptSame
<1>14. KindOpen(d.c)
  BY <1>1, <1>9, <1>11, <1>12 DEF KindOpen, Conv!ItemTypes
<1> QED BY <1>9, <1>12, <1>13, <1>14 DEF d

\* The two events of a stream's beginning are about no item.
LEMMA StartedKept ==
    ASSUME NEW s, ConvKept(s), KindOpen(s.c)
    PROVE  ConvKept(Conv!Started(s)) /\ KindOpen(Conv!Started(s).c)
<1> DEFINE c == [s.c EXCEPT !.first = FALSE]
           st == Conv!State(c, s.out)
           t == Conv!Emit(st, "created")
<1>1. s.c \in ConvType /\ s.out \in Seq(Events)
  BY DEF ConvKept, ConvStates
<1>2. /\ c \in ConvType /\ c.item = s.c.item /\ c.items = s.c.items /\ c.part = s.c.part
      /\ c.parts = s.c.parts /\ c.output = s.c.output /\ c.lastType = s.c.lastType
  BY <1>1 DEF ConvType
<1> HIDE DEF c
<1>3. st \in ConvStates /\ st.c = c /\ st.out = s.out
  BY <1>1, <1>2 DEF Conv!State, ConvStates
<1> HIDE DEF st
<1>4. ConvKept(st)
  BY <1>2, <1>3, KeptSame
<1>5. \A name \in {"created", "in_progress"} :
         /\ name \in EventNames \ {"item.added", "item.done", "part.added", "part.done"}
         /\ name \notin ItemEvents /\ name \notin PartEvents
  BY DEF EventNames, ItemEvents, PartEvents
<1>6. ConvKept(t) /\ t.c = st.c
  BY <1>4, <1>5, EmitKept
<1> HIDE DEF t
<1>7. ConvKept(Conv!Emit(t, "in_progress")) /\ Conv!Emit(t, "in_progress").c = t.c
  BY <1>5, <1>6, EmitKept
<1>8. Conv!Started(s) = IF s.c.first THEN Conv!Emit(t, "in_progress") ELSE s
  BY DEF Conv!Started, t, st, c
<1>9. KindOpen(Conv!Emit(t, "in_progress").c)
  BY <1>2, <1>3, <1>6, <1>7 DEF KindOpen
<1> QED BY <1>7, <1>8, <1>9

\* Nothing is open at the end.
LEMMA FinalizeKept ==
    ASSUME NEW s, ConvKept(s), KindOpen(s.c)
    PROVE  ConvKept(Conv!FinalizeStream(s)) /\ Conv!FinalizeStream(s).c.item = Conv!None
<1> DEFINE t == IF s.c.item # Conv!None THEN Conv!Done(s) ELSE s
           name == IF s.c.status = "incomplete" THEN "incomplete" ELSE "completed"
<1>1. ConvKept(t) /\ t.c.item = Conv!None
  <2>1. CASE s.c.item # Conv!None
    <3>1. t = Conv!Done(s)
      BY <2>1
    <3> HIDE DEF t
    <3> QED BY <2>1, <3>1, DoneKept
  <2>2. CASE s.c.item = Conv!None
    <3>1. t = s
      BY <2>2
    <3> HIDE DEF t
    <3> QED BY <2>2, <3>1
  <2> HIDE DEF t
  <2> QED BY <2>1, <2>2
<1>2. Conv!FinalizeStream(s) = Conv!Emit(t, name)
  BY DEF Conv!FinalizeStream
<1>3. /\ name \in EventNames \ {"item.added", "item.done", "part.added", "part.done"}
      /\ name \notin ItemEvents /\ name \notin PartEvents
  BY DEF EventNames, ItemEvents, PartEvents
<1> HIDE DEF t, name
<1>4. ConvKept(Conv!Emit(t, name)) /\ Conv!Emit(t, name).c = t.c
  BY <1>1, <1>3, EmitKept
<1> QED BY <1>1, <1>2, <1>4

-----------------------------------------------------------------------------
(* The invariant *)

ConvInv ==
    /\ ConvKept(Conv!Now)
    /\ ~conv.over => KindOpen(conv)
    /\ events # <<>> /\ events[Len(events)].name \in {"completed", "incomplete"} => conv.item = Conv!None

LEMMA ConvInvInit == Conv!ConvInit => ConvInv
<1> SUFFICES ASSUME Conv!ConvInit PROVE ConvInv
  OBVIOUS
<1>1. conv \in ConvType /\ conv.item = Conv!None /\ conv.part = Conv!None /\ conv.items = 0 /\ conv.parts = 0
      /\ conv.output = <<>> /\ conv.lastType = "" /\ events = <<>>
  <2>1. /\ conv.item = Conv!None /\ conv.part = Conv!None /\ conv.items = 0 /\ conv.parts = 0
        /\ conv.output = <<>> /\ conv.lastType = "" /\ events = <<>>
    BY DEF Conv!ConvInit
  <2>2. /\ -1 \in Int /\ "" \in Conv!ItemTypes \cup {""} /\ 0 \in Int /\ 0 \in Nat /\ Conv!None \in Nat
        /\ <<>> \in Seq(Nat) /\ <<>> \in Seq([item : Nat, content : Seq(Nat)])
        /\ "" \in {"", "completed", "incomplete"}
    BY DEF Conv!None
  <2>3. conv \in ConvType
    BY <2>2, Zenon DEF Conv!ConvInit, ConvType
  <2> QED BY <2>1, <2>3
<1>2. Conv!Now \in ConvStates /\ Conv!Now.c = conv /\ Conv!Now.out = events
  <2>1. <<>> \in Seq(Events)
    OBVIOUS
  <2>2. Conv!Now = Conv!State(conv, events) /\ Conv!Now.c = conv /\ Conv!Now.out = events
    BY DEF Conv!Now, Conv!State
  <2> QED BY <1>1, <2>1, <2>2 DEF Conv!State, ConvStates
<1>3. Shaped(conv) /\ KindOpen(conv) /\ OpenOf(conv.item) = 0 /\ OpenOf(conv.part) = 0
  <2>1. OpenOf(conv.item) = 0 /\ OpenOf(conv.part) = 0
    BY <1>1 DEF OpenOf
  <2>2. KindOpen(conv)
    BY <1>1 DEF KindOpen
  <2>3. Len(<<>>) = 0 /\ DOMAIN <<>> = {} /\ 0 - 0 = 0
    OBVIOUS
  <2>4. Len(conv.output) = conv.items - OpenOf(conv.item) /\ \A i \in DOMAIN conv.output : conv.output[i].item = i
    BY <1>1, <2>1, <2>3
  <2>5. conv.item \in {Conv!None, conv.items} /\ conv.part \in {Conv!None, conv.parts} /\ (conv.part # Conv!None => conv.item # Conv!None)
    BY <1>1
  <2> QED BY <2>1, <2>2, <2>4, <2>5 DEF Shaped
<1>4. Nests(<<>>, 0, 0, 0, 0)
  <2>1. \A names : Tally(<<>>, names, 0) = 0
    <3> SUFFICES ASSUME NEW names PROVE Tally(<<>>, names, 0) = 0
      OBVIOUS
    <3>1. {i \in 1..0 : <<>>[i].name \in names} = {}
      OBVIOUS
    <3> QED BY <3>1, FS_EmptySet DEF Tally
  <2>2. <<>> \in Seq(Events) /\ Len(<<>>) = 0 /\ 1..0 = {}
    OBVIOUS
  <2> QED BY <2>1, <2>2 DEF Nests
<1>5. conv.items - OpenOf(conv.item) = 0 /\ conv.parts - OpenOf(conv.part) = 0
  <2>1. 0 - 0 = 0
    OBVIOUS
  <2> QED BY <1>1, <1>3, <2>1, Zenon
<1>6. ConvKept(Conv!Now)
  BY <1>1, <1>2, <1>3, <1>4, <1>5 DEF ConvKept
<1> QED BY <1>1, <1>3, <1>6 DEF ConvInv

LEMMA ConvInvNext == ConvInv /\ Conv!ConvNext => ConvInv'
<1> SUFFICES ASSUME ConvInv, Conv!ConvNext PROVE ConvInv'
  OBVIOUS
<1>1. Conv!Now.c = conv /\ Conv!Now.out = events /\ ConvKept(Conv!Now)
  BY DEF ConvInv, Conv!Now, Conv!State
<1>2. ASSUME NEW s, ConvKept(s), NEW over \in BOOLEAN, Conv!Becomes(s, over),
             ~over => KindOpen(s.c),
             EndsWith(s.out, "completed") \/ EndsWith(s.out, "incomplete") => s.c.item = Conv!None
      PROVE  ConvInv'
  <2>1. s.c \in ConvType /\ s.out \in Seq(Events)
    BY <1>2 DEF ConvKept, ConvStates
  <2>2. conv' = [s.c EXCEPT !.over = over] /\ events' = s.out
    BY <1>2 DEF Conv!Becomes
  <2>3. /\ conv' \in ConvType /\ conv'.item = s.c.item /\ conv'.items = s.c.items /\ conv'.part = s.c.part
        /\ conv'.parts = s.c.parts /\ conv'.output = s.c.output /\ conv'.lastType = s.c.lastType
        /\ conv'.over = over
    BY <2>1, <2>2 DEF ConvType
  <2>4. Conv!Now' \in ConvStates /\ Conv!Now'.c = conv' /\ Conv!Now'.out = s.out
    BY <2>1, <2>2, <2>3 DEF Conv!Now, Conv!State, ConvStates
  <2>5. ConvKept(Conv!Now')
    BY <1>2, <2>3, <2>4, KeptSame
  <2>6. KindOpen(s.c) => KindOpen(conv')
    BY <2>3 DEF KindOpen
  <2>7. events' # <<>> /\ events'[Len(events')].name \in {"completed", "incomplete"} => conv'.item = Conv!None
    <3>1. events' # <<>> => Len(s.out) > 0
      BY <2>1, <2>2
    <3> QED BY <1>2, <2>2, <2>3, <3>1 DEF EndsWith
  <2> QED BY <1>2, <2>3, <2>5, <2>6, <2>7 DEF ConvInv
<1>3. ASSUME NEW choice \in Conv!Choices, Conv!ProcessStreamData(choice) PROVE ConvInv'
  <2> DEFINE s == Conv!Started(Conv!Now)
             t == Conv!ProcessChoice(s, choice)
  <2>1. ConvKept(s) /\ KindOpen(s.c)
    BY <1>1, <1>3, StartedKept DEF ConvInv, Conv!ProcessStreamData
  <2> HIDE DEF s
  <2>2. ConvKept(t) /\ KindOpen(t.c) /\ (EndsWith(t.out, "text.delta") \/ EndsWith(t.out, "arguments.delta"))
    BY <2>1, ProcessChoiceKept
  <2>3. Conv!Becomes(t, FALSE)
    BY <1>3 DEF Conv!ProcessStreamData, s
  <2> HIDE DEF t
  <2>4. ~(EndsWith(t.out, "completed") \/ EndsWith(t.out, "incomplete"))
    BY <2>2 DEF EndsWith
  <2> QED BY <1>2, <2>2, <2>3, <2>4
<1>4. ASSUME NEW over \in BOOLEAN, Conv!SendError(over) PROVE ConvInv'
  <2> DEFINE e == Conv!Event("error", Conv!None, Conv!None)
             s == Conv!State(conv, Append(events, e))
  <2>1. e \in Events /\ e.name = "error" /\ conv \in ConvType /\ events \in Seq(Events)
    BY <1>1 DEF Conv!Event, Events, EventNames, Conv!None, ConvKept, ConvStates
  <2> HIDE DEF e
  <2>2. s \in ConvStates /\ s.c = conv /\ s.out = Append(events, e)
    BY <2>1 DEF Conv!State, ConvStates
  <2>3. Conv!Becomes(s, over)
    BY <1>4 DEF Conv!SendError, e
  <2> HIDE DEF s
  <2>4. ConvKept(s)
    <3> DEFINE a == conv.items
               d == conv.items - OpenOf(conv.item)
               p == conv.parts
               q == conv.parts - OpenOf(conv.part)
    <3>1. Nests(events, a, d, p, q)
      BY <1>1 DEF ConvKept
    <3>2. /\ a \in Nat /\ d \in Int /\ p \in Nat /\ q \in Int /\ a - d \in {0, 1} /\ p - q \in {0, 1}
      <4>1. a \in Nat /\ p \in Nat /\ OpenOf(conv.item) \in {0, 1} /\ OpenOf(conv.part) \in {0, 1}
        BY <2>1 DEF ConvType, OpenOf
      <4> HIDE DEF a, p
      <4>2. d = a - OpenOf(conv.item) /\ q = p - OpenOf(conv.part)
        BY DEF a, p
      <4> HIDE DEF d, q
      <4> QED BY <4>1, <4>2
    <3>3. OneIf(e, "item.added") = 0 /\ OneIf(e, "item.done") = 0 /\ OneIf(e, "part.added") = 0 /\ OneIf(e, "part.done") = 0
      BY <2>1 DEF OneIf
    <3>4. e.name \notin ItemEvents /\ e.name \notin PartEvents /\ e.name \notin {"item.added", "item.done"}
      BY <2>1 DEF ItemEvents, PartEvents
    <3> HIDE DEF a, d, p, q
    <3>5. a + 0 = a /\ d + 0 = d /\ p + 0 = p /\ q + 0 = q
      BY <3>2
    <3>6. LET item == (a + OneIf(e, "item.added")) - d
              within == (p + OneIf(e, "part.added")) - q
          IN  /\ item \in {0, 1} /\ within \in {0, 1}
              /\ e.name \in ItemEvents => item = 1 /\ e.item = a + OneIf(e, "item.added")
              /\ e.name \in PartEvents => within = 1 /\ e.part = p + OneIf(e, "part.added")
              /\ e.name \in {"item.added", "item.done"} => within = 0
      BY <3>2, <3>3, <3>4, <3>5
    <3>7. Nests(Append(events, e), a + OneIf(e, "item.added"), d + OneIf(e, "item.done"),
                p + OneIf(e, "part.added"), q + OneIf(e, "part.done"))
      BY <2>1, <3>1, <3>6, NestsAppend
    <3>8. Nests(s.out, a, d, p, q)
      BY <2>2, <3>3, <3>5, <3>7
    <3> QED BY <1>1, <2>2, <3>8 DEF ConvKept, a, d, p, q
  <2>5. KindOpen(s.c)
    BY <1>4, <2>2 DEF ConvInv, Conv!SendError
  <2>6. ~(EndsWith(s.out, "completed") \/ EndsWith(s.out, "incomplete"))
    <3>1. Len(Append(events, e)) = Len(events) + 1 /\ Append(events, e)[Len(events) + 1] = e
      BY <2>1
    <3> QED BY <2>1, <2>2, <3>1 DEF EndsWith
  <2> QED BY <1>2, <2>3, <2>4, <2>5, <2>6
<1>5. ASSUME Conv!ProcessDone PROVE ConvInv'
  <2> DEFINE s == Conv!FinalizeStream(Conv!Now)
  <2>1. ConvKept(s) /\ s.c.item = Conv!None /\ Conv!Becomes(s, TRUE)
    BY <1>1, <1>5, FinalizeKept DEF ConvInv, Conv!ProcessDone
  <2> HIDE DEF s
  <2> QED BY <1>2, <2>1
<1> QED BY <1>3, <1>4, <1>5 DEF Conv!ConvNext

LEMMA ConvInvNested == ConvInv => Conv!EventsNested
<1> SUFFICES ASSUME ConvInv PROVE Conv!EventsNested
  OBVIOUS
<1> DEFINE last == Len(events)
           added == Tally(events, {"item.added"}, last)
           done == Tally(events, {"item.done"}, last)
<1>1. Conv!Now.c = conv /\ Conv!Now.out = events /\ ConvKept(Conv!Now)
  BY DEF ConvInv, Conv!Now, Conv!State
<1>2. \A n \in 1..Len(events) : Nested(events, n)
  BY <1>1 DEF ConvKept, Nests
<1>3. conv \in ConvType /\ events \in Seq(Events) /\ last \in Nat /\ DOMAIN events = 1..Len(events)
  BY <1>1 DEF ConvKept, ConvStates
<1>4. \A names, n : Conv!Count(names, n) = Tally(events, names, n)
  BY DEF Conv!Count, Tally, Conv!Cardinality, Cardinality
<1>5. added = conv.items /\ done = conv.items - OpenOf(conv.item) /\ Shaped(conv) /\ conv.items \in Nat
  BY <1>1, <1>3 DEF ConvKept, Nests, ConvType
<1>6. ASSUME NEW n \in DOMAIN events
      PROVE  LET e    == events[n]
                 item == Conv!Count({"item.added"}, n) - Conv!Count({"item.done"}, n - 1)
                 within == Conv!Count({"part.added"}, n) - Conv!Count({"part.done"}, n - 1)
             IN  /\ item \in {0, 1} /\ within \in {0, 1}
                 /\ e.name \in {"item.added", "item.done", "part.added", "part.done", "text.delta",
                                "text.done", "arguments.delta", "arguments.done"}
                       => item = 1 /\ e.item = Conv!Count({"item.added"}, n)
                 /\ e.name \in {"part.added", "part.done", "text.delta", "text.done"}
                       => within = 1 /\ e.part = Conv!Count({"part.added"}, n)
                 /\ e.name \in {"item.added", "item.done"} => within = 0
  <2>1. Nested(events, n)
    BY <1>2, <1>3
  <2> QED BY <1>4, <2>1 DEF Nested, ItemEvents, PartEvents
<1>7. ASSUME last > 0, events[last].name \in {"completed", "incomplete"}
      PROVE  /\ Conv!Count({"item.added"}, last) = Conv!Count({"item.done"}, last)
             /\ [i \in DOMAIN conv.output |-> conv.output[i].item]
                   = [i \in 1..Conv!Count({"item.added"}, last) |-> i]
  <2>1. conv.item = Conv!None
    BY <1>3, <1>7 DEF ConvInv
  <2>2. added = done /\ Len(conv.output) = added
    BY <1>5, <2>1 DEF OpenOf, Shaped
  <2>3. DOMAIN conv.output = 1..added
    <3>1. conv.output \in Seq([item : Nat, content : Seq(Nat)])
      BY <1>3 DEF ConvType
    <3> QED BY <2>2, <3>1
  <2>4. \A i \in DOMAIN conv.output : conv.output[i].item = i
    BY <1>5 DEF Shaped
  <2> QED BY <1>4, <2>2, <2>3, <2>4
<1> QED BY <1>6, <1>7 DEF Conv!EventsNested
\* However chunks alternate between choices, kinds of content and tool calls,
\* with errors between them: the events of a converted stream are nested as the
\* protocol asks and its final response lists the items that were added
\* (relay/relay_util/responses_stream.go), for any number of choices.
THEOREM EventsNestedAlways == LiveSpec => []EventsNested
<1>1. LiveInit => ConvInv
  BY ConvInvInit DEF LiveInit
<1>2. ASSUME ConvInv, [LiveNext]_allVars PROVE ConvInv'
  <2>1. CASE Conv!ConvNext
    BY <1>2, <2>1, ConvInvNext
  <2>2. CASE UNCHANGED convVars
    BY <1>2, <2>2 DEF ConvInv, ConvKept, Conv!Now, convVars
  <2> QED BY <1>2, <2>1, <2>2 DEF LiveNext, allVars, Relays, Serves, Converts, Proxies
<1>3. LiveSpec => LiveInit /\ [][LiveNext]_allVars
  BY PTL DEF LiveSpec
<1>4. ConvInv => EventsNested
  BY ConvInvNested DEF EventsNested
<1> QED BY <1>1, <1>2, <1>3, <1>4, PTL

=============================================================================
