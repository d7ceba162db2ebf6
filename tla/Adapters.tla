------------------------------ MODULE Adapters ------------------------------
(***************************************************************************)
(* The calls of providers/ that answer at once: what each does between the *)
(* request and the response it hands to the endpoint.  A call is the       *)
(* sequence of its steps in program order.                                 *)
(*                                                                         *)
(*   "prepare"  URL, key, conversion and body of the request, may refuse   *)
(*   "credential" a token from the cache, or a new one, may fail           *)
(*   "send"     requester.SendRequest, may fail                            *)
(*   "poll"     fetches the state of a job until it ends, may fail         *)
(*   "check"    an error object in an answer with status 200 is an error   *)
(*   "content"  an answer without content is an error                      *)
(*                                                                         *)
(* and how it settles usage, which starts with the counted prompt:         *)
(*                                                                         *)
(*   "report"        usage is what the answer reports, zeros if it does not*)
(*   "deref"         the same through a pointer: no report is a panic      *)
(*   "reportIf"      the report if there is one                            *)
(*   "reportSome"    the report if there is one and it is not zero         *)
(*   "reportOrCount" the report, the counted text if it is missing or zero *)
(*   "reportElse"    the report, the counted text only if it is missing    *)
(*   "count"         the counted text                                      *)
(*   "prompt"        the prompt only                                       *)
(*                                                                         *)
(* An answer: "full" has content and token counts, "bare" content and no   *)
(* report, "zero" content and a report of zeros, "empty" neither, "error"  *)
(* is an error object.                                                     *)
(***************************************************************************)
EXTENDS Naturals, Sequences, SequencesExt

Answers == {"full", "bare", "zero", "empty", "error"}
Content == {"full", "bare", "zero"}

-----------------------------------------------------------------------------
(* The providers: how each builds, authorises and sends a request.          *)

\* HTTPRequester: a status that is no success is an error.
SendRequest == <<"send">>

\* GetRequestTextBody: the body with the channel's own parameters merged in.
OpenAIRequest == <<"prepare">>
OpenAIProvider == OpenAIRequest \o SendRequest
\* The providers that are an OpenAIProvider with another configuration.
AzureProvider == OpenAIProvider
AzureV1Provider == OpenAIProvider
DeepseekProvider == OpenAIProvider
GithubProvider == OpenAIProvider
LingyiProvider == OpenAIProvider
MistralProvider == OpenAIProvider
XAIProvider == OpenAIProvider
OpenRouterProvider == OpenAIProvider
MoonshotProvider == OpenAIProvider
GroqProvider == OpenAIProvider
BaichuanProvider == OpenAIProvider
MiniMaxProvider == OpenAIProvider

AliProvider == <<"prepare">> \o SendRequest
BaiduProvider == <<"credential", "prepare">> \o SendRequest
OllamaProvider == <<"prepare">> \o SendRequest
HunyuanProvider == <<"prepare">> \o SendRequest
PalmProvider == <<"prepare">> \o SendRequest
CozeProvider == <<"prepare">> \o SendRequest
TencentProvider == <<"prepare">> \o SendRequest
CloudflareAIProvider == <<"prepare">> \o SendRequest
ClaudeProvider == <<"prepare">> \o SendRequest
BedrockProvider == <<"prepare">> \o SendRequest
GeminiProvider == <<"prepare">> \o SendRequest
VertexAIProvider == <<"credential", "prepare">> \o SendRequest
XunfeiProvider == <<"prepare", "send">>
ZhipuProvider == <<"credential", "prepare">> \o SendRequest
CohereProvider == <<"prepare">> \o SendRequest
JinaProvider == <<"prepare">> \o SendRequest
SiliconflowProvider == <<"prepare">> \o SendRequest
ReplicateProvider == <<"prepare">> \o SendRequest
AzureDatabricksProvider == <<"prepare">> \o SendRequest
AzureSpeechProvider == <<"prepare">> \o SendRequest
RecraftProvider == <<"prepare">> \o SendRequest
StabilityAIProvider == <<"prepare">> \o SendRequest

-----------------------------------------------------------------------------
(* CreateChatCompletion *)

OpenAIAnswer == <<"check", "reportOrCount">>
OpenAIChat == OpenAIProvider \o OpenAIAnswer
\* The providers that inherit it.
InheritedChats ==
    {provider \o OpenAIAnswer :
        provider \in {AzureProvider, AzureV1Provider, DeepseekProvider, GithubProvider,
                      LingyiProvider, MistralProvider, XAIProvider}}
AliChat == AliProvider \o <<"check", "report">>
BaiduChat == BaiduProvider \o <<"check", "deref">>
OllamaChat == OllamaProvider \o <<"check", "report">>
HunyuanChat == HunyuanProvider \o <<"check", "report">>
PalmChat == PalmProvider \o <<"check", "deref">>
CozeChat == CozeProvider \o <<"check", "count">>
TencentChat == TencentProvider \o <<"check", "deref">>
CloudflareAIChat == CloudflareAIProvider \o <<"check", "count">>
\* ConvertFromChatOpenai and ConvertToChatOpenai, which Bedrock and VertexAI share.
ClaudeConvert == <<"prepare">>
ClaudeAnswer == <<"check", "reportOrCount">>
ClaudeChat == ClaudeConvert \o ClaudeProvider \o ClaudeAnswer
BedrockChat == ClaudeConvert \o BedrockProvider \o ClaudeAnswer
GeminiContents == <<"prepare">>
GeminiConvert == <<"prepare">> \o GeminiContents
GeminiChoice == <<"content">>
GeminiAnswer == GeminiChoice \o <<"report">>
GeminiChat == GeminiConvert \o GeminiProvider \o GeminiAnswer
\* The category of the model decides.
VertexAIClaude == ClaudeConvert \o VertexAIProvider \o ClaudeAnswer
VertexAIGemini == GeminiConvert \o VertexAIProvider \o GeminiAnswer
OpenRouterChat == OpenRouterProvider \o <<"check", "reportOrCount">>
BaichuanChat == BaichuanProvider \o <<"check", "deref">>
GroqChat == GroqProvider \o <<"check", "deref">>
MoonshotChat == MoonshotProvider \o <<"check", "reportElse">>
MiniMaxChat == OpenAIChat
\* The frames of the websocket are read to the last one.
XunfeiChat == XunfeiProvider \o <<"check", "report">>
ZhipuConvert == <<"prepare">>
ZhipuChat == ZhipuConvert \o ZhipuProvider \o <<"check", "deref">>
CohereChat == CohereProvider \o <<"deref">>
\* getPredictionResponse polls without a limit of its own.
Prediction == <<"poll">>
ReplicateChat == ReplicateProvider \o Prediction \o <<"report">>
\* Nothing of the answer is counted.
AzureDatabricksChat == AzureDatabricksProvider \o <<"prompt">>
\* A chat request as a Responses request, for the models in need2Response.
ToResponsesRequest == <<"prepare">>
OpenAIResponses == OpenAIProvider \o <<"reportOrCount">>
OpenAIResponsesChat == ToResponsesRequest \o OpenAIResponses

ChatCalls ==
    {OpenAIChat, AliChat, BaiduChat, OllamaChat, HunyuanChat, PalmChat, CozeChat, TencentChat,
     CloudflareAIChat, ClaudeChat, BedrockChat, GeminiChat, VertexAIClaude, VertexAIGemini,
     OpenRouterChat, BaichuanChat, GroqChat, MoonshotChat, MiniMaxChat, XunfeiChat, ZhipuChat,
     CohereChat, ReplicateChat, AzureDatabricksChat, OpenAIResponsesChat}
    \cup InheritedChats

\* A Responses request as a chat request.
ToChatCompletionRequest == <<"prepare">>
CompatCalls == {ToChatCompletionRequest \o call : call \in ChatCalls}

-----------------------------------------------------------------------------
(* The other interfaces of base/interface.go *)

OpenAICompletion == OpenAIProvider \o <<"check", "deref">>

ClaudeRelay == ClaudeProvider \o <<"reportOrCount">>
BedrockRelay == BedrockProvider \o <<"reportSome">>
VertexAIClaudeRelay == VertexAIProvider \o <<"reportSome">>

GeminiRelay == GeminiProvider \o <<"content", "report">>
VertexAIGeminiRelay == VertexAIProvider \o <<"report">>

OpenAIEmbeddings == OpenAIProvider \o <<"check", "reportIf">>
AliEmbeddings == AliProvider \o <<"check", "report">>
BaiduEmbeddings == BaiduProvider \o <<"check", "report">>
OllamaEmbeddings == OllamaProvider \o <<"check", "report">>
ZhipuEmbeddings == ZhipuProvider \o <<"check", "deref">>
EmbeddingsCalls ==
    {OpenAIEmbeddings, AliEmbeddings, BaiduEmbeddings, OllamaEmbeddings, ZhipuEmbeddings}

OpenAIModeration == OpenAIProvider \o <<"check", "prompt">>

JinaRerank == JinaProvider \o <<"deref">>
CohereRerank == CohereProvider \o <<"deref">>
SiliconflowRerank == SiliconflowProvider \o <<"deref">>
RerankCalls == {JinaRerank, CohereRerank, SiliconflowRerank}

OpenAIImage == OpenAIProvider \o <<"check", "reportSome">>
AzureImage == AzureProvider \o <<"check", "reportSome">>
\* dall-e-2 is a job that is fetched three times at most.
AzureImageJob == AzureProvider \o <<"poll", "reportSome">>
CloudflareAIImage == CloudflareAIProvider \o <<"check", "prompt">>
GeminiImage == GeminiProvider \o <<"content", "prompt">>
VertexAIImage == VertexAIProvider \o <<"content", "prompt">>
ZhipuImage == ZhipuProvider \o <<"check", "prompt">>
SiliconflowImage == SiliconflowProvider \o <<"prompt">>
ReplicateImage == ReplicateProvider \o Prediction \o <<"prompt">>
RecraftAIImage == RecraftProvider \o <<"prompt">>
StabilityAIImage == StabilityAIProvider \o <<"prompt">>
ImageCalls ==
    {OpenAIImage, AzureImage, AzureImageJob, CloudflareAIImage, GeminiImage, VertexAIImage,
     ZhipuImage, SiliconflowImage, ReplicateImage, RecraftAIImage, StabilityAIImage}
OpenAIImageEdits == OpenAIProvider \o <<"check", "reportSome">>
OpenAIImageVariations == OpenAIProvider \o <<"check", "prompt">>

OpenAISpeech == OpenAIProvider \o <<"check", "prompt">>
MiniMaxSpeech == MiniMaxProvider \o <<"check", "report">>
AzureSpeech == AzureSpeechProvider \o <<"prompt">>
SpeechCalls == {OpenAISpeech, MiniMaxSpeech, AzureSpeech}

\* The form with the audio is built field by field.
AudioForm == <<"prepare">>
OpenAITranscription == AudioForm \o SendRequest \o <<"count">>
CloudflareAITranscription == CloudflareAIProvider \o <<"check", "count">>
TranscriptionCalls == {OpenAITranscription, CloudflareAITranscription}
OpenAITranslation == AudioForm \o SendRequest \o <<"count">>

RecraftAIRelay == RecraftProvider \o <<"prompt">>
OpenAIRelay == OpenAIProvider \o <<"prompt">>

-----------------------------------------------------------------------------
\* How a call settles usage.
How(call) == Last(call)

\* usage after a call that settles it as how, on that answer.
Settled(call, answer, usage) ==
    LET how == How(call)
        Reported == [usage EXCEPT !.prompt = (answer = "full"), !.tokens = (answer = "full")]
        Counted == [usage EXCEPT !.tokens = (answer \in Content)]
    IN  CASE how \in {"report", "deref"} -> Reported
          [] how = "reportIf" -> IF answer \in {"full", "zero"} THEN Reported ELSE usage
          [] how = "reportSome" -> IF answer = "full" THEN Reported ELSE usage
          [] how = "reportOrCount" -> IF answer = "full" THEN Reported ELSE Counted
          [] how = "reportElse" -> IF answer \in {"full", "zero"} THEN Reported ELSE Counted
          [] how = "count" -> Counted
          [] OTHER -> usage

\* An answer without a report has a nil pointer where the report would be.
Unreported == {"bare", "empty", "error"}

\* What the call returns once it was answered: "ok", "error" or "panic".
Returns(call, answer) ==
    IF answer = "error" /\ Contains(call, "check") THEN "error"
    ELSE IF answer \in {"empty", "error"} /\ Contains(call, "content") THEN "error"
    ELSE IF answer \in Unreported /\ Contains(call, "deref") THEN "panic"
    ELSE "ok"
=============================================================================
