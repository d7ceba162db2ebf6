--------------------------- MODULE StreamHandlers ---------------------------
(***************************************************************************)
(* The stream handlers of providers/: what each does with one line of the  *)
(* upstream's answer.  A handler is a record: for every kind of line, the  *)
(* sequence of its effects in program order.                               *)
(*                                                                         *)
(*   "data"    sends a chunk on dataChan (blocks until it is received)     *)
(*   "err"     sends an error on errChan                                   *)
(*   "eof"     sends io.EOF on errChan                                     *)
(*   "close"   sets *rawLine = StreamClosed, which ends processLines       *)
(*   "text"    writes the chunk's text to usage.TextBuilder                *)
(*   "usage"   copies the line's token counts into usage, zeros included   *)
(*   "replace" overwrites usage as a whole, the TextBuilder included       *)
(*   "panic"   indexes an empty list of choices                            *)
(*                                                                         *)
(* The kinds: "noise" has not the handler's prefix, "garbled" does not     *)
(* parse, "failure" carries an error object, "empty" has no choices,       *)
(* "chunk" has text and no token counts, "usage" is the line with the      *)
(* token counts, "tool" is a function call, "stop" the end marker of the   *)
(* provider's protocol; a handler that knows none meets "data: [DONE]".    *)
(***************************************************************************)
EXTENDS Sequences

Kinds == {"noise", "garbled", "failure", "empty", "chunk", "usage", "tool", "stop"}

Ops == {"data", "err", "eof", "close", "text", "usage", "replace", "panic"}

Err == <<"err">>

\* ConvertOpenaiStream and Split: the name, the arguments and the finish
\* reason of one function call are three chunks.
ConvertOpenaiStream == <<"data", "data", "data">>

BaiduHandler ==
    [noise |-> <<>>, garbled |-> Err, failure |-> Err,
     empty |-> <<"data", "usage">>, chunk |-> <<"data", "usage">>,
     usage |-> <<"data", "usage">>, tool |-> ConvertOpenaiStream \o <<"usage">>,
     stop |-> <<"data", "usage", "eof", "close">>]

\* Usage is taken from the line that has EvalCount > 0, before the send.
OllamaHandler ==
    [noise |-> <<>>, garbled |-> Err, failure |-> Err,
     empty |-> <<"data">>, chunk |-> <<"data">>, usage |-> <<"usage", "data">>,
     tool |-> <<"data">>, stop |-> <<>>]

HunyuanHandler ==
    [noise |-> <<>>, garbled |-> Err, failure |-> Err,
     empty |-> <<"data", "replace">>, chunk |-> <<"data", "replace">>,
     usage |-> <<"data", "replace">>, tool |-> <<"data", "replace">>, stop |-> Err]

\* Output.Choices[0] is read without a check.
AliHandler ==
    [noise |-> <<>>, garbled |-> Err, failure |-> Err,
     empty |-> <<"panic">>, chunk |-> <<"data">>, usage |-> <<"usage", "data">>,
     tool |-> <<"data">>, stop |-> Err]

\* Candidates[0] is read without a check after the send.
PalmHandler ==
    [noise |-> <<>>, garbled |-> Err, failure |-> Err,
     empty |-> <<"data", "panic">>, chunk |-> <<"data", "text">>,
     usage |-> <<"data", "text">>, tool |-> <<"data", "text">>, stop |-> Err]

CozeHandler ==
    [noise |-> <<>>, garbled |-> Err, failure |-> <<>>,
     empty |-> <<"text", "data">>, chunk |-> <<"text", "data">>,
     usage |-> <<"text", "data">>, tool |-> <<>>, stop |-> <<"eof", "close">>]

\* A function call leaves streamResponse without choices, hence without text;
\* usage keeps the TextBuilder.
GeminiHandler ==
    [noise |-> <<>>, garbled |-> Err, failure |-> Err,
     empty |-> <<"data">>, chunk |-> <<"data", "text">>,
     usage |-> <<"data", "data", "usage">>, tool |-> ConvertOpenaiStream, stop |-> Err]

\* Native Gemini lines go to the client unchanged, noise included.
GeminiRelayHandler ==
    [noise |-> <<"data">>, garbled |-> Err, failure |-> Err,
     empty |-> <<"data">>, chunk |-> <<"text", "data">>,
     usage |-> <<"text", "usage", "data">>, tool |-> <<"data">>, stop |-> Err]

\* An input_json_delta has no Delta.Text; message_delta has the token counts.
ClaudeHandler_NoText ==   \* Mutant: content_block_delta does not write the text
    [noise |-> <<>>, garbled |-> Err, failure |-> Err,
     empty |-> <<>>, chunk |-> <<"data">>, usage |-> <<"data", "usage">>,
     tool |-> <<"data", "text">>, stop |-> <<"eof", "close">>]
ClaudeHandler ==
    [noise |-> <<>>, garbled |-> Err, failure |-> Err,
     empty |-> <<>>, chunk |-> <<"data", "text">>, usage |-> <<"data", "usage">>,
     tool |-> <<"data", "text">>, stop |-> <<"eof", "close">>]

ClaudeRelayHandler ==
    [noise |-> <<"data">>, garbled |-> Err, failure |-> Err,
     empty |-> <<"data">>, chunk |-> <<"text", "data">>,
     usage |-> <<"usage", "data">>, tool |-> <<"data">>, stop |-> <<"data">>]

\* The same with AddEvent, for the events of Bedrock.
BedrockRelayHandler ==
    [noise |-> <<"data">>, garbled |-> Err, failure |-> <<"data", "err">>,
     empty |-> <<"data", "data", "data">>,
     chunk |-> <<"data", "text", "data", "data">>,
     usage |-> <<"data", "usage", "data", "data">>,
     tool |-> <<"data", "data", "data">>, stop |-> <<"data", "data", "data">>]

\* The metrics of the prediction are fetched at "event: done".
ReplicateHandler ==
    [noise |-> <<>>, garbled |-> <<"data">>, failure |-> <<"data">>,
     empty |-> <<"data">>, chunk |-> <<"data">>, usage |-> <<"data">>,
     tool |-> <<"data">>, stop |-> <<"usage", "data", "eof", "close">>]

CloudflareAIHandler ==
    [noise |-> <<>>, garbled |-> Err, failure |-> <<"text", "data">>,
     empty |-> <<"text", "data">>, chunk |-> <<"text", "data">>,
     usage |-> <<"text", "data">>, tool |-> <<"text", "data">>,
     stop |-> <<"data", "eof", "close">>]

\* Choices[0] is read without a check after the send.
TencentHandler ==
    [noise |-> <<>>, garbled |-> Err, failure |-> Err,
     empty |-> <<"data", "panic">>, chunk |-> <<"data", "text">>,
     usage |-> <<"data", "text">>, tool |-> <<"data", "text">>, stop |-> Err]

\* Nothing is parsed and nothing counted.
AzureDatabricksHandler ==
    [noise |-> <<>>, garbled |-> <<"data">>, failure |-> <<"data">>,
     empty |-> <<"data">>, chunk |-> <<"data">>, usage |-> <<"data">>,
     tool |-> <<"data">>, stop |-> <<"eof", "close">>]

XunfeiHandler ==
    [noise |-> <<>>, garbled |-> Err, failure |-> Err,
     empty |-> <<"usage", "data">>, chunk |-> <<"usage", "data">>,
     usage |-> <<"usage", "data">>, tool |-> <<"usage">> \o ConvertOpenaiStream,
     stop |-> <<"usage", "data", "eof", "close">>]

\* A line without choices is not passed on; its usage replaces the counted one.
OpenAICompletionHandler ==
    [noise |-> <<>>, garbled |-> Err, failure |-> Err,
     empty |-> <<>>, chunk |-> <<"data", "text">>, usage |-> <<"replace">>,
     tool |-> <<"data", "text">>, stop |-> <<"eof", "close">>]

OpenAIChatHandler ==
    [noise |-> <<>>, garbled |-> Err, failure |-> Err,
     empty |-> <<"text", "data">>, chunk |-> <<"text", "data">>,
     usage |-> <<"replace">>, tool |-> <<"text", "data">>, stop |-> <<"eof", "close">>]

\* The Responses protocol has no end marker; an error event is one more line.
OpenAIResponsesHandler ==
    [noise |-> <<"data">>, garbled |-> Err, failure |-> <<"data">>,
     empty |-> <<"data">>, chunk |-> <<"text", "data">>,
     usage |-> <<"replace", "data">>, tool |-> <<"data">>, stop |-> Err]

\* Responses converted to chat chunks; events that convert to nothing are dropped.
OpenAIResponsesChatHandler ==
    [noise |-> <<>>, garbled |-> Err, failure |-> <<>>,
     empty |-> <<>>, chunk |-> <<"text", "data">>,
     usage |-> <<"replace", "data">>, tool |-> <<"text", "data">>, stop |-> Err]

\* Either the token counts or the text of a line are kept, after its chunks.
ZhipuHandler ==
    [noise |-> <<>>, garbled |-> Err, failure |-> Err,
     empty |-> <<"data", "text">>, chunk |-> <<"data", "text">>,
     usage |-> <<"data", "replace">>, tool |-> ConvertOpenaiStream \o <<"text">>,
     stop |-> <<"eof", "close">>]

\* An event without a message is dropped; message-end has the usage.
CohereHandler ==
    [noise |-> <<>>, garbled |-> Err, failure |-> <<>>,
     empty |-> <<>>, chunk |-> <<"text", "data">>, usage |-> <<"replace", "data">>,
     tool |-> <<"text", "data">>, stop |-> <<"eof", "close">>]

\* The handlers of CreateChatCompletionStream.
ChatHandlers ==
    [baidu |-> BaiduHandler, ollama |-> OllamaHandler, hunyuan |-> HunyuanHandler,
     ali |-> AliHandler, palm |-> PalmHandler, coze |-> CozeHandler,
     gemini |-> GeminiHandler, claude |-> ClaudeHandler, replicate |-> ReplicateHandler,
     cloudflareAI |-> CloudflareAIHandler, tencent |-> TencentHandler,
     databricks |-> AzureDatabricksHandler, xunfei |-> XunfeiHandler,
     openai |-> OpenAIChatHandler, openaiResponses |-> OpenAIResponsesChatHandler,
     zhipu |-> ZhipuHandler, cohere |-> CohereHandler]

\* The handlers that never write to usage.TextBuilder: what they delivered is
\* billed only when the upstream got as far as its token counts.
ReportOnly == {"baidu", "ollama", "hunyuan", "ali", "replicate", "databricks", "xunfei"}
=============================================================================
