------------------------------- MODULE Session -------------------------------
(***************************************************************************)
(* One relayed request from relay.send to the last byte: the request's     *)
(* goroutine (send of the endpoint and the error path of Relay), the       *)
(* stream reader with its handler, the responder that forwards chunks to   *)
(* the client, and the heartbeat.  DataChan and ErrChan are unbuffered: a  *)
(* send of the reader and a receive of the responder are one step.         *)
(*                                                                         *)
(* The next channel of a retry is module Relay, what the bill costs module *)
(* Quota; here whether anything is billed at all.                          *)
(***************************************************************************)
EXTENDS StreamHandlers, Adapters

CONSTANTS MaxLines,   \* bound: the lines an upstream sends
          MaxTries,   \* bound: the tries of Relay
          MaxPings    \* bound: the ticks of the heartbeat

VARIABLES ep,        \* the endpoint, see Endpoints
          handler,   \* the name of the provider's stream handler
          req,       \* where the request's goroutine is
          tries,
          body,      \* how the answered call settled usage, and its answer
          client,    \* "here" or "gone": c.Request.Context()
          wire,      \* what was written to the client, pings left out
          reader,    \* the goroutine of stream.Recv
          ops,       \* what is left of the handler's call
          line,      \* the kind of the line being handled
          lines,     \* lines read
          closed,    \* stream.Close was called: only buffered lines are left
          responder, \* the goroutine of responseStreamClient and its like
          usage,     \* PromptTokens > 0, CompletionTokens > 0, TextBuilder.Len() > 0
          delivered, \* history: a chunk with text reached the responder
          erred,     \* history: the handler sent an error of its own
          billed,    \* "none", reserved ("open"), "undone", or what was billed
          beat,      \* the goroutine of the heartbeat
          stopped, headerSent,
          pings,
          late       \* history: writes of the heartbeat after Stop

readerVars == <<reader, ops, line, lines, closed, responder, usage, delivered, erred>>
beatVars == <<beat, stopped, headerSent, pings, late>>
vars == <<ep, handler, req, tries, body, client, wire, billed, readerVars, beatVars>>

-----------------------------------------------------------------------------
(* The endpoints.  lacking: what send does with a provider that has not the *)
(* endpoint's interface; safe: the content is checked first; heartbeat:     *)
(* whether the endpoint allows one; stream and json: the responders;        *)
(* billing: whether each try reserves quota.                                *)

Endpoint(lacking, safe, heartbeat, stream, json, handlers, calls) ==
    [lacking |-> lacking, safe |-> safe, heartbeat |-> heartbeat, stream |-> stream,
     json |-> json, handlers |-> handlers, calls |-> calls, billing |-> "each"]

RelayChat ==
    Endpoint("refuse", TRUE, TRUE, "openai", "json", DOMAIN ChatHandlers, ChatCalls)
RelayCompletions ==
    Endpoint("refuse", TRUE, FALSE, "openai", "json", {"completion"}, {OpenAICompletion})
RelayClaude ==
    Endpoint("refuse", TRUE, TRUE, "general", "json", {"claudeRelay", "bedrockRelay"},
             {ClaudeRelay, BedrockRelay, VertexAIClaudeRelay})
\* A provider that is no GeminiChatInterface answers nothing at all.
RelayGemini ==
    Endpoint("empty", TRUE, TRUE, "general", "json", {"geminiRelay"},
             {GeminiRelay, VertexAIGeminiRelay})
RelayResponses ==
    Endpoint("compat", FALSE, FALSE, "general", "json", {"responses"}, {OpenAIResponses})
\* compatibleSend: the chat interface behind the responses endpoint.
RelayResponsesCompat ==
    Endpoint("refuse", FALSE, FALSE, "converter", "json", DOMAIN ChatHandlers, CompatCalls)

\* An endpoint that does not stream.
Plain(safe, json, calls) == Endpoint("refuse", safe, FALSE, "none", json, {}, calls)

RelayEmbeddings == Plain(TRUE, "json", EmbeddingsCalls)
RelayModerations == Plain(FALSE, "json", {OpenAIModeration})
RelayRerank == Plain(FALSE, "json", RerankCalls)
RelayImageGenerations == Plain(FALSE, "json", ImageCalls)
RelayImageEdits == Plain(FALSE, "json", {OpenAIImageEdits})
RelayImageVariations == Plain(FALSE, "json", {OpenAIImageVariations})
RelaySpeech == Plain(FALSE, "multipart", SpeechCalls)
RelayTranscriptions == Plain(FALSE, "custom", TranscriptionCalls)
RelayTranslations == Plain(FALSE, "custom", {OpenAITranslation})
\* One reservation for all tries, consumed before the answer is copied; the
\* provider of a retry is never given a Usage.
RelayRecraftAI ==
    [Plain(FALSE, "copy", {RecraftAIRelay}) EXCEPT !.lacking = "set", !.billing = "once"]
\* The paths that are passed on as they are, logged with a quota of zero.
RelayOnly ==
    [Plain(FALSE, "multipart", {OpenAIRelay}) EXCEPT !.lacking = "set", !.billing = "never"]

Endpoints ==
    {RelayChat, RelayCompletions, RelayClaude, RelayGemini, RelayResponses,
     RelayResponsesCompat, RelayEmbeddings, RelayModerations, RelayRerank,
     RelayImageGenerations, RelayImageEdits, RelayImageVariations, RelaySpeech,
     RelayTranscriptions, RelayTranslations, RelayRecraftAI, RelayOnly}

RelayHandlers ==
    [completion |-> OpenAICompletionHandler, claudeRelay |-> ClaudeRelayHandler,
     bedrockRelay |-> BedrockRelayHandler, geminiRelay |-> GeminiRelayHandler,
     responses |-> OpenAIResponsesHandler]

\* The calls that bill what the answer reports, be it nothing.
Trusting == {"report", "deref", "reportIf", "reportElse"}

StreamHandler == [h \in DOMAIN ChatHandlers \cup DOMAIN RelayHandlers |->
                IF h \in DOMAIN ChatHandlers THEN ChatHandlers[h] ELSE RelayHandlers[h]]

NoHandler == "none"   \* a request that is not a stream

\* The readers without the time-out of http_stream_reader.go:67 and without
\* its recover: the websocket's and Bedrock's.
Bare == {"xunfei", "bedrockRelay"}

-----------------------------------------------------------------------------
SessionTypeOK ==
    /\ ep \in Endpoints /\ handler \in DOMAIN StreamHandler \cup {NoHandler}
    /\ req \in {"set", "reserve", "send", "stop", "respond", "error", "safeWrite", "end"}
    /\ tries \in 0..MaxTries /\ client \in {"here", "gone"}
    /\ wire \in Seq({"data", "error", "usage", "done", "body", "part", "streamError", "jsonError"})
    /\ reader \in {"none", "read", "handle", "fail", "eof", "panic", "ended"}
    /\ ops \in Seq(Ops) /\ line \in Kinds /\ lines \in 0..MaxLines
    /\ responder \in {"none", "select", "ended"}
    /\ closed \in BOOLEAN /\ delivered \in BOOLEAN /\ erred \in BOOLEAN
    /\ usage \in [prompt : BOOLEAN, tokens : BOOLEAN, text : BOOLEAN]
    /\ body.answer \in Answers \cup {"none"}
    /\ billed \in {"none", "open", "undone", "nothing", "prompt", "tokens"}
    /\ beat \in {"off", "timer", "header", "ticker", "ping", "ended"}
    /\ stopped \in BOOLEAN /\ headerSent \in BOOLEAN
    /\ pings \in 0..MaxPings /\ late \in Nat

\* usage of RelayHandler: the counted prompt.
FreshUsage == [prompt |-> TRUE, tokens |-> FALSE, text |-> FALSE]

SessionInit ==
    /\ ep \in Endpoints
    /\ handler \in ep.handlers \cup {NoHandler}
    /\ req = "set" /\ tries = 0 /\ client = "here" /\ wire = <<>>
    /\ body = [how |-> "none", answer |-> "none"]
    /\ reader = "none" /\ ops = <<>> /\ line = "noise" /\ lines = 0 /\ closed = FALSE
    /\ responder = "none" /\ usage = FreshUsage
    /\ delivered = FALSE /\ erred = FALSE /\ billed = "none"
    /\ beat = "off" /\ stopped = FALSE /\ headerSent = FALSE /\ pings = 0 /\ late = 0

\* A write is skipped when the client has gone.
Write(items) == wire' = IF client = "here" THEN wire \o items ELSE wire

-----------------------------------------------------------------------------
(* The request's goroutine *)

\* setRequest or setProvider refuses the request before anything is reserved.
SetRequestFails ==
    /\ req = "set"
    /\ Write(<<"jsonError">>) /\ req' = "end"
    /\ UNCHANGED <<ep, handler, body, tries, client, billed, readerVars, beatVars>>

\* SetHeartbeat: NewHeartbeat and Start, when the endpoint and the token's
\* setting allow one.
SetRequest ==
    /\ req = "set"
    /\ req' = IF ep.billing = "never" THEN "send" ELSE "reserve"
    /\ beat' \in IF ep.heartbeat THEN {"off", "timer"} ELSE {"off"}
    /\ UNCHANGED <<ep, handler, body, tries, client, wire, billed, readerVars,
                   stopped, headerSent, pings, late>>

\* RelayHandler up to send: a new Usage, then PreQuotaConsumption.
Reserve ==
    /\ req = "reserve"
    /\ usage' = FreshUsage
    /\ \/ req' = "send" /\ billed' = "open"
       \/ req' = "error" /\ billed' = "undone"
    /\ UNCHANGED <<ep, handler, body, tries, client, wire, reader, ops, line, lines, closed,
                   responder, delivered, erred, beatVars>>

\* RelayHandler after send without an error: the text stands in for missing
\* token counts, then Consume.
Bill(u) ==
    IF u.tokens \/ u.text THEN "tokens" ELSE IF u.prompt THEN "prompt" ELSE "nothing"
Consume == billed' = Bill(usage)

\* The provider lacks the interface, or the content check refuses: done.
SendRefused ==
    /\ req = "send"
    /\ ep.lacking = "refuse" \/ ep.safe
    /\ req' = "error" /\ billed' = "undone"
    /\ UNCHANGED <<ep, handler, body, tries, client, wire, readerVars, beatVars>>

SendNothing ==
    /\ req = "send" /\ ep.lacking = "empty"
    /\ req' = "end" /\ Consume
    /\ UNCHANGED <<ep, handler, body, tries, client, wire, readerVars, beatVars>>

\* The upstream call fails before the answer starts, in any of its steps:
\* Undo, and a retry or the error path.
Failed ==
    /\ \/ /\ tries < MaxTries /\ ep.billing # "never"
          /\ tries' = tries + 1
          /\ IF ep.billing = "each" THEN req' = "reserve" /\ billed' = "undone"
             ELSE UNCHANGED <<req, billed>>
       \/ /\ req' = "error" /\ UNCHANGED tries
          /\ billed' = IF ep.billing = "never" THEN billed ELSE "undone"
    /\ UNCHANGED <<ep, handler, body, client, wire, readerVars, beatVars>>

SendFails_NoUndo ==   \* Mutant: an error that is not retried skips Undo
    /\ req = "send"
    /\ \/ tries < MaxTries /\ tries' = tries + 1 /\ req' = "reserve" /\ billed' = "undone"
       \/ req' = "error" /\ UNCHANGED <<tries, billed>>
    /\ UNCHANGED <<ep, handler, body, client, wire, readerVars, beatVars>>
SendFails == req = "send" /\ Failed

\* The stream begins.
SendSucceeds ==
    /\ req = "send" /\ handler # NoHandler
    /\ req' = IF ep.heartbeat THEN "stop" ELSE "respond"
    /\ UNCHANGED <<ep, handler, body, tries, client, wire, billed, readerVars, beatVars>>

\* A call that is no stream is answered: its response, an error it finds in
\* the answer, or a panic.  RelayPanicRecover answers a panic; RelayHandler
\* does not come to Undo or Consume.
NoUsage == ep.billing = "once" /\ tries > 0

CallAnswered(call, answer) ==
    /\ req = "send" /\ handler = NoHandler
    /\ \/ Returns(call, answer) = "error" /\ Failed
       \/ /\ Returns(call, answer) = "ok" /\ ~NoUsage
          /\ usage' = Settled(call, answer, usage)
          /\ body' = [how |-> How(call), answer |-> answer]
          /\ req' = IF ep.heartbeat THEN "stop" ELSE "respond"
          /\ UNCHANGED <<ep, handler, tries, client, wire, billed, reader, ops, line, lines,
                         closed, responder, delivered, erred, beatVars>>
       \/ /\ Returns(call, answer) = "panic" \/ NoUsage
          /\ body' = [how |-> How(call), answer |-> answer]
          /\ Write(<<"jsonError">>) /\ req' = "end"
          /\ UNCHANGED <<ep, handler, tries, client, billed, readerVars, beatVars>>

\* heartbeat.Stop before the answer is written.
StopHeartbeat ==
    /\ req = "stop"
    /\ stopped' = TRUE /\ req' = "respond"
    /\ UNCHANGED <<ep, handler, body, tries, client, wire, billed, readerVars,
                   beat, headerSent, pings, late>>

\* stream.Recv and the responder's goroutine.
Recv ==
    /\ req = "respond" /\ handler # NoHandler /\ responder = "none"
    /\ reader' = "read" /\ responder' = "select"
    /\ UNCHANGED <<ep, handler, body, req, tries, client, wire, billed, ops, line, lines, closed,
                   usage, delivered, erred, beatVars>>

\* responseStreamClient, responseGeneralStreamClient and
\* chatToResponseStreamClient return no error, whatever ended the stream.
StreamSettled_Failed ==   \* Mutant: the error of the stream is returned
    /\ req = "respond" /\ responder = "ended" /\ ~closed
    /\ closed' = TRUE
    /\ IF erred THEN req' = "error" /\ billed' = "undone" ELSE req' = "end" /\ Consume
    /\ UNCHANGED <<ep, handler, body, tries, client, wire, reader, ops, line, lines, responder,
                   usage, delivered, erred, beatVars>>
StreamSettled ==
    /\ req = "respond" /\ responder = "ended" /\ ~closed
    /\ closed' = TRUE
    /\ req' = "end" /\ Consume
    /\ UNCHANGED <<ep, handler, body, tries, client, wire, reader, ops, line, lines, responder,
                   usage, delivered, erred, beatVars>>

\* responseJsonClient never fails; the others may, after a part was copied.
\* Only a copy of Recraft's answer, whose Consume comes first, ends there.
RespondBody ==
    /\ req = "respond" /\ handler = NoHandler
    /\ \/ /\ Write(<<"body">>) /\ req' = "end"
          /\ IF ep.billing = "never" THEN UNCHANGED billed ELSE Consume
       \/ /\ ep.json \in {"multipart", "custom"}
          /\ Write(IF ep.json = "multipart" THEN <<"part">> ELSE <<>>)
          /\ req' = "error"
          /\ billed' = IF ep.billing = "never" THEN billed ELSE "undone"
       \/ /\ ep.json = "copy"
          /\ Write(<<"part">>) /\ req' = "end" /\ Consume
    /\ UNCHANGED <<ep, handler, body, tries, client, readerVars, beatVars>>

\* IsSafeWriteStream stops the heartbeat, then looks whether its header went out.
ErrorStops ==
    /\ req = "error"
    /\ stopped' = (beat # "off" \/ stopped)
    /\ req' = "safeWrite"
    /\ UNCHANGED <<ep, handler, body, tries, client, wire, billed, readerVars,
                   beat, headerSent, pings, late>>

ErrorWrites ==
    /\ req = "safeWrite"
    /\ Write(IF headerSent /\ handler # NoHandler THEN <<"streamError">> ELSE <<"jsonError">>)
    /\ req' = "end"
    /\ UNCHANGED <<ep, handler, body, tries, client, billed, readerVars, beatVars>>

\* The deferred heartbeat.Close.
CloseHeartbeat ==
    /\ req = "end" /\ beat # "off" /\ ~stopped
    /\ stopped' = TRUE
    /\ UNCHANGED <<ep, handler, body, req, tries, client, wire, billed, readerVars,
                   beat, headerSent, pings, late>>

Request == SetRequestFails \/ SetRequest \/ Reserve \/ SendRefused \/ SendNothing
           \/ SendFails \/ SendSucceeds
           \/ (\E call \in ep.calls, answer \in Answers : CallAnswered(call, answer))
           \/ StopHeartbeat
           \/ Recv \/ StreamSettled \/ RespondBody \/ ErrorStops \/ ErrorWrites
           \/ CloseHeartbeat

-----------------------------------------------------------------------------
(* The stream reader: processLines *)

\* A line arrives, or was buffered before Close; the handler is called on it.
ReadLine(kind) ==
    /\ reader = "read" /\ lines < MaxLines
    /\ lines' = lines + 1 /\ line' = kind
    /\ ops' = StreamHandler[handler][kind]
    /\ reader' = "handle"
    /\ UNCHANGED <<ep, handler, body, req, tries, client, wire, billed, closed, responder,
                   usage, delivered, erred, beatVars>>

\* The body ends, breaks off or was closed.
ReadEnds(how) ==
    /\ reader = "read"
    /\ closed => how = "fail"
    /\ reader' = how
    /\ UNCHANGED <<ep, handler, body, req, tries, client, wire, billed, ops, line, lines, closed,
                   responder, usage, delivered, erred, beatVars>>

\* The handler returned.
HandlerReturns ==
    /\ reader = "handle" /\ ops = <<>>
    /\ reader' = "read"
    /\ UNCHANGED <<ep, handler, body, req, tries, client, wire, billed, ops, line, lines, closed,
                   responder, usage, delivered, erred, beatVars>>

\* Effects on usage, StreamClosed, and a panic (recovered by Recv).
HandlerStep ==
    /\ reader = "handle" /\ ops # <<>>
    /\ Head(ops) \in {"text", "usage", "replace", "close", "panic"}
    /\ ops' = Tail(ops)
    /\ LET counted == line \in {"usage", "stop"}
       IN  usage' = CASE Head(ops) = "text" -> [usage EXCEPT !.text = @ \/ line = "chunk"]
                      [] Head(ops) = "usage" -> [usage EXCEPT !.tokens = counted]
                      [] Head(ops) = "replace" ->
                            [prompt |-> counted, tokens |-> counted, text |-> FALSE]
                      [] OTHER -> usage
    /\ reader' = CASE Head(ops) = "close" -> "ended"
                   [] Head(ops) = "panic" -> "panic"
                   [] OTHER -> "handle"
    /\ erred' = (erred \/ Head(ops) = "panic")
    /\ UNCHANGED <<ep, handler, body, req, tries, client, wire, billed, line, lines, closed,
                   responder, delivered, beatVars>>

\* The time-out on a read error that nobody receives.
GiveUp ==
    /\ reader \in {"fail", "eof"} /\ handler \notin Bare
    /\ responder = "ended"
    /\ reader' = "ended"
    /\ UNCHANGED <<ep, handler, body, req, tries, client, wire, billed, ops, line, lines, closed,
                   responder, usage, delivered, erred, beatVars>>

Reader == (\E kind \in Kinds : ReadLine(kind)) \/ (\E how \in {"fail", "eof"} : ReadEnds(how))
          \/ HandlerReturns \/ HandlerStep \/ GiveUp

-----------------------------------------------------------------------------
(* The responder, each step together with the reader's send *)

\* A chunk is received; it is written unless the client has gone, and the
\* loop goes on in either case.
Forward ==
    /\ reader = "handle" /\ ops # <<>> /\ Head(ops) = "data" /\ responder = "select"
    /\ ops' = Tail(ops)
    /\ delivered' = (delivered \/ line = "chunk")
    /\ Write(<<"data">>)
    /\ UNCHANGED <<ep, handler, body, req, tries, client, billed, reader, line, lines, closed,
                   responder, usage, erred, beatVars>>

\* io.EOF: the end handler's usage chunk and the end marker of the endpoint.
EndItems ==
    IF ep.stream = "openai" THEN <<"usage", "done">>
    ELSE IF ep.stream = "converter" THEN <<"done">> ELSE <<>>

Ended(items) ==
    /\ responder = "select" /\ responder' = "ended"
    /\ Write(items)
    /\ UNCHANGED <<ep, handler, body, req, tries, client, billed, line, lines, closed,
                   usage, delivered, beatVars>>

\* The handler sends io.EOF or an error and goes on; processLines and the
\* recover of Recv send theirs and end.
HandlerEOF ==
    /\ reader = "handle" /\ ops # <<>> /\ Head(ops) = "eof"
    /\ ops' = Tail(ops) /\ Ended(EndItems) /\ UNCHANGED <<reader, erred>>

HandlerError ==
    /\ reader = "handle" /\ ops # <<>> /\ Head(ops) = "err"
    /\ ops' = Tail(ops) /\ erred' = TRUE /\ Ended(<<"error">>) /\ UNCHANGED reader

ReaderEOF ==
    /\ reader = "eof" /\ reader' = "ended"
    /\ Ended(EndItems) /\ UNCHANGED <<ops, erred>>

ReaderError ==
    /\ reader \in {"fail", "panic"} /\ reader' = "ended"
    /\ Ended(<<"error">>) /\ UNCHANGED <<ops, erred>>

Responder == Forward \/ HandlerEOF \/ HandlerError \/ ReaderEOF \/ ReaderError

-----------------------------------------------------------------------------
(* The heartbeat *)

\* h.ctx is cancelled: the goroutine sees it in its select.
BeatCancelled ==
    /\ beat \in {"timer", "ticker"} /\ stopped
    /\ beat' = "ended"
    /\ UNCHANGED <<ep, handler, body, req, tries, client, wire, billed, readerVars,
                   stopped, headerSent, pings, late>>

BeatClientGone ==
    /\ beat \in {"timer", "ticker"} /\ client = "gone"
    /\ beat' = "ended" /\ stopped' = TRUE
    /\ UNCHANGED <<ep, handler, body, req, tries, client, wire, billed, readerVars,
                   headerSent, pings, late>>

\* The timer or the ticker fires; stopped is loaded before the write.
BeatFires ==
    /\ beat \in {"timer", "ticker"}
    /\ beat = "ticker" => pings < MaxPings
    /\ beat' = IF stopped THEN "ended" ELSE IF beat = "timer" THEN "header" ELSE "ping"
    /\ UNCHANGED <<ep, handler, body, req, tries, client, wire, billed, readerVars,
                   stopped, headerSent, pings, late>>

\* writeHeader past its check, or one ping; a failed write stops the heartbeat.
BeatWrites_NoCheck ==   \* Mutant: the ticker's loop forgets to look at stopped
    /\ beat \in {"header", "ping"}
    /\ headerSent' = TRUE
    /\ late' = IF stopped THEN late + 1 ELSE late
    /\ pings' = IF beat = "ping" THEN pings + 1 ELSE pings
    /\ beat' = IF pings' < MaxPings THEN "ping" ELSE "ended"
    /\ UNCHANGED <<ep, handler, body, req, tries, client, wire, billed, readerVars, stopped>>
BeatWrites ==
    /\ beat \in {"header", "ping"}
    /\ headerSent' = TRUE
    /\ late' = IF stopped THEN late + 1 ELSE late
    /\ pings' = IF beat = "ping" THEN pings + 1 ELSE pings
    /\ \/ beat' = "ticker" /\ UNCHANGED stopped
       \/ beat = "ping" /\ client = "gone" /\ beat' = "ended" /\ stopped' = TRUE
    /\ UNCHANGED <<ep, handler, body, req, tries, client, wire, billed, readerVars>>

Beat == BeatCancelled \/ BeatClientGone \/ BeatFires \/ BeatWrites

ClientLeaves ==
    /\ client = "here" /\ req # "end"
    /\ client' = "gone"
    /\ UNCHANGED <<ep, handler, body, req, tries, wire, billed, readerVars, beatVars>>

SessionNext == Request \/ Reader \/ Responder \/ Beat \/ ClientLeaves

SessionSpec == SessionInit /\ [][SessionNext]_vars

\* Every goroutine that can run does; the upstream's lines end (MaxLines, then
\* the body's end or the read time-out of the HTTP client).
SessionFair ==
    /\ WF_vars(Request) /\ WF_vars(Reader) /\ WF_vars(Responder)
    /\ WF_vars(BeatCancelled \/ BeatClientGone) /\ WF_vars(BeatWrites)

-----------------------------------------------------------------------------
(* Properties *)

\* Every request is answered and leaves no goroutine behind: the responder
\* drains the stream also when the client has gone, the reader ends, the
\* heartbeat stops.  The one exception is a handler that reports an error
\* without StreamClosed while more lines are buffered: its next send blocks
\* for ever (erred).
SessionOver ==
    /\ req = "end" /\ beat \in {"off", "ended"}
    /\ reader \in {"none", "ended"} \/ erred

\* The client gets one ending: after an end marker or an error nothing more is
\* written, and an error body never follows content.  Speech is the
\* exception, whose copy may break off after a part.
OneEnding ==
    \A i \in DOMAIN wire :
        /\ wire[i] \in {"done", "error", "body", "streamError", "jsonError"} => i = Len(wire)
        /\ wire[i] = "data" => "jsonError" \notin {wire[j] : j \in DOMAIN wire}

\* "Compute the tokens when a stream is interrupted" (relay/main.go:161): text
\* that reached the responder is billed, however the stream ended and whether
\* or not the client stayed, for every handler that collects the text.  A body
\* with content is billed too, whatever the tries before it reported, by every
\* call that does not take the upstream's report on trust.
DeliveredIsBilled ==
    /\ req = "end" /\ delivered /\ handler \notin ReportOnly => billed = "tokens"
    /\ req = "end" /\ body.answer \in Content /\ "body" \in Range(wire) =>
          /\ body.how \in {"reportOrCount", "count"} => billed = "tokens"
          /\ body.answer = "full" \/ body.how \notin Trusting => billed # "nothing"

\* Whatever happens to a request, its reservation is given back or consumed.
\* The exceptions are the panics, on a missing report and on the Usage that a
\* retry of Recraft lacks: the recover of the router answers, and the quota
\* stays reserved for good.
ReservationSettled ==
    req = "end" /\ billed = "open" =>
        NoUsage \/ (body.how = "deref" /\ body.answer \in Unreported)

\* After Stop the heartbeat writes at most once more, the write that had
\* passed its check (heartbeat.go:60,90,113).
LateWriteOnce == late <= 1
=============================================================================
