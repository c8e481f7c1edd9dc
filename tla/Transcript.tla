----------------------------- MODULE Transcript -----------------------------
(***************************************************************************)
(* How the words of a model become the stored history of a session.        *)
(*                                                                         *)
(* A reply loads the history, strips placeholders and compacts it          *)
(* (prepare_reply_session), sends it to a model provider, and reads the    *)
(* provider's stream line by line into an accumulator, whose snapshots the *)
(* run engine turns into message_delta and message events                  *)
(* (run_provider_turn, emit_provider_message).  The event pump of the      *)
(* server applies each event to its own copy of the history                *)
(* (persist_core_event), and the finish event merges the final messages    *)
(* once more before the copy is saved.  The queue between engine and pump  *)
(* is first-in first-out with one reader (modules EventRouter, ReplyFlow), *)
(* so an event is applied here in the step that sends it.                  *)
(*                                                                         *)
(* Text is a sequence of piece numbers, every piece new; a tool call has   *)
(* an identifier and one fragment of arguments.  A message is              *)
(* [id, role, blocks]; a block is text, a tool request or a tool response. *)
(***************************************************************************)
EXTENDS Integers, Sequences, FiniteSets, SequencesExt, Filtering

CONSTANTS
  Providers,     \* \subseteq {"chat", "anthropic", "responses", "ollama"}
  MaxReplies,    \* replies of the session, one after the other
  MaxTurns,      \* limits.max_turns of a run
  MaxRetries,    \* request_retries, after clamping
  MaxLines,      \* content lines and tool calls of one stream
  MaxFaults,     \* length of the one network outage of a behaviour
  PreserveRecent,\* ContextManager::preserve_recent
  Threshold      \* context_threshold_tokens, a message counting one token

\* A run has a turn and a stream may say something.
ASSUME TranscriptAssumption ==
  /\ Providers \subseteq {"chat", "anthropic", "responses", "ollama"}
  /\ MaxReplies \in Nat /\ MaxTurns \in Nat \ {0} /\ MaxRetries \in Nat
  /\ MaxLines \in Nat \ {0} /\ MaxFaults \in Nat /\ PreserveRecent \in Nat /\ Threshold \in Nat

VARIABLES
  prov,      \* the provider of the session
  stored,    \* messages rows of the session, by position
  session,   \* the pump's copy of the conversation
  history,   \* the engine's copy: `messages` of run_agent_with_events
  final,     \* final_messages of the run
  acc,       \* the accumulator of the stream
  meant,     \* what the model has said in this stream: parts and calls
  streamed,  \* streamed_text of the turn: message id -> text sent so far
  turn,      \* [n, msgs, tools]: number, latest_messages in order, has_tool_requests
  retries,   \* [http, turn]: retries done by the request and by the turn loop
  partials,  \* ids of messages sent by attempts that failed
  outcome,   \* how the last run ended: "none", "finish" or "error"
  replies, faults, nextId, phase

vars == <<prov, stored, session, history, final, acc, meant, streamed, turn,
          retries, partials, outcome, replies, faults, nextId, phase>>

-----------------------------------------------------------------------------
(* Messages                                                                *)

TextBlock(t) == [kind |-> "text", text |-> t]

Request(c, full) == [kind |-> "request", call |-> c, full |-> full]

Response(c) == [kind |-> "response", call |-> c]

Message(id, role, blocks) == [id |-> id, role |-> role, blocks |-> blocks]

Placeholder(id) == Message(id, "assistant", <<[kind |-> "no_reply"]>>)

TextContent(msg) ==
  Joined([i \in DOMAIN msg.blocks |->
    IF msg.blocks[i].kind = "text" THEN msg.blocks[i].text ELSE <<>>])

CallsOf(msgs, kind) ==
  {b.call : b \in {x \in UNION {ToSet(m.blocks) : m \in ToSet(msgs)} : x.kind = kind}}

Position(msgs, id) == CHOOSE i \in DOMAIN msgs :
  msgs[i].id = id /\ \A j \in 1..(i - 1) : msgs[j].id # id

Has(msgs, id) == \E i \in DOMAIN msgs : msgs[i].id = id

-----------------------------------------------------------------------------
(* The accumulators of the four providers.  A step returns the accumulator *)
(* and the messages the stream yields for that line.                       *)

NewAcc(id) == [id |-> id, content |-> <<>>, calls |-> <<>>, buffered |-> {}]

\* finish: text first, then the tool calls; arguments that do not parse
\* become the empty object.
Finish(a) ==
  LET text == IF a.content = <<>> THEN <<>> ELSE <<TextBlock(a.content)>>
      requests == [i \in DOMAIN a.calls |-> Request(a.calls[i].call, a.calls[i].full)]
  IN IF text \o requests = <<>> THEN <<>>
     ELSE <<Message(a.id, "assistant", text \o requests)>>

Yield(a, out) == [acc |-> a, out |-> out]

AddContent(a, piece) == [a EXCEPT !.content = Append(@, piece)]

AddCall(a, c) == [a EXCEPT !.calls = Append(@, [call |-> c, full |-> FALSE])]

\* push_str of an arguments fragment to the call the chat stream's index names
FillCall(a, c) ==
  [a EXCEPT !.calls =
     [i \in DOMAIN @ |-> IF @[i].call = c THEN [@[i] EXCEPT !.full = TRUE] ELSE @[i]]]

ChatLine(a, line, fresh) ==
  CASE line.tag = "content" -> LET b == AddContent(a, line.piece) IN Yield(b, Finish(b))
    [] line.tag = "call"    -> Yield(AddCall(a, line.call), <<>>)
    [] line.tag = "args"    -> Yield(FillCall(a, line.call), <<>>)
    [] line.tag = "stop"    -> Yield(NewAcc(fresh), Finish(a))
    [] OTHER                -> Yield(a, <<>>)

\* input_json_delta goes to a buffer that finish never reads: a tool call keeps
\* the input of its content_block_start.
AnthropicLine(a, line, fresh) ==
  CASE line.tag = "content" -> LET b == AddContent(a, line.piece) IN Yield(b, Finish(b))
    [] line.tag = "call"    -> Yield([AddCall(a, line.call) EXCEPT !.buffered = {}], <<>>)
    [] line.tag = "args"    -> Yield([a EXCEPT !.buffered = {line.call}], <<>>)
    [] line.tag = "stop"    -> Yield(NewAcc(fresh), Finish(a))
    [] OTHER                -> Yield(a, <<>>)

\* no snapshots: one message when the chunk says done; call ids count from zero
OllamaLine(a, line, fresh) ==
  CASE line.tag = "content" -> Yield(AddContent(a, line.piece), <<>>)
    [] line.tag = "call"    -> Yield(FillCall(AddCall(a, Len(a.calls)), Len(a.calls)), <<>>)
    [] line.tag = "stop"    -> Yield(NewAcc(fresh), Finish(a))
    [] OTHER                -> Yield(a, <<>>)

\* Mutant: text that was already streamed is not recognised.
AppendTextMutant(a, text) ==
  IF text = <<>> THEN a ELSE [a EXCEPT !.content = @ \o text]

AppendText(a, text) ==
  IF text = <<>> \/ IsSuffix(text, a.content) THEN a
  ELSE IF IsPrefix(a.content, text) THEN [a EXCEPT !.content = text]
  ELSE [a EXCEPT !.content = @ \o text]

\* apply_item for a message: every text part is appended
ApplyMessage(a, parts) ==
  LET after[i \in 0..Len(parts)] ==
        IF i = 0 THEN a ELSE AppendText(after[i - 1], parts[i])
  IN after[Len(parts)]

\* apply_item for a function_call, and output_item.done with its arguments
\* taken from the item or from the buffered deltas
ApplyCall(a, c, full) ==
  LET known == \E i \in DOMAIN a.calls : a.calls[i].call = c
      b == IF known THEN a ELSE AddCall(a, c)
  IN IF full THEN FillCall(b, c) ELSE b

ApplyCalls(a, calls) ==
  LET after[i \in 0..Len(calls)] ==
        IF i = 0 THEN a ELSE ApplyCall(after[i - 1], calls[i].call, calls[i].full)
  IN after[Len(calls)]

ResponsesLine(a, line, fresh) ==
  CASE line.tag = "content"   -> LET b == AddContent(a, line.piece) IN Yield(b, Finish(b))
    [] line.tag = "call"      -> Yield(ApplyCall(a, line.call, FALSE), <<>>)
    [] line.tag = "args"      -> Yield([a EXCEPT !.buffered = @ \union {line.call}], <<>>)
    [] line.tag = "call_done" -> Yield([ApplyCall(a, line.call, line.call \in a.buffered)
                                          EXCEPT !.buffered = @ \ {line.call}], <<>>)
    [] line.tag = "text_done" -> LET b == AppendText(a, Last(meant.parts))
                                 IN Yield(b, Finish(b))
    [] line.tag = "item_done" -> LET b == ApplyMessage(a, meant.parts)
                                 IN Yield(b, Finish(b))
    [] line.tag = "stop"      ->
         LET b == ApplyMessage(a, meant.parts)
         IN Yield(NewAcc(fresh), Finish(ApplyCalls(b, meant.calls)))
    [] OTHER                  -> Yield(a, <<>>)

ReadStream(line) ==
  CASE prov = "chat"      -> ChatLine(acc, line, nextId)
    [] prov = "anthropic" -> AnthropicLine(acc, line, nextId)
    [] prov = "ollama"    -> OllamaLine(acc, line, nextId)
    [] OTHER              -> ResponsesLine(acc, line, nextId)

-----------------------------------------------------------------------------
(* What a provider sends of a conversation                                 *)

\* The places of the blocks of a conversation: message, and block of it.
BlocksOf(conv) == UNION {{<<i, k>> : k \in DOMAIN conv[i].blocks} : i \in DOMAIN conv}

Before(x, y) == x[1] < y[1] \/ (x[1] = y[1] /\ x[2] < y[2])

\* The calls requested before place x.
CalledBefore(conv, x) ==
  {conv[y[1]].blocks[y[2]].call : y \in {z \in BlocksOf(conv) :
     Before(z, x) /\ conv[z[1]].blocks[z[2]].kind = "request"}}

\* Mutant: a call is sent although nothing answers it.
ResponsesItemsMutant(conv) ==
  LET block(x) == conv[x[1]].blocks[x[2]]
      kept == {x \in BlocksOf(conv) :
                 \/ block(x).kind = "request"
                 \/ block(x).kind = "response" /\ block(x).call \in CalledBefore(conv, x)}
  IN [x \in kept |-> block(x)]

\* responses_input_items_from_messages: a call is sent when some response to it
\* exists, a response when its call was sent before it.
ResponsesItems(conv) ==
  LET answered == CallsOf(conv, "response")
      block(x) == conv[x[1]].blocks[x[2]]
      kept == {x \in BlocksOf(conv) :
                 \/ block(x).kind = "request" /\ block(x).call \in answered
                 \/ block(x).kind = "response"
                    /\ block(x).call \in CalledBefore(conv, x) \intersect answered}
  IN [x \in kept |-> block(x)]

\* openai_messages_from_goose: every request and every response is sent.
ChatItems(conv) == Joined([i \in DOMAIN conv |-> conv[i].blocks])

-----------------------------------------------------------------------------
(* Events, and what the pump does with them                                *)

SameKind(m, n) == m.role = n.role /\ m.blocks[1].kind = n.blocks[1].kind

\* Mutant: a message the pump has not seen before is not added.
MergeMessageUnseenMutant(conv, m) ==
  IF Has(conv, m.id) /\ SameKind(conv[Position(conv, m.id)], m)
  THEN [conv EXCEPT ![Position(conv, m.id)] = m]
  ELSE conv

\* Mutant: a message is added whether or not its id is there.
MergeMessageAppendMutant(conv, m) == Append(conv, m)

MergeMessage(conv, m) ==
  IF Has(conv, m.id) /\ SameKind(conv[Position(conv, m.id)], m)
  THEN [conv EXCEPT ![Position(conv, m.id)] = m]
  ELSE Append(conv, m)

\* Mutant: a delta becomes a block of its own.
AppendDeltaMutant(m, delta) == [m EXCEPT !.blocks = Append(@, TextBlock(delta))]

AppendDelta(m, delta) ==
  LET texts == {i \in DOMAIN m.blocks : m.blocks[i].kind = "text"}
  IN IF texts = {} THEN [m EXCEPT !.blocks = <<TextBlock(delta)>> \o @]
     ELSE LET i == CHOOSE k \in texts : \A j \in texts : k <= j
          IN [m EXCEPT !.blocks[i].text = @ \o delta]

ApplyDelta(conv, id, delta) ==
  IF Has(conv, id)
  THEN LET i == Position(conv, id) IN [conv EXCEPT ![i] = AppendDelta(@, delta)]
  ELSE Append(conv, Message(id, "assistant", <<TextBlock(delta)>>))

\* emit_provider_message with stream_message_delta: a delta when the text grew,
\* the whole message when it changed otherwise, and the whole message again when
\* it holds tool blocks.
EventsOf(m, sent) ==
  LET text == TextContent(m)
      grown == IsStrictPrefix(sent, text)
      changed == text # <<>> /\ text # sent
      tools == \E i \in DOMAIN m.blocks : m.blocks[i].kind \in {"request", "response"}
  IN (IF grown THEN <<[type |-> "delta", id |-> m.id, delta |-> SubSeq(text, Len(sent) + 1, Len(text))]>>
      ELSE IF changed THEN <<[type |-> "message", message |-> m]>> ELSE <<>>)
     \o (IF tools THEN <<[type |-> "message", message |-> m]>> ELSE <<>>)

PersistEvent(conv, e) ==
  IF e.type = "delta" THEN ApplyDelta(conv, e.id, e.delta) ELSE MergeMessage(conv, e.message)

PersistEvents(conv, events) ==
  LET after[i \in 0..Len(events)] ==
        IF i = 0 THEN conv ELSE PersistEvent(after[i - 1], events[i])
  IN after[Len(events)]

MergeMessages(conv, msgs) ==
  LET after[i \in 0..Len(msgs)] ==
        IF i = 0 THEN conv ELSE MergeMessage(after[i - 1], msgs[i])
  IN after[Len(msgs)]

\* latest_messages under message_order: the first snapshot of an id fixes its
\* place, the last its content.
Latest(msgs, m) ==
  IF Has(msgs, m.id) THEN [msgs EXCEPT ![Position(msgs, m.id)] = m] ELSE Append(msgs, m)

-----------------------------------------------------------------------------
(* Preparing a reply                                                       *)

StripPlaceholders(conv) == Only(conv, {m \in ToSet(conv) : m.blocks[1].kind # "no_reply"})

\* maybe_compact_by_token_threshold: everything but the last PreserveRecent
\* messages becomes one summary.
Compact(conv, id) ==
  LET keep == PreserveRecent
  IN IF Threshold = 0 \/ Len(conv) < Threshold \/ keep = 0 \/ Len(conv) <= keep THEN conv
     ELSE <<Message(id, "system", <<[kind |-> "summary"]>>)>>
            \o SubSeq(conv, Len(conv) - keep + 1, Len(conv))

Prepare ==
  /\ phase = "idle" /\ replies < MaxReplies
  /\ LET conv == Compact(StripPlaceholders(stored), nextId)
         user == Message(nextId + 1, "user", <<TextBlock(<<nextId + 1>>)>>)
     IN /\ session' = Append(conv, user)
        /\ history' = Append(conv, [user EXCEPT !.id = nextId + 2])
  /\ nextId' = nextId + 3
  /\ replies' = replies + 1
  /\ final' = <<>> /\ partials' = {} /\ outcome' = "none"
  /\ turn' = [n |-> 1, msgs |-> <<>>, tools |-> FALSE]
  /\ retries' = [http |-> 0, turn |-> 0]
  /\ phase' = "request"
  /\ UNCHANGED <<prov, stored, acc, meant, streamed, faults>>

-----------------------------------------------------------------------------
(* One provider turn                                                       *)

\* provider.stream: the request is posted and answered (and an outage is over)
Post ==
  /\ phase = "request"
  /\ faults' = IF faults = 0 THEN 0 ELSE MaxFaults
  /\ acc' = NewAcc(nextId)
  /\ nextId' = nextId + 1
  /\ meant' = [parts |-> <<>>, calls |-> <<>>, open |-> "none"]
  /\ streamed' = <<>>
  /\ turn' = [turn EXCEPT !.msgs = <<>>, !.tools = FALSE]
  /\ phase' = "stream"
  /\ UNCHANGED <<prov, stored, session, history, final, retries, partials, outcome, replies>>

\* the run ends with an error event: the pump saves what it has
EndWithError ==
  /\ stored' = session
  /\ outcome' = "error"
  /\ phase' = "idle"
  /\ UNCHANGED <<retries, partials>>

\* run_provider_turn_with_retries
TurnFails ==
  IF retries.turn < MaxRetries
  THEN /\ retries' = [http |-> 0, turn |-> retries.turn + 1]
       /\ partials' = partials \union {m.id : m \in ToSet(turn.msgs)}
       /\ phase' = "request"
       /\ UNCHANGED <<stored, outcome>>
  ELSE EndWithError

\* the loop around send(): retryable statuses and network errors
PostFails ==
  /\ phase = "request" /\ faults < MaxFaults
  /\ faults' = faults + 1
  /\ IF retries.http < MaxRetries
     THEN /\ retries' = [retries EXCEPT !.http = @ + 1]
          /\ UNCHANGED <<stored, phase, partials, outcome>>
     ELSE TurnFails
  /\ UNCHANGED <<prov, session, history, final, acc, meant, streamed, turn, replies, nextId>>

\* a chunk fails, or the turn times out, in the middle of the stream
StreamBreaks ==
  /\ phase = "stream" /\ faults < MaxFaults
  /\ faults' = faults + 1
  /\ TurnFails
  /\ UNCHANGED <<prov, session, history, final, acc, meant, streamed, turn, replies, nextId>>

SentText(id) == IF id \in DOMAIN streamed THEN streamed[id] ELSE <<>>

\* the body of the while-let of run_provider_turn for the yielded message
Take(out) ==
  IF out = <<>> THEN UNCHANGED <<session, streamed, turn>>
  ELSE LET m == out[1]
           events == EventsOf(m, SentText(m.id))
       IN /\ session' = PersistEvents(session, events)
          /\ streamed' = [i \in DOMAIN streamed \union {m.id} |->
                            IF i = m.id THEN TextContent(m) ELSE streamed[i]]
          /\ turn' = [turn EXCEPT !.msgs = Latest(@, m),
                        !.tools = @ \/ \E i \in DOMAIN m.blocks : m.blocks[i].kind = "request"]

ReadLine(line) ==
  /\ phase = "stream"
  /\ LET y == ReadStream(line) IN acc' = y.acc /\ Take(y.out)
  /\ nextId' = nextId + 1
  /\ UNCHANGED <<prov, stored, history, final, retries, partials, outcome, replies, faults>>

-----------------------------------------------------------------------------
(* What a well-behaved model server sends (external).  `meant` is the      *)
(* message it is saying: its text parts and its calls; open is the item it *)
(* is in the middle of.                                                    *)

Size == Len(Joined(meant.parts)) + Len(meant.calls)

\* A piece of text.  The Responses protocol opens a new part after text_done.
SayText ==
  /\ meant.open \in {"none", "text"} /\ Size < MaxLines
  /\ LET opens == meant.open # "text" /\ (prov = "responses" \/ meant.parts = <<>>)
     IN meant' = [meant EXCEPT !.open = "text",
          !.parts = IF opens THEN Append(meant.parts, <<nextId>>)
                    ELSE [meant.parts EXCEPT ![Len(meant.parts)] = Append(@, nextId)]]
  /\ ReadLine([tag |-> "content", piece |-> nextId])
  /\ UNCHANGED phase

EndText ==
  /\ prov = "responses" /\ meant.open = "text"
  /\ meant' = [meant EXCEPT !.open = "none"]
  /\ ReadLine([tag |-> "text_done"])
  /\ UNCHANGED phase

EndMessageItem ==
  /\ prov = "responses" /\ meant.open = "none" /\ meant.parts # <<>> /\ meant.calls = <<>>
  /\ meant' = [meant EXCEPT !.open = "message_done"]
  /\ ReadLine([tag |-> "item_done"])
  /\ UNCHANGED phase

StartCall ==
  /\ Size < MaxLines
  /\ \/ meant.open \in (IF prov = "responses" THEN {"message_done"} ELSE {"none", "text"})
     \/ meant.parts = <<>> /\ meant.open = "none"
  /\ meant' = [meant EXCEPT !.open = IF prov = "ollama" THEN "none" ELSE "call",
                 !.calls = Append(@, [call |-> nextId, full |-> prov = "ollama"])]
  /\ ReadLine([tag |-> "call", call |-> nextId])
  /\ UNCHANGED phase

SayArguments ==
  /\ meant.open = "call" /\ ~Last(meant.calls).full
  /\ meant' = [meant EXCEPT !.calls[Len(meant.calls)].full = TRUE,
                 !.open = IF prov = "responses" THEN "call" ELSE "none"]
  /\ ReadLine([tag |-> "args", call |-> Last(meant.calls).call])
  /\ UNCHANGED phase

EndCall ==
  /\ prov = "responses" /\ meant.open = "call" /\ Last(meant.calls).full
  /\ meant' = [meant EXCEPT !.open = "message_done"]
  /\ ReadLine([tag |-> "call_done", call |-> Last(meant.calls).call])
  /\ UNCHANGED phase

\* finish_reason, message_stop, response.completed with its output, done: true
Stop ==
  /\ meant.open \notin (IF prov = "responses" THEN {"text", "call"} ELSE {"call"})
  /\ meant.open # "stopped"
  /\ meant' = [meant EXCEPT !.open = "stopped"]
  /\ ReadLine([tag |-> "stop"])
  /\ phase' = "turn_over"

-----------------------------------------------------------------------------
(* After the stream: tools, the next turn, the end of the run              *)

\* execute_turn_tools: one tool message per provider message with requests
ToolMessages(msgs, id) ==
  LET asking == Only(msgs, {m \in ToSet(msgs) :
                  \E i \in DOMAIN m.blocks : m.blocks[i].kind = "request"})
      answer(m) == Only(m.blocks, {b \in ToSet(m.blocks) : b.kind = "request"})
  IN [k \in DOMAIN asking |->
        Message(id + k, "tool",
                [i \in DOMAIN answer(asking[k]) |-> Response(answer(asking[k])[i].call)])]

HasAssistantAfter(conv, user) ==
  \E i \in DOMAIN conv : conv[i].role = "assistant"
     /\ (Has(conv, user) => i > Position(conv, user))

UserId(conv) == conv[CHOOSE i \in DOMAIN conv :
  conv[i].role = "user" /\ \A j \in DOMAIN conv : conv[j].role = "user" => j <= i].id

\* The finish event and finalize_pumped_session, then the save.
FinishRun(msgs) ==
  LET merged == MergeMessages(session, msgs)
  IN /\ stored' = IF HasAssistantAfter(merged, UserId(session)) THEN merged
                  ELSE Append(merged, Placeholder(nextId))
     /\ session' = merged
     /\ outcome' = "finish"
     /\ phase' = "idle"
     /\ UNCHANGED <<history, turn, retries>>

\* the turn's messages were empty: stop, or fail when a tool result waits for
\* an answer
EmptyTurn ==
  /\ phase = "turn_over" /\ turn.msgs = <<>>
  /\ IF turn.n > 1
     THEN /\ EndWithError
          /\ UNCHANGED <<session, history, turn>>
     ELSE FinishRun(final) /\ UNCHANGED partials
  /\ nextId' = nextId + 1
  /\ UNCHANGED <<prov, final, acc, meant, streamed, replies, faults>>

ExecuteTurn ==
  /\ phase = "turn_over" /\ turn.msgs # <<>>
  /\ LET tools == ToolMessages(turn.msgs, nextId)
         said == turn.msgs \o tools
     IN /\ final' = final \o said
        /\ IF turn.tools /\ turn.n < MaxTurns
           THEN /\ history' = history \o said
                /\ turn' = [n |-> turn.n + 1, msgs |-> <<>>, tools |-> FALSE]
                /\ retries' = [http |-> 0, turn |-> 0]
                /\ phase' = "request"
                /\ UNCHANGED <<stored, session, outcome>>
           ELSE FinishRun(final \o said)
  /\ nextId' = nextId + MaxLines + 1
  /\ UNCHANGED <<prov, acc, meant, streamed, partials, replies, faults>>

-----------------------------------------------------------------------------
Init ==
  /\ prov \in Providers
  /\ stored = <<>> /\ session = <<>> /\ history = <<>> /\ final = <<>>
  /\ acc = NewAcc(0)
  /\ meant = [parts |-> <<>>, calls |-> <<>>, open |-> "stopped"]
  /\ streamed = <<>>
  /\ turn = [n |-> 1, msgs |-> <<>>, tools |-> FALSE]
  /\ retries = [http |-> 0, turn |-> 0]
  /\ partials = {} /\ outcome = "none" /\ replies = 0 /\ faults = 0
  /\ nextId = 1 /\ phase = "idle"

Next ==
  \/ Prepare
  \/ Post
  \/ PostFails
  \/ StreamBreaks
  \/ SayText
  \/ EndText
  \/ EndMessageItem
  \/ StartCall
  \/ SayArguments
  \/ EndCall
  \/ Stop
  \/ EmptyTurn
  \/ ExecuteTurn

Spec == Init /\ [][Next]_vars

-----------------------------------------------------------------------------
(* Properties                                                              *)

\* The state keeps its shape: phases are the ones of the run, counters stay in
\* their bounds and conversations hold messages with blocks.
TypeOK ==
  /\ phase \in {"idle", "request", "stream", "turn_over"}
  /\ outcome \in {"none", "finish", "error"}
  /\ turn.n \in 1..MaxTurns /\ turn.tools \in BOOLEAN
  /\ retries.http \in 0..MaxRetries /\ retries.turn \in 0..MaxRetries
  /\ \A conv \in {stored, session, history, final} :
       \A i \in DOMAIN conv : conv[i].blocks # <<>> /\ conv[i].id < nextId

\* While a model is talking, the pump's copy of every message it has sent in this
\* turn is the latest snapshot, whatever mixture of deltas and whole messages
\* carried it (emit_provider_message against persist_core_event).
MirrorInStep ==
  phase \in {"stream", "turn_over"} =>
    \A i \in DOMAIN turn.msgs :
      LET m == turn.msgs[i] IN Has(session, m.id) /\ session[Position(session, m.id)] = m

\* A stream that reached its end mark has become messages that say what the model
\* said: the same text and as many tool calls, with their arguments.  Two cases
\* of the code are left out: the arguments an Anthropic stream carries in deltas
\* are dropped, and a Responses message of several text parts repeats them.
StreamUnderstood ==
  phase = "turn_over" =>
    LET text == Joined([i \in DOMAIN turn.msgs |-> TextContent(turn.msgs[i])])
        blocks == Joined([i \in DOMAIN turn.msgs |-> turn.msgs[i].blocks])
        requests == Only(blocks, {b \in ToSet(blocks) : b.kind = "request"})
    IN /\ prov # "responses" \/ Len(meant.parts) <= 1 => text = Joined(meant.parts)
       /\ Len(requests) = Len(meant.calls)
       /\ prov # "anthropic" => \A i \in DOMAIN requests : requests[i].full

\* After a run that finished, the stored history after the user's message holds
\* every final message of the run, and nothing else but what failed attempts had
\* streamed and the placeholder of a run without an answer.
FinishedRunStored ==
  phase = "idle" /\ outcome = "finish" =>
    LET user == Position(stored, UserId(stored))
        new == {stored[i] : i \in (user + 1)..Len(stored)}
    IN /\ ToSet(final) \subseteq new
       /\ \A m \in new \ ToSet(final) :
            \/ m.id \in partials
            \/ m.blocks[1].kind = "no_reply" /\ ~\E n \in new : n # m

\* No two messages of a saved history have the same id: messages has the primary
\* key (session_id, message_id), so a duplicate would make the whole save fail,
\* and the pump ignores the error.
SaveSucceeds ==
  phase = "idle" => \A i, j \in DOMAIN stored : stored[i].id = stored[j].id => i = j

\* Whatever history compaction, failed runs and missing tool results leave, a
\* Responses request has for each call its output later and for each output its
\* call before it.
ResponsesPaired ==
  phase = "request" /\ prov = "responses" =>
    LET items == ResponsesItems(history)
    IN \A x \in DOMAIN items :
         \E y \in DOMAIN items : items[y].call = items[x].call /\ items[y].kind # items[x].kind
            /\ (items[x].kind = "request" => Before(x, y))
            /\ (items[x].kind = "response" => Before(y, x))

=============================================================================
