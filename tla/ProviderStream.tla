--------------------------- MODULE ProviderStream ---------------------------
(***************************************************************************)
(* One call of a model by the agent loop (providers/openai_compatible.py,  *)
(* providers/anthropic_provider.py, providers/errors.py, agent/loop.py:    *)
(* _stream_once, _complete_once and their recovery; eval/adapter.py: the   *)
(* retries of a benchmark).                                                *)
(*                                                                         *)
(* Streaming: a worker thread takes the chunks off the connection and puts *)
(* them into a queue; the coroutine of the call takes them out, assembles  *)
(* text and tool calls, and hands an event to the loop for each, which     *)
(* shows it unless the turn was cancelled.  The connection may end early,  *)
(* fail, or carry an error.  A prompt that is too long is compacted and    *)
(* asked again once, on a new connection, while the old thread may still   *)
(* be busy.  The calls that do not stream get the reply in one piece.      *)
(***************************************************************************)
EXTENDS Naturals, FiniteSets, SequencesExt

CONSTANTS Scenes,      \* bound: by name, what a behaviour starts from and what may happen
          MaxRequests, \* as many requests as the retries of a scene allow
          MaxQueue,    \* bound: chunks the thread is ahead of the coroutine
          MaxText      \* bound: pieces of text told apart in an answer

(* A reply: the chunks it is sent in when it streams, and, in one piece,   *)
(* its text, its tool calls with the pieces of name and arguments, and the *)
(* reason it ends with.                                                    *)
ASSUME ScenesAssumption ==
  /\ MaxQueue \in Nat \ {0} /\ MaxText \in Nat /\ MaxRequests \in Nat
  /\ \A n \in DOMAIN Scenes : LET s == Scenes[n] IN
                       /\ s.provider \in {"streaming", "openai", "anthropic"}
                       /\ s.faults \subseteq {"cut", "fail"}
                       /\ s.retries \in Nat /\ 2 * (s.retries + 1) <= MaxRequests
                       /\ {s.cancel, s.endless} \subseteq BOOLEAN
                       /\ s.provider = "streaming" => s.retries = 0

(* The chunks: a piece of text, a fragment of the tool call at an index,   *)
(* the reason the reply ends, the usage, or an error.  A fragment carries  *)
(* an id, a piece of the name or of the arguments, or several.             *)
TextChunk(t)   == [kind |-> "text", text |-> t]
Fragment(index, id, name, args) ==
  [kind |-> "tool", index |-> index, id |-> id, name |-> name, args |-> args]
FinishChunk(r) == [kind |-> "finish", reason |-> r]
UsageChunk     == [kind |-> "usage"]
ErrorChunk(e)  == [kind |-> "error", error |-> e]
NoIndex        == 0

(* What the thread adds to the queue besides chunks.                       *)
Ended      == [kind |-> "ended"]
Failure(e) == [kind |-> "failure", error |-> e]

VARIABLES
  scene,      \* the name of the scene of this behaviour, never changed
  pc,         \* where the call is
  requests,   \* the requests sent: reply, connection, thread and queue of each
  attempt,    \* the retries of the benchmark provider so far
  compacted,  \* the prompt was compacted
  raised,     \* kind of the ProviderError on its way up
  text,       \* content_parts
  calls,      \* tool_accumulators
  finish,     \* finish_reason so far
  events,     \* last_stream_events
  shown,      \* text the stream_event_handler was given
  cancelled,  \* the turn's cancellation token
  outcome, answer

vars == <<scene, pc, requests, attempt, compacted, raised, text, calls, finish,
          events, shown, cancelled, outcome, answer>>
parts == <<text, calls, finish>>
tries == <<attempt, compacted>>
ends  == <<outcome, answer>>

The       == Scenes[scene]
Streaming == The.provider = "streaming"
Newest    == Len(requests)
NoAnswer  == [text |-> <<>>, tools |-> <<>>]
(* What an earlier call of the same turn left in last_stream_events.       *)
Start     == IF Streaming THEN <<[kind |-> "message_completed", text |-> <<>>, tools |-> <<>>]>>
             ELSE <<>>
Event(kind) == [kind |-> kind]

Init ==
  /\ scene \in DOMAIN Scenes
  /\ pc = "send" /\ requests = <<>> /\ attempt = 0 /\ compacted = FALSE /\ raised = "none"
  /\ text = <<>> /\ calls = <<>> /\ finish = "unknown"
  /\ events = Start /\ shown = <<>>
  /\ cancelled = FALSE /\ outcome = "open" /\ answer = NoAnswer
-----------------------------------------------------------------------------
(* Errors.  An error is what its message speaks of and its status code, 0  *)
(* without.  classify_provider_error asks for them in this order.          *)
Classify(e) ==
  CASE e.words = "context length" -> "prompt_too_long"
    [] e.status \in {401, 403}    -> "auth_error"
    [] e.status = 429             -> "rate_limit"
    [] e.status = 408             -> "timeout"
    [] e.status \in 500..599      -> "server_error"
    [] e.status \in 400..499      -> "api_error"
    [] e.words = "rate limit"     -> "rate_limit"
    [] e.words = "api key"        -> "auth_error"
    [] e.words = "timeout"        -> "timeout"
    [] e.words = "connection"     -> "network_error"
    [] e.words = "abort"          -> "user_abort"
    [] e.words = "server error"   -> "server_error"
    [] e.words = "api"            -> "api_error"
    [] OTHER                      -> "unknown"
Retryable(kind) == kind \in {"timeout", "rate_limit", "network_error", "server_error"}
RequiresCompaction(kind) == kind = "prompt_too_long"

(* AnthropicProvider lets the exceptions of its SDK through, which neither *)
(* the retries nor the recovery of the loop catch.                         *)
Kind(e) == IF The.provider = "anthropic" THEN "not a ProviderError" ELSE Classify(e)
-----------------------------------------------------------------------------
(* Assembling a streamed reply.                                            *)

NoCall == [id |-> "", name |-> <<>>, args |-> <<>>]
Pieces(s, piece) == IF piece = "" THEN s ELSE Append(s, piece)
Joined(call, f) == [id   |-> IF f.id = "" THEN call.id ELSE f.id,
                    name |-> Pieces(call.name, f.name),
                    args |-> Pieces(call.args, f.args)]
Accumulated(acc, f) ==
  LET before == IF f.index \in DOMAIN acc THEN acc[f.index] ELSE NoCall
  IN  [i \in DOMAIN acc \cup {f.index} |-> IF i = f.index THEN Joined(before, f) ELSE acc[i]]

(* The arguments parse to an object when the text is there, begin to end.  *)
IsObject(args) == args = <<"{", "}">>
Whole(call)    == call.id # "" /\ call.name # <<>> /\ call.args # <<>> /\ IsObject(call.args)
Named(list)    == [k \in DOMAIN list |-> [id |-> list[k].id, name |-> list[k].name]]
Nth(S, k)      == CHOOSE i \in S : Cardinality({j \in S : j <= i}) = k
ByIndex(acc)   == [k \in 1..Cardinality(DOMAIN acc) |-> acc[Nth(DOMAIN acc, k)]]

(* One call that is not whole costs them all, and a reply that does not    *)
(* say that it ends with tool calls has none.                              *)
CompleteToolCalls(acc) ==
  IF \A i \in DOMAIN acc : Whole(acc[i]) THEN Named(ByIndex(acc)) ELSE <<>>
(* A plausible bug: the calls are run whatever the stream ended with.       *)
AssembledWhateverTheEnd == CompleteToolCalls(calls)

Assembled == IF finish = "tool_calls" THEN CompleteToolCalls(calls) ELSE <<>>

(* A reply in one piece.  No arguments are an empty object; arguments that *)
(* are no object, or a reply cut by its length, cost all calls.            *)
Parsed(reply) ==
  IF \/ The.provider = "anthropic"
     \/ /\ reply.reason # "length"
        /\ \A k \in DOMAIN reply.calls : reply.calls[k].args = <<>> \/ IsObject(reply.calls[k].args)
  THEN Named(reply.calls) ELSE <<>>
-----------------------------------------------------------------------------
(* Sending.  The loop looks at the token before it asks, not between the   *)
(* retries below it.                                                       *)

Connection(reply) == [reply |-> reply, left |-> reply.chunks, queue |-> <<>>,
                      worker |-> "none", stop |-> FALSE, closed |-> FALSE]
NoReply == [chunks |-> <<>>, text |-> <<>>, calls |-> <<>>, reason |-> "unknown"]

Sends == pc = "send" /\ outcome = "open" /\ (attempt > 0 \/ ~cancelled)

Cancelled == outcome' = "cancelled" /\ pc' = "done" /\ UNCHANGED answer

CancelledBefore ==
  /\ pc = "send" /\ outcome = "open" /\ attempt = 0 /\ cancelled
  /\ Cancelled
  /\ UNCHANGED <<scene, requests, tries, raised, parts, events, shown, cancelled>>

Refused ==
  /\ Sends
  /\ \E e \in The.errors : raised' = Kind(e)
  /\ requests' = Append(requests, Connection(NoReply))
  /\ pc' = "raise"
  /\ UNCHANGED <<scene, tries, parts, events, shown, cancelled, ends>>

Accepted ==
  /\ Sends
  /\ \E r \in The.replies : requests' = Append(requests, Connection(r))
  /\ text' = <<>> /\ calls' = <<>> /\ finish' = "unknown"
  /\ pc' = IF Streaming THEN "started" ELSE "reply"
  /\ UNCHANGED <<scene, tries, raised, events, shown, cancelled, ends>>

(* A reply in one piece; nobody asks whether the turn was cancelled.       *)
Complete ==
  /\ pc = "reply"
  /\ answer' = [text |-> requests[Newest].reply.text, tools |-> Parsed(requests[Newest].reply)]
  /\ outcome' = "answer" /\ pc' = "done"
  /\ UNCHANGED <<scene, requests, tries, raised, parts, events, shown, cancelled>>
-----------------------------------------------------------------------------
(* The coroutine of a streamed call.  Every event it yields comes back to  *)
(* _stream_once, which looks at the token first: a cancelled turn leaves   *)
(* the generator where it is, for asyncio to close it later.               *)

Shows(event) == events' = Append(events, event)
Leaves == /\ cancelled /\ Cancelled
          /\ UNCHANGED <<scene, requests, tries, raised, parts, events, shown, cancelled>>

(* message_started comes before the thread and before the try: a turn      *)
(* cancelled meanwhile leaves the connection to the garbage collector.     *)
Started ==
  /\ pc = "started"
  /\ \/ Leaves
     \/ /\ ~cancelled
        /\ Shows(Event("message_started"))
        /\ requests' = [requests EXCEPT ![Newest].worker = "next"]
        /\ pc' = "get"
        /\ UNCHANGED <<scene, tries, raised, parts, shown, cancelled, ends>>

(* A plausible bug: without the finally only the consumer stops.           *)
ClosedOnlyHere(i) == [requests EXCEPT ![i].queue = <<>>]

Closed(i) == [requests EXCEPT ![i].stop = TRUE, ![i].closed = TRUE]
Queue == requests[Newest].queue
Got(kind) == pc = "get" /\ Queue # <<>> /\ Head(Queue).kind = kind
Taken == requests' = [requests EXCEPT ![Newest].queue = Tail(Queue)]

GetEnd ==
  /\ Got("ended")
  /\ requests' = Closed(Newest) /\ pc' = "finish"
  /\ UNCHANGED <<scene, tries, raised, parts, events, shown, cancelled, ends>>

GetFailure ==
  /\ Got("failure")
  /\ requests' = Closed(Newest)
  /\ raised' = Kind(Head(Queue).error) /\ pc' = "raise"
  /\ UNCHANGED <<scene, tries, parts, events, shown, cancelled, ends>>

GetError ==
  /\ Got("error")
  /\ \/ Leaves
     \/ /\ ~cancelled
        /\ Shows(Event("error"))
        /\ requests' = Closed(Newest)
        /\ raised' = Kind(Head(Queue).error) /\ pc' = "raise"
        /\ UNCHANGED <<scene, tries, parts, shown, cancelled, ends>>

GetText ==
  /\ Got("text")
  /\ \/ Leaves
     \/ /\ ~cancelled
        /\ Len(text) < MaxText =>
             /\ text' = Append(text, Head(Queue).text)
             /\ Shows([kind |-> "text_delta", text |-> Head(Queue).text])
             /\ shown' = Append(shown, Head(Queue).text)
        /\ Len(text) = MaxText => UNCHANGED <<text, events, shown>>
        /\ Taken
        /\ UNCHANGED <<scene, pc, tries, raised, calls, finish, cancelled, ends>>

GetFragment ==
  /\ Got("tool") /\ Head(Queue).index # NoIndex
  /\ \/ Leaves
     \/ /\ ~cancelled
        /\ calls' = Accumulated(calls, Head(Queue))
        /\ events' = events \o (IF Head(Queue).index \in DOMAIN calls THEN <<>>
                                ELSE <<Event("tool_call_started")>>) \o <<Event("tool_call_delta")>>
        /\ Taken
        /\ UNCHANGED <<scene, pc, tries, raised, text, finish, shown, cancelled, ends>>

(* These yield no event, and so do not look at the token.                  *)
GetQuietly ==
  /\ \/ Got("tool") /\ Head(Queue).index = NoIndex /\ UNCHANGED finish
     \/ Got("finish") /\ finish' = Head(Queue).reason
     \/ Got("usage") /\ UNCHANGED finish
  /\ Taken
  /\ UNCHANGED <<scene, pc, tries, raised, text, calls, events, shown, cancelled, ends>>

Finish ==
  /\ pc = "finish"
  /\ \/ Leaves
     \/ /\ ~cancelled
        /\ answer' = [text |-> text, tools |-> Assembled]
        /\ events' = events
             \o (IF calls # <<>> /\ Assembled = <<>> THEN <<Event("error")>> ELSE <<>>)
             \o [k \in DOMAIN Assembled |-> [kind |-> "tool_call_completed", call |-> Assembled[k]]]
             \o <<[kind |-> "message_completed", text |-> text, tools |-> Assembled]>>
        /\ outcome' = "answer" /\ pc' = "done"
        /\ UNCHANGED <<scene, requests, tries, raised, parts, shown, cancelled>>

(* asyncio closes the generator that was left: its finally runs, once the  *)
(* generator is inside the try.                                            *)
CloseAbandoned ==
  /\ outcome = "cancelled" /\ requests # <<>>
  /\ requests[Newest].worker # "none" /\ ~requests[Newest].stop
  /\ requests' = Closed(Newest)
  /\ UNCHANGED <<scene, pc, tries, raised, parts, events, shown, cancelled, ends>>
-----------------------------------------------------------------------------
(* The thread of a request: `for chunk in stream`, then close and Ended.   *)

Thread(i, state) == requests[i].worker = state

WorkerTakes(i) ==
  /\ Thread(i, "next") /\ requests[i].left # <<>>
  /\ requests[i].stop \/ Len(requests[i].queue) < MaxQueue
  /\ requests' = IF requests[i].stop THEN [requests EXCEPT ![i].worker = "end"]
                 ELSE [requests EXCEPT
                         ![i].queue = Append(@, Head(requests[i].left)),
                         ![i].left  = IF The.endless THEN @ ELSE Tail(@)]

(* The server has sent all, or the connection was cut without a sign.      *)
WorkerEnds(i) ==
  /\ Thread(i, "next")
  /\ requests[i].left = <<>> \/ "cut" \in The.faults \/ requests[i].closed
  /\ requests' = [requests EXCEPT ![i].worker = "end"]

WorkerFails(i) ==
  /\ Thread(i, "next") /\ ("fail" \in The.faults \/ requests[i].closed)
  /\ \E e \in The.errors :
       requests' = [requests EXCEPT ![i].worker = "end", ![i].queue = Append(@, Failure(e))]

WorkerGone(i) ==
  /\ Thread(i, "end")
  /\ requests' = [requests EXCEPT ![i].worker = "gone", ![i].closed = TRUE,
                                  ![i].queue = Append(@, Ended)]

Worker(i) ==
  /\ i \in DOMAIN requests
  /\ WorkerTakes(i) \/ WorkerEnds(i) \/ WorkerFails(i) \/ WorkerGone(i)
  /\ UNCHANGED <<scene, pc, tries, raised, parts, events, shown, cancelled, ends>>
-----------------------------------------------------------------------------
(* Errors on their way up: the retries of the benchmark, then              *)
(* _stream_once_attempt, which takes back its events, then the recovery.   *)

Retries  == ~Streaming /\ Retryable(raised) /\ attempt < The.retries
(* A plausible bug: every long prompt is compacted, also the second time.  *)
RecoversAgain == RequiresCompaction(raised)

Recovers == RequiresCompaction(raised) /\ ~compacted

Retry ==
  /\ pc = "raise" /\ Retries
  /\ attempt' = attempt + 1 /\ pc' = "send"
  /\ UNCHANGED <<scene, requests, compacted, raised, parts, events, shown, cancelled, ends>>

(* A plausible bug: the events of the failed attempt stay.                 *)
NothingTakenBack == events

TakenBack == SubSeq(events, 1, Len(Start))

GiveUp ==
  /\ pc = "raise" /\ ~Retries /\ ~Recovers
  /\ events' = TakenBack
  /\ outcome' = "error" /\ pc' = "done"
  /\ UNCHANGED <<scene, requests, tries, raised, parts, shown, cancelled, answer>>

Compact ==
  /\ pc = "raise" /\ ~Retries /\ Recovers
  /\ events' = TakenBack
  /\ \/ compacted' = TRUE /\ attempt' = 0 /\ pc' = "send" /\ UNCHANGED outcome
     \/ outcome' = "error" /\ pc' = "done" /\ UNCHANGED tries
  /\ UNCHANGED <<scene, requests, raised, parts, shown, cancelled, answer>>
-----------------------------------------------------------------------------
Cancel ==
  /\ The.cancel /\ ~cancelled /\ outcome = "open" /\ cancelled' = TRUE
  /\ UNCHANGED <<scene, pc, requests, tries, raised, parts, events, shown, ends>>

Call == \/ CancelledBefore \/ Refused \/ Accepted \/ Complete
        \/ Started \/ GetEnd \/ GetFailure \/ GetError \/ GetText \/ GetFragment \/ GetQuietly
        \/ Finish \/ Retry \/ GiveUp \/ Compact

Next == Call \/ CloseAbandoned \/ (\E i \in 1..MaxRequests : Worker(i)) \/ Cancel

Spec == Init /\ [][Next]_vars

(* The coroutine goes on, asyncio closes what was left, and every thread   *)
(* is scheduled: the server sends, ends or fails.  Nobody has to cancel.   *)
FairSpec == /\ Spec /\ WF_vars(Call) /\ WF_vars(CloseAbandoned)
            /\ \A i \in 1..MaxRequests : WF_vars(Worker(i))
=============================================================================
