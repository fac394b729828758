---------------------- MODULE ProviderStreamProperties ----------------------
(***************************************************************************)
(* What the agent loop and the UI rely on when they call a model: the      *)
(* answer is the answer to the request sent last, whole calls or none; the *)
(* events tell exactly that answer; nothing of a call outlives it; and the *)
(* recoveries below one another do not multiply without bound.             *)
(***************************************************************************)
EXTENDS ProviderStream

(* What the model meant, whatever way its reply comes.                     *)
Meant(r) ==
  IF r.reason # "length" /\ \A k \in DOMAIN r.calls : r.calls[k].args \in {<<>>, <<"{", "}">>}
  THEN [k \in DOMAIN r.calls |-> [id |-> r.calls[k].id, name |-> r.calls[k].name]]
  ELSE <<>>
Said(r) == r.text
AllReplies == {NoReply} \cup UNION {Scenes[n].replies : n \in DOMAIN Scenes}

(* What the first n chunks of a reply add up to.                           *)
Added(p, c) ==
  [text   |-> IF c.kind = "text" THEN Append(p.text, c.text) ELSE p.text,
   calls  |-> IF c.kind = "tool" /\ c.index # NoIndex THEN Accumulated(p.calls, c) ELSE p.calls,
   finish |-> IF c.kind = "finish" THEN c.reason ELSE p.finish]
AddsUp(chunks) ==
  LET upTo[n \in 0..Len(chunks)] == IF n = 0 THEN [text |-> <<>>, calls |-> <<>>, finish |-> "unknown"]
                                    ELSE Added(upTo[n - 1], chunks[n])
  IN  upTo

(* The chunks of a reply add up to it, and the reason it ends with comes   *)
(* when all the rest was sent.                                             *)
ComesInChunks(r) ==
  LET sum == AddsUp(r.chunks)[Len(r.chunks)]
  IN  /\ \A m \in DOMAIN r.chunks :
           /\ r.chunks[m].kind \in {"text", "tool", "finish", "usage", "error"}
           /\ r.chunks[m].kind = "tool" => r.chunks[m].index \in Nat
           /\ r.chunks[m].kind = "finish" =>
                \A k \in DOMAIN r.chunks : k > m => r.chunks[k].kind \in {"usage", "error"}
      /\ r.text = sum.text /\ r.calls = ByIndex(sum.calls) /\ r.reason = sum.finish

(* A server that sends for ever does not end.  The SDK of Anthropic hands  *)
(* out calls it has parsed, and AnthropicProvider keeps them also in a     *)
(* reply cut by its length: such replies are left out.                     *)
ASSUME RepliesAssumption ==
  \A n \in DOMAIN Scenes : LET s == Scenes[n] IN
    \A r \in s.replies :
      /\ r.chunks \in Seq(Range(r.chunks))
      /\ s.provider = "streaming" =>
           /\ ComesInChunks(r)
           /\ IF s.endless THEN r.chunks # <<>> /\ "cut" \notin s.faults ELSE Len(r.text) <= MaxText
      /\ s.provider = "anthropic" => Meant(r) = Named(r.calls)

(* The retries of a benchmark lie below the one recovery of the loop.      *)
MostRequests == 2 * (The.retries + 1)

Protocol == INSTANCE ProviderCall
  WITH allowed <- MostRequests, Replies <- AllReplies, Text <- Said, Calls <- Meant,
       asked <- [i \in DOMAIN requests |-> requests[i].reply]

(* A call ends at most once, and with nothing but the reply to the request *)
(* sent last: all its tool calls after all its text, or a beginning of the *)
(* text and no tool call, however the chunks interleave, wherever the      *)
(* connection breaks, and whatever an earlier, failed attempt left in the  *)
(* accumulators, the queue or the thread.  The recoveries below one        *)
(* another do not multiply without bound.                                  *)
ImplementsProviderCall == Protocol!Spec

(* The events of one kind, in their order.                                 *)
Chosen(s, e, kind) == IF e.kind = kind THEN Append(s, e) ELSE s
Only(s, kind) ==
  LET upTo[n \in 0..Len(s)] == IF n = 0 THEN <<>> ELSE Chosen(upTo[n - 1], s[n], kind)
  IN  upTo[Len(s)]

OfCall == SubSeq(events, Len(Start) + 1, Len(events))

(* What is left in last_stream_events when a streamed call ends is that    *)
(* call, told once: the pieces of its text, its tool calls, its end; after *)
(* an error nothing at all, and never less than the turn had before.       *)
EventsAreTheAnswer ==
  LET pieces    == Only(OfCall, "text_delta")
      completed == Only(OfCall, "tool_call_completed")
  IN  Streaming =>
        /\ IsPrefix(Start, events)
        /\ outcome = "error" => OfCall = <<>>
        /\ outcome = "answer" =>
             /\ [k \in DOMAIN pieces |-> pieces[k].text] = answer.text
             /\ [k \in DOMAIN completed |-> completed[k].call] = answer.tools
             /\ Len(Only(OfCall, "message_started")) = 1 /\ Len(Only(OfCall, "message_completed")) = 1

(* A call ends unless the server sends for ever and nobody cancels, and    *)
(* then every thread it started ends too and its connection is closed,     *)
(* also those of attempts that failed.                                     *)
Over == /\ outcome # "open"
        /\ \A i \in DOMAIN requests : requests[i].worker \in {"none", "gone"}
CallEnds == (cancelled \/ ~The.endless) ~> Over
=============================================================================
