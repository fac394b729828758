-------------------------- MODULE MCProviderStream --------------------------
(***************************************************************************)
(* Small instances of ProviderStreamProperties.  The scenes: one reply of  *)
(* text and two tool calls, sent in every order that keeps the order       *)
(* within each call; replies that end badly, with prompts that are too     *)
(* long; a server that never stops; and the two providers that do not      *)
(* stream, with and without the retries of a benchmark.                    *)
(***************************************************************************)
EXTENDS ProviderStreamProperties

Read == [id |-> "r", name |-> <<"vi", "ew">>, args |-> <<"{", "}">>]
Grep == [id |-> "g", name |-> <<"grep">>, args |-> <<"{", "}">>]
Torn == [Grep EXCEPT !.args = <<"{">>]
Bare == [Grep EXCEPT !.args = <<>>]

ReadChunks == <<Fragment(2, "r", "vi", ""), Fragment(2, "", "ew", "{"), Fragment(2, "", "", "}")>>
GrepChunks == <<Fragment(1, "g", "grep", "{"), Fragment(1, "", "", "}")>>
TextChunks == <<TextChunk("a")>>

(* All the ways to send three sequences at once.                           *)
Shuffles == {w \in [1..6 -> {"read", "grep", "text"}] :
               /\ Cardinality({i \in 1..6 : w[i] = "read"}) = 3
               /\ Cardinality({i \in 1..6 : w[i] = "grep"}) = 2}
Before(w, i) == Cardinality({j \in 1..i : w[j] = w[i]})
Sent(w) == [i \in 1..6 |-> CASE w[i] = "read" -> ReadChunks[Before(w, i)]
                             [] w[i] = "grep" -> GrepChunks[Before(w, i)]
                             [] OTHER         -> TextChunks[Before(w, i)]]

Reply(chunks, text_, calls_, reason) ==
  [chunks |-> chunks, text |-> text_, calls |-> calls_, reason |-> reason]
Shuffled == {Reply(Sent(w) \o <<FinishChunk("tool_calls"), UsageChunk>>,
                   <<"a">>, <<Grep, Read>>, "tool_calls") : w \in Shuffles}

Answered == Reply(<<TextChunk("a"), FinishChunk("stop")>>, <<"a">>, <<>>, "stop")
Rejected(e) == Reply(<<TextChunk("b"), ErrorChunk(e)>>, <<"b">>, <<>>, "unknown")
Truncated == Reply(<<TextChunk("a"), Fragment(1, "g", "grep", "{"), FinishChunk("length")>>,
                   <<"a">>, <<Torn>>, "length")
Broken == Reply(<<Fragment(1, "g", "grep", "{")>> \o ReadChunks \o <<FinishChunk("tool_calls")>>,
                <<>>, <<Torn, Read>>, "tool_calls")
Argless == Reply(<<Fragment(1, "g", "grep", ""), Fragment(NoIndex, "x", "", "{"), FinishChunk("tool_calls")>>,
                 <<>>, <<Bare>>, "tool_calls")
Mislabelled == Reply(GrepChunks \o <<FinishChunk("stop")>>, <<>>, <<Grep>>, "stop")

Long     == [words |-> "context length", status |-> 400]
Lost     == [words |-> "connection", status |-> 0]
Busy     == [words |-> "api", status |-> 503]
Forbidden == [words |-> "rate limit", status |-> 401]

Scene(provider, replies, errors, faults, retries, cancel, endless) ==
  [provider |-> provider, replies |-> replies, errors |-> errors, faults |-> faults,
   retries |-> retries, cancel |-> cancel, endless |-> endless]

SomeScenes ==
  << Scene("streaming", Shuffled, {Lost}, {"cut", "fail"}, 0, FALSE, FALSE),
    Scene("streaming", {Answered, Rejected(Long), Rejected(Busy), Truncated, Broken, Argless, Mislabelled},
          {Long, Lost}, {"cut", "fail"}, 0, TRUE, FALSE),
    Scene("streaming", {Reply(<<TextChunk("a")>>, <<"a">>, <<>>, "unknown")}, {Long}, {"fail"}, 0, TRUE, TRUE),
    Scene("openai", {Answered, Truncated, Broken, Argless, Mislabelled}, {Long, Busy, Lost, Forbidden}, {}, 2, TRUE, FALSE),
    Scene("openai", {Answered}, {Long, Busy}, {}, 0, TRUE, FALSE),
    Scene("anthropic", {Answered, Argless, Mislabelled}, {Long, Busy}, {}, 2, TRUE, FALSE) >>
=============================================================================
