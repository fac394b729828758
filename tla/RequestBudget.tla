--------------------------- MODULE RequestBudget ---------------------------
(***************************************************************************)
(* The cost ledger of the benchmark runs (eval/costs.py): clients that     *)
(* share one RequestBoundaryBudget reserve the worst case of a request     *)
(* before it is sent and commit the usage the provider reports.            *)
(*                                                                         *)
(* Amounts are integers: prices are whole nano-dollars per token, so the   *)
(* rounding to nine digits in _token_cost and commit changes nothing.      *)
(***************************************************************************)
EXTENDS Integers, FiniteSets

CONSTANTS
  Clients,         \* BudgetedProvider instances sharing the ledger
  Limit,           \* limit_usd
  InputPrice, OutputPrice,
  Estimates,       \* estimated input tokens a request may have
  OutputLimits,    \* request.max_tokens; 0 stands for none
  DefaultOutput,   \* default_max_output_tokens
  Overrun,         \* input tokens by which an estimate may be too low
  LargestCost,     \* no request costs more
  Streams,         \* the requests are streams their reader may abandon
  MaxSent          \* bound on requests sent

ASSUME BudgetAssumption ==
  /\ IsFiniteSet(Clients) /\ Clients # {}
  /\ Limit \in Nat \ {0} /\ DefaultOutput \in Nat \ {0}
  /\ InputPrice \in Nat /\ OutputPrice \in Nat
  /\ Estimates \subseteq Nat /\ OutputLimits \subseteq Nat
  /\ Overrun \in Nat /\ LargestCost \in Nat /\ Streams \in BOOLEAN /\ MaxSent \in Nat

VARIABLES
  committed,    \* committed_cost_usd
  unknown,      \* usage_unknown
  stop,         \* stop_reason
  count,        \* _request_count
  sent,         \* client -> its request in flight, or None
  settled,      \* requests whose cost was committed or declared unknown
  abandoned,    \* history: streams their reader left
  overlapped    \* history: two requests have been in flight together

past == <<abandoned, overlapped>>
budgetVars == <<committed, unknown, stop, count, sent, settled, past>>

None == [estimated |-> -1, limit |-> -1]
Request == [estimated : Estimates, limit : OutputLimits]
Cost(input, output) == input * InputPrice + output * OutputPrice

(* ceil(estimated * 1.20); max_tokens or the default.                      *)
WithMargin(n) == (6 * n + 4) \div 5
Output(q) == IF q.limit = 0 THEN DefaultOutput ELSE q.limit

(* Mutant: the reservation leaves the output out.                          *)
ReservationInputOnly(q) == Cost(WithMargin(q.estimated), 0)

Reservation(q) == Cost(WithMargin(q.estimated), Output(q))

ASSUME LargestCostAssumption == \A q \in Request : Reservation(q) + Overrun * InputPrice <= LargestCost

BudgetInit ==
  /\ committed = 0 /\ unknown = FALSE /\ stop = "none" /\ count = 0
  /\ sent = [c \in Clients |-> None] /\ settled = 0 /\ abandoned = 0 /\ overlapped = FALSE

(* reserve(): an earlier stop, unknown usage or the limit refuse the       *)
(* request before it is sent.                                              *)
Reason(q) ==
  IF unknown THEN "usage_unknown"
  ELSE IF committed + Reservation(q) > Limit THEN "reservation_exceeds_limit"
  ELSE stop

InFlight(c) == sent[c] # None

Send(c) ==
  /\ sent[c] = None /\ count < MaxSent
  /\ \E q \in Request : Reason(q) = "none" /\ sent' = [sent EXCEPT ![c] = q]
  /\ count' = count + 1
  /\ overlapped' = (overlapped \/ \E d \in Clients : InFlight(d))
  /\ UNCHANGED <<committed, unknown, stop, settled, abandoned>>

Refuse(c) ==
  /\ sent[c] = None
  /\ \E q \in Request : Reason(q) # "none" /\ stop' = Reason(q)
  /\ UNCHANGED <<committed, unknown, count, sent, settled, past>>

Return(c) == sent' = [sent EXCEPT ![c] = None] /\ settled' = settled + 1

(* The provider keeps to the output limit; the estimate of the input may   *)
(* be too low by more than the margin.                                     *)
Commit(c) ==
  /\ InFlight(c) /\ Return(c)
  /\ \E input \in 0..(WithMargin(sent[c].estimated) + Overrun), output \in 0..Output(sent[c]) :
       committed' = committed + Cost(input, output)
  /\ UNCHANGED <<unknown, stop, count, past>>

(* Mutant: missing usage is taken for no usage.                            *)
ForgetUsage(c) ==
  /\ InFlight(c)
  /\ sent' = [sent EXCEPT ![c] = None] /\ UNCHANGED settled
  /\ UNCHANGED <<committed, unknown, stop, count, past>>

(* mark_usage_unknown: usage missing in the response or the stream, or an  *)
(* exception after the request was sent.                                   *)
LoseUsage(c) ==
  /\ InFlight(c) /\ Return(c)
  /\ unknown' = TRUE
  /\ stop' \in {"usage_missing", "stream_usage_missing", "provider_error_after_send"}
  /\ UNCHANGED <<committed, count, past>>

(* The reader leaves the stream (a cancelled turn): the generator is       *)
(* closed by GeneratorExit, which "except Exception" does not catch.       *)
Abandon(c) ==
  /\ Streams /\ InFlight(c)
  /\ sent' = [sent EXCEPT ![c] = None] /\ abandoned' = abandoned + 1
  /\ UNCHANGED <<committed, unknown, stop, count, settled, overlapped>>

BudgetNext == \E c \in Clients : Send(c) \/ Refuse(c) \/ Commit(c) \/ LoseUsage(c) \/ Abandon(c)

BudgetSpec == BudgetInit /\ [][BudgetNext]_budgetVars
-----------------------------------------------------------------------------
Stops == {"none", "usage_unknown", "reservation_exceeds_limit", "usage_missing",
          "stream_usage_missing", "provider_error_after_send"}

(* Every variable has its type.                                            *)
BudgetTypes ==
  /\ committed \in Nat /\ unknown \in BOOLEAN /\ stop \in Stops
  /\ count \in Nat /\ settled \in Nat /\ abandoned \in Nat /\ overlapped \in BOOLEAN
  /\ sent \in [Clients -> Request \cup {None}]

(* As long as no two requests were in flight together, the limit is        *)
(* exceeded by no more than the tokens the last estimate was short of      *)
(* (step 5 of docs/DEEPSEEK_BENCHMARK_AUDIT.md).                           *)
WithinLimit == ~overlapped => committed <= Limit + Overrun * InputPrice

(* A reservation is compared with what is committed, not with what the     *)
(* other clients have reserved (costs.py:108-133).  However their requests *)
(* overlap, the ledger commits no more than the limit, the last estimate's *)
(* shortfall, and one largest request for each other client.               *)
OverspendIsBounded ==
  committed <= Limit + Overrun * InputPrice + (Cardinality(Clients) - 1) * LargestCost

(* Every request a client waits for to the end is accounted for: when none *)
(* is in flight, each was committed or left, or the usage is unknown and   *)
(* nothing more is sent.                                                   *)
SentIsAccounted ==
  (\A c \in Clients : ~InFlight(c)) => unknown \/ settled + abandoned = count
=============================================================================
