--------------------------- MODULE ProviderProofs ---------------------------
(***************************************************************************)
(* Calls of a model and what they cost.  RequestBudget, for every set of   *)
(* clients, prices, limit and estimates: types, the limit while no two     *)
(* requests are in flight together and how far it is exceeded when they    *)
(* are, and that every request sent is accounted for.  ProviderStream, for *)
(* every reply, order of chunks, fault and bound: the events of a streamed *)
(* call tell exactly its answer, and every call is a ProviderCall.         *)
(***************************************************************************)
EXTENDS RequestBudget, ProviderStreamProperties, SequenceTheorems, FiniteSetTheorems, WellFoundedInduction, TLAPS

(* A product is monotone in its first factor.                              *)
LEMMA ProductMonotone ==
  ASSUME NEW m \in Nat, NEW n \in Nat, NEW p \in Nat, m <= n
  PROVE  m * p <= n * p
<1>1. PICK d \in Nat : n = m + d
  <2>1. n - m \in Nat /\ n = m + (n - m)  OBVIOUS
  <2> QED BY <2>1
<1>2. n * p = m * p + d * p  BY <1>1
<1>3. d * p \in Nat /\ m * p \in Nat  OBVIOUS
<1> QED BY <1>2, <1>3

(* What a request may cost is a natural number.                            *)
LEMMA CostType ==
  ASSUME NEW input \in Nat, NEW output \in Nat
  PROVE  Cost(input, output) \in Nat
<1>1. input * InputPrice \in Nat  BY BudgetAssumption
<1>2. output * OutputPrice \in Nat  BY BudgetAssumption
<1> QED BY <1>1, <1>2 DEF Cost

LEMMA RequestType ==
  ASSUME NEW q \in Request
  PROVE  WithMargin(q.estimated) \in Nat /\ Output(q) \in Nat /\ Reservation(q) \in Nat
<1>1. q.estimated \in Nat /\ q.limit \in Nat  BY BudgetAssumption DEF Request
<1>2. WithMargin(q.estimated) \in Nat  BY <1>1 DEF WithMargin
<1>3. Output(q) \in Nat  BY <1>1, BudgetAssumption DEF Output
<1> QED BY <1>2, <1>3, CostType DEF Reservation

(* A request in flight is one: None is none.                               *)
LEMMA InFlightIsRequest ==
  ASSUME BudgetTypes, NEW c \in Clients, InFlight(c)
  PROVE  sent[c] \in Request
BY DEF BudgetTypes, InFlight

(* What was used exceeds what was reserved by the overrun at most.         *)
LEMMA UseWithinReservation ==
  ASSUME NEW q \in Request,
         NEW input \in 0..(WithMargin(q.estimated) + Overrun), NEW output \in 0..Output(q)
  PROVE  Cost(input, output) <= Reservation(q) + Overrun * InputPrice
<1> DEFINE margin == WithMargin(q.estimated)
           most   == Output(q)
<1>1. margin \in Nat /\ most \in Nat  BY RequestType
<1>2. Overrun \in Nat /\ InputPrice \in Nat /\ OutputPrice \in Nat  BY BudgetAssumption
<1>3. input \in Nat /\ output \in Nat /\ input <= margin + Overrun /\ output <= most
  BY <1>1, <1>2
<1>4. input * InputPrice <= (margin + Overrun) * InputPrice
  BY <1>1, <1>2, <1>3, ProductMonotone
<1>5. output * OutputPrice <= most * OutputPrice
  BY <1>1, <1>2, <1>3, ProductMonotone
<1>6. (margin + Overrun) * InputPrice = margin * InputPrice + Overrun * InputPrice
  BY <1>1, <1>2
<1>7. /\ input * InputPrice \in Nat /\ output * OutputPrice \in Nat
      /\ margin * InputPrice \in Nat /\ most * OutputPrice \in Nat /\ Overrun * InputPrice \in Nat
  BY <1>1, <1>2, <1>3
<1>8. input * InputPrice + output * OutputPrice
        <= margin * InputPrice + most * OutputPrice + Overrun * InputPrice
  BY <1>4, <1>5, <1>6, <1>7
<1> QED BY <1>8 DEF Cost, Reservation
-----------------------------------------------------------------------------
(* Every variable keeps its type.                                          *)
THEOREM BudgetTypesHold == BudgetSpec => []BudgetTypes
<1>1. BudgetInit => BudgetTypes
  <2> SUFFICES ASSUME BudgetInit  PROVE BudgetTypes
    OBVIOUS
  <2>1. sent \in [Clients -> Request \cup {None}]
    BY DEF BudgetInit
  <2>2. committed \in Nat /\ count \in Nat /\ settled \in Nat /\ abandoned \in Nat /\ overlapped \in BOOLEAN
    BY DEF BudgetInit
  <2>3. unknown \in BOOLEAN /\ stop \in Stops
    BY DEF BudgetInit, Stops
  <2> QED BY <2>1, <2>2, <2>3 DEF BudgetTypes
<1>2. BudgetTypes /\ [BudgetNext]_budgetVars => BudgetTypes'
  <2> SUFFICES ASSUME BudgetTypes, [BudgetNext]_budgetVars  PROVE BudgetTypes'
    OBVIOUS
  <2>1. CASE UNCHANGED budgetVars
    BY <2>1 DEF budgetVars, past, BudgetTypes
  <2>2. ASSUME NEW c \in Clients, Send(c)  PROVE BudgetTypes'
    BY <2>2 DEF BudgetTypes, Send
  <2>3. ASSUME NEW c \in Clients, Refuse(c)  PROVE BudgetTypes'
    BY <2>3 DEF BudgetTypes, Refuse, Reason, Stops, past
  <2>4. ASSUME NEW c \in Clients, Commit(c)  PROVE BudgetTypes'
    <3>1. sent[c] \in Request
      BY <2>4, InFlightIsRequest DEF Commit
    <3>2. PICK input \in 0..(WithMargin(sent[c].estimated) + Overrun), output \in 0..Output(sent[c]) :
            committed' = committed + Cost(input, output)
      BY <2>4 DEF Commit
    <3>3. input \in Nat /\ output \in Nat
      BY <3>1, <3>2, RequestType, BudgetAssumption
    <3>4. committed' \in Nat
      <4>1. Cost(input, output) \in Nat
        BY <3>3, CostType
      <4> QED BY <3>2, <4>1 DEF BudgetTypes
    <3> QED BY <2>4, <3>4 DEF BudgetTypes, Commit, Return, past
  <2>5. ASSUME NEW c \in Clients, LoseUsage(c)  PROVE BudgetTypes'
    BY <2>5 DEF BudgetTypes, LoseUsage, Return, Stops, past
  <2>6. ASSUME NEW c \in Clients, Abandon(c)  PROVE BudgetTypes'
    BY <2>6 DEF BudgetTypes, Abandon
  <2> QED BY <2>1, <2>2, <2>3, <2>4, <2>5, <2>6 DEF BudgetNext
<1> QED BY <1>1, <1>2, PTL DEF BudgetSpec
-----------------------------------------------------------------------------
(* A request that is alone in flight was checked against the very amount  *)
(* that is still committed.                                                *)
Room ==
  ~overlapped =>
    \A c \in Clients : InFlight(c) =>
      committed + Reservation(sent[c]) <= Limit /\ \A d \in Clients : InFlight(d) => c = d

LEMMA RoomStep == ASSUME BudgetTypes, Room, WithinLimit, [BudgetNext]_budgetVars  PROVE Room' /\ WithinLimit'
<1>1. CASE UNCHANGED budgetVars
  BY <1>1 DEF budgetVars, past, Room, WithinLimit, InFlight, Reservation, Output
<1>2. ASSUME NEW c \in Clients, Send(c)  PROVE Room' /\ WithinLimit'
  <2>1. PICK q \in Request : Reason(q) = "none" /\ sent' = [sent EXCEPT ![c] = q]
    BY <1>2 DEF Send
  <2>2. Reservation(q) \in Nat /\ Limit \in Nat /\ committed \in Nat
    BY <2>1, RequestType, BudgetAssumption DEF BudgetTypes
  <2>3. committed + Reservation(q) <= Limit
    BY <2>1, <2>2 DEF Reason
  <2>4. sent'[c] = q /\ \A d \in Clients \ {c} : sent'[d] = sent[d]
    BY <2>1 DEF BudgetTypes
  <2>5. ~overlapped' => \A d \in Clients : ~InFlight(d)
    BY <1>2 DEF Send
  <2>6. Room'
    BY <1>2, <2>3, <2>4, <2>5 DEF Room, Send, InFlight, Reservation, Output
  <2>7. overlapped => overlapped'
    BY <1>2 DEF Send, BudgetTypes
  <2> QED BY <1>2, <2>6, <2>7 DEF WithinLimit, Send
<1>3. ASSUME NEW c \in Clients, Refuse(c)  PROVE Room' /\ WithinLimit'
  BY <1>3 DEF Refuse, past, Room, WithinLimit, InFlight, Reservation, Output
<1>4. ASSUME NEW c \in Clients, Commit(c)  PROVE Room' /\ WithinLimit'
  <2>1. sent[c] \in Request
    BY <1>4, InFlightIsRequest DEF Commit
  <2>2. PICK input \in 0..(WithMargin(sent[c].estimated) + Overrun), output \in 0..Output(sent[c]) :
          committed' = committed + Cost(input, output)
    BY <1>4 DEF Commit
  <2>3. Cost(input, output) <= Reservation(sent[c]) + Overrun * InputPrice
    BY <2>1, <2>2, UseWithinReservation
  <2>4. ~overlapped =>
          committed + Reservation(sent[c]) <= Limit /\ \A d \in Clients : InFlight(d) => c = d
    BY <1>4 DEF Room, Commit
  <2>5. /\ committed \in Nat /\ Reservation(sent[c]) \in Nat /\ Limit \in Nat
        /\ Overrun * InputPrice \in Nat
    BY <2>1, RequestType, BudgetAssumption DEF BudgetTypes
  <2>6. input \in Nat /\ output \in Nat
    BY <2>1, <2>2, RequestType, BudgetAssumption
  <2>7. Cost(input, output) \in Nat
    BY <2>6, CostType
  <2>8. overlapped' = overlapped
    BY <1>4 DEF Commit, past
  <2>9. WithinLimit'
    BY <2>2, <2>3, <2>4, <2>5, <2>7, <2>8 DEF WithinLimit
  <2>10. ~overlapped => \A d \in Clients : sent'[d] = None
    BY <1>4, <2>4 DEF Commit, Return, InFlight, BudgetTypes
  <2>11. Room'
    BY <2>8, <2>10 DEF Room, InFlight
  <2> QED BY <2>9, <2>11
<1>5. ASSUME NEW c \in Clients, LoseUsage(c) \/ Abandon(c)  PROVE Room' /\ WithinLimit'
  <2>1. UNCHANGED <<committed, overlapped>> /\ sent' = [sent EXCEPT ![c] = None]
    BY <1>5 DEF LoseUsage, Abandon, Return, past
  <2>2. \A d \in Clients : sent'[d] # None => sent'[d] = sent[d]
    BY <2>1 DEF BudgetTypes
  <2>3. Room'
    BY <2>1, <2>2 DEF Room, InFlight, Reservation, Output
  <2> QED BY <2>1, <2>3 DEF WithinLimit
<1> QED BY <1>1, <1>2, <1>3, <1>4, <1>5 DEF BudgetNext

(* While no two requests are in flight together, the ledger is exceeded by *)
(* no more than the last estimate was short of, whoever sends them.        *)
THEOREM LimitHolds == BudgetSpec => []WithinLimit
<1>1. BudgetInit => Room /\ WithinLimit
  <2>1. Overrun * InputPrice \in Nat /\ Limit \in Nat
    BY BudgetAssumption
  <2> QED BY <2>1 DEF BudgetInit, Room, WithinLimit, InFlight
<1>2. BudgetTypes /\ (Room /\ WithinLimit) /\ [BudgetNext]_budgetVars => (Room /\ WithinLimit)'
  BY RoomStep
<1> QED BY <1>1, <1>2, BudgetTypesHold, PTL DEF BudgetSpec
-----------------------------------------------------------------------------
(* Every request sent is settled, left by its reader or in flight.         *)
Flying == {c \in Clients : InFlight(c)}
Accounted == IsFiniteSet(Flying) /\ count = settled + abandoned + Cardinality(Flying)

LEMMA ReturnLands ==
  ASSUME BudgetTypes, Accounted, NEW c \in Clients, InFlight(c), sent' = [sent EXCEPT ![c] = None]
  PROVE  IsFiniteSet(Flying') /\ Cardinality(Flying) = Cardinality(Flying') + 1
         /\ Cardinality(Flying') \in Nat
<1>1. Flying' = Flying \ {c} /\ c \in Flying  BY DEF BudgetTypes, Flying, InFlight
<1>2. IsFiniteSet(Flying')  BY <1>1, FS_RemoveElement DEF Accounted
<1>3. Cardinality(Flying') = Cardinality(Flying) - 1
  BY <1>1, FS_RemoveElement DEF Accounted
<1>4. Cardinality(Flying) \in Nat /\ Cardinality(Flying') \in Nat
  BY <1>2, FS_CardinalityType DEF Accounted
<1> QED BY <1>2, <1>3, <1>4

LEMMA AccountedStep == BudgetTypes /\ Accounted /\ [BudgetNext]_budgetVars => Accounted'
<1> SUFFICES ASSUME BudgetTypes, Accounted, [BudgetNext]_budgetVars PROVE Accounted'  OBVIOUS
<1>1. Cardinality(Flying) \in Nat  BY FS_CardinalityType DEF Accounted
<1>2. CASE UNCHANGED <<sent, count, settled, abandoned>>
  BY <1>2 DEF Accounted, Flying, InFlight
<1>3. ASSUME NEW c \in Clients, Send(c) PROVE Accounted'
  <2>1. PICK q \in Request : sent' = [sent EXCEPT ![c] = q]  BY <1>3 DEF Send
  <2>2. q # None  BY BudgetAssumption DEF Request, None
  <2>3. Flying' = Flying \cup {c} /\ c \notin Flying
    BY <1>3, <2>1, <2>2 DEF Send, BudgetTypes, Flying, InFlight
  <2>4. IsFiniteSet(Flying') /\ Cardinality(Flying') = Cardinality(Flying) + 1
    BY <2>3, FS_AddElement DEF Accounted
  <2> QED BY <1>1, <1>3, <2>4 DEF Accounted, Send, BudgetTypes
<1>4. ASSUME NEW c \in Clients, Commit(c) \/ LoseUsage(c) \/ Abandon(c) PROVE Accounted'
  <2>1. /\ InFlight(c) /\ sent' = [sent EXCEPT ![c] = None] /\ count' = count
        /\ \/ settled' = settled + 1 /\ abandoned' = abandoned
           \/ settled' = settled /\ abandoned' = abandoned + 1
    BY <1>4 DEF Commit, LoseUsage, Abandon, Return, past
  <2>2. /\ IsFiniteSet(Flying') /\ Cardinality(Flying) = Cardinality(Flying') + 1
        /\ Cardinality(Flying') \in Nat
    BY <2>1, ReturnLands
  <2>3. count = settled + abandoned + Cardinality(Flying)  BY DEF Accounted
  <2>4. settled \in Nat /\ abandoned \in Nat  BY DEF BudgetTypes
  <2>5. count' = settled' + abandoned' + Cardinality(Flying')  BY <1>1, <2>1, <2>2, <2>3, <2>4
  <2> QED BY <2>2, <2>5 DEF Accounted
<1>5. ASSUME NEW c \in Clients, Refuse(c) PROVE Accounted'
  BY <1>2, <1>5 DEF Refuse, past
<1>6. CASE UNCHANGED budgetVars  BY <1>2, <1>6 DEF budgetVars, past
<1> QED BY <1>3, <1>4, <1>5, <1>6 DEF BudgetNext

(* No request is forgotten: once none is in flight, what was sent was      *)
(* committed, declared unknown or left by its reader, whatever the number  *)
(* of clients and however their requests overlapped.                       *)
THEOREM AllAreAccountedFor == BudgetSpec => []SentIsAccounted
<1>1. BudgetInit => Accounted
  <2> SUFFICES ASSUME BudgetInit PROVE Accounted  OBVIOUS
  <2>1. Flying = {}  BY DEF BudgetInit, Flying, InFlight
  <2> QED BY <2>1, FS_EmptySet DEF BudgetInit, Accounted
<1>2. ASSUME BudgetTypes, Accounted PROVE SentIsAccounted
  <2> SUFFICES ASSUME \A c \in Clients : ~InFlight(c) PROVE settled + abandoned = count
    BY DEF SentIsAccounted
  <2>1. Flying = {}  BY DEF Flying
  <2> QED BY <1>2, <2>1, FS_EmptySet DEF Accounted, BudgetTypes
<1> QED BY <1>1, <1>2, AccountedStep, BudgetTypesHold, PTL DEF BudgetSpec
-----------------------------------------------------------------------------
(* What the requests in flight may still add to what is committed.  The    *)
(* one sent last left room for itself, and the others cost the largest     *)
(* amount at most; once it is back, all of the rest were others.           *)
Shortfall == Overrun * InputPrice
Most      == Limit + Shortfall + (Cardinality(Clients) - 1) * LargestCost
Others(n) == n * LargestCost
AllOthers == committed + Others(Cardinality(Flying)) <= Most
LastLeft(c) == committed + Reservation(sent[c]) + Shortfall + Others(Cardinality(Flying) - 1) <= Most
Ahead == AllOthers \/ \E c \in Flying : LastLeft(c)

LEMMA MostType ==
  /\ Shortfall \in Nat /\ Most \in Nat /\ LargestCost \in Nat /\ Limit \in Nat
  /\ Cardinality(Clients) \in Nat /\ Cardinality(Clients) >= 1
  /\ Most = Limit + Shortfall + Others(Cardinality(Clients) - 1)
<1> DEFINE n == Cardinality(Clients) - 1
<1>1. Overrun \in Nat /\ InputPrice \in Nat /\ LargestCost \in Nat /\ Limit \in Nat /\ IsFiniteSet(Clients) /\ Clients # {}
  BY BudgetAssumption
<1>2. Shortfall \in Nat
  BY <1>1 DEF Shortfall
<1>3. Cardinality(Clients) \in Nat /\ Cardinality(Clients) # 0
  BY <1>1, FS_CardinalityType, FS_EmptySet
<1>4. Cardinality(Clients) >= 1 /\ n \in Nat
  BY <1>3
<1> HIDE DEF n
<1>5. Others(n) \in Nat
  BY <1>1, <1>4 DEF Others
<1>6. Most = Limit + Shortfall + Others(n)
  BY DEF Most, Others, n
<1>7. Most \in Nat
  BY <1>1, <1>2, <1>5, <1>6
<1> QED BY <1>1, <1>2, <1>3, <1>4, <1>6, <1>7 DEF n

LEMMA OthersMore ==
  ASSUME NEW n \in Nat
  PROVE  Others(n) \in Nat /\ Others(n + 1) = Others(n) + LargestCost
BY MostType DEF Others

(* No request costs more than the largest.                                 *)
LEMMA OneOther ==
  ASSUME NEW q \in Request
  PROVE  Reservation(q) + Shortfall <= LargestCost
BY LargestCostAssumption DEF Shortfall

(* A request that comes back leaves as much room as it took.               *)
LEMMA AheadReturn ==
  ASSUME BudgetTypes, Accounted, Ahead, NEW c \in Clients, InFlight(c), sent' = [sent EXCEPT ![c] = None],
         NEW cost \in Nat, cost <= Reservation(sent[c]) + Shortfall, committed' = committed + cost
  PROVE  Ahead'
<1> DEFINE k == Cardinality(Flying')
<1>1. k \in Nat /\ Cardinality(Flying) = k + 1
  BY ReturnLands
<1>2. sent[c] \in Request
  BY InFlightIsRequest
<1>3. /\ Reservation(sent[c]) \in Nat /\ Shortfall \in Nat /\ LargestCost \in Nat /\ Most \in Nat /\ committed \in Nat
      /\ cost <= LargestCost
  <2>1. Reservation(sent[c]) + Shortfall <= LargestCost /\ Reservation(sent[c]) \in Nat
    BY <1>2, OneOther, RequestType
  <2> QED BY <2>1, MostType DEF BudgetTypes
<1> HIDE DEF k
<1>4. Others(k) \in Nat /\ Others(k + 1) = Others(k) + LargestCost /\ (k + 1) - 1 = k
  BY <1>1, OthersMore
<1>5. Most' = Most
  BY DEF Most, Shortfall
<1>6. ASSUME AllOthers  PROVE AllOthers'
  <2>1. committed + Others(k + 1) <= Most
    BY <1>1, <1>6 DEF AllOthers
  <2>2. committed' + Others(k) <= Most
    BY <1>3, <1>4, <2>1
  <2> QED BY <1>5, <2>2 DEF AllOthers, Others, k
<1>7. ASSUME LastLeft(c)  PROVE AllOthers'
  <2>1. committed + Reservation(sent[c]) + Shortfall + Others(k) <= Most
    BY <1>1, <1>4, <1>7 DEF LastLeft
  <2>2. committed' + Others(k) <= Most
    BY <1>3, <1>4, <2>1
  <2> QED BY <1>5, <2>2 DEF AllOthers, Others, k
<1>8. ASSUME NEW d \in Flying, d # c, LastLeft(d)  PROVE Ahead'
  <2>1. sent[d] \in Request /\ sent'[d] = sent[d] /\ d \in Flying'
    BY <1>8, InFlightIsRequest DEF BudgetTypes, Flying, InFlight
  <2>2. k # 0
    <3>1. IsFiniteSet(Flying') /\ Flying' # {}
      BY <2>1, ReturnLands
    <3> QED BY <3>1, FS_EmptySet DEF k
  <2>3. Others(k - 1) \in Nat /\ Others(k) = Others(k - 1) + LargestCost
    <3>1. k - 1 \in Nat /\ (k - 1) + 1 = k
      BY <1>1, <2>2
    <3> QED BY <3>1, OthersMore
  <2>4. Reservation(sent[d]) \in Nat
    BY <2>1, RequestType
  <2>5. committed + Reservation(sent[d]) + Shortfall + Others(k) <= Most
    BY <1>1, <1>4, <1>8 DEF LastLeft
  <2>6. committed' + Reservation(sent[d]) + Shortfall + Others(k - 1) <= Most
    BY <1>3, <1>4, <2>3, <2>4, <2>5
  <2>7. LastLeft(d)'
    BY <1>5, <2>1, <2>6 DEF LastLeft, Others, Shortfall, Reservation, Output, k
  <2> QED BY <2>1, <2>7 DEF Ahead
<1> QED BY <1>6, <1>7, <1>8 DEF Ahead

(* A request that is sent leaves room for itself, and the others are fewer *)
(* than the clients.                                                       *)
LEMMA AheadSend ==
  ASSUME BudgetTypes, Accounted, NEW c \in Clients, Send(c)
  PROVE  Ahead'
<1> DEFINE k == Cardinality(Flying)
           n == Cardinality(Clients) - 1
<1>1. PICK q \in Request : Reason(q) = "none" /\ sent' = [sent EXCEPT ![c] = q]
  BY DEF Send
<1>2. committed + Reservation(q) <= Limit /\ Reservation(q) \in Nat /\ committed \in Nat /\ Limit \in Nat
  BY <1>1, RequestType, BudgetAssumption DEF Reason, BudgetTypes
<1>3. q # None
  BY BudgetAssumption DEF Request, None
<1>4. Flying' = Flying \cup {c} /\ c \notin Flying /\ c \in Flying' /\ sent'[c] = q
  BY <1>1, <1>3 DEF Send, BudgetTypes, Flying, InFlight
<1>5. IsFiniteSet(Flying) /\ k \in Nat
  BY FS_CardinalityType DEF Accounted
<1>6. Cardinality(Flying') = k + 1
  BY <1>4, <1>5, FS_AddElement
<1>7. k <= n /\ n \in Nat
  <2>1. Flying' \subseteq Clients
    BY DEF Flying
  <2>2. Cardinality(Flying') <= Cardinality(Clients)
    BY <2>1, BudgetAssumption, FS_Subset
  <2> QED BY <1>5, <1>6, <2>2, MostType
<1>8. Others(k) <= Others(n) /\ Others(k) \in Nat /\ Others(n) \in Nat
  BY <1>5, <1>7, MostType, ProductMonotone, OthersMore DEF Others
<1>9. Most = Limit + Shortfall + Others(n) /\ Shortfall \in Nat
  BY MostType
<1>10. Most' = Most /\ committed' = committed
  BY DEF Most, Shortfall, Send
<1> HIDE DEF k, n
<1>11. committed + Reservation(q) + Shortfall + Others(k) <= Most
  BY <1>2, <1>8, <1>9
<1>12. (k + 1) - 1 = k
  BY <1>5
<1>13. LastLeft(c)'
  BY <1>4, <1>6, <1>10, <1>11, <1>12 DEF LastLeft, Others, Shortfall, Reservation, Output
<1> QED BY <1>4, <1>13 DEF Ahead

LEMMA AheadStep == BudgetTypes /\ Accounted /\ Ahead /\ [BudgetNext]_budgetVars => Ahead'
<1> SUFFICES ASSUME BudgetTypes, Accounted, Ahead, [BudgetNext]_budgetVars  PROVE Ahead'
  OBVIOUS
<1>1. CASE UNCHANGED <<committed, sent>>
  BY <1>1 DEF Ahead, AllOthers, LastLeft, Flying, InFlight, Most, Others, Shortfall, Reservation, Output
<1>2. ASSUME NEW c \in Clients, Send(c)  PROVE Ahead'
  BY <1>2, AheadSend
<1>3. ASSUME NEW c \in Clients, Commit(c)  PROVE Ahead'
  <2>1. sent[c] \in Request
    BY <1>3, InFlightIsRequest DEF Commit
  <2>2. PICK input \in 0..(WithMargin(sent[c].estimated) + Overrun), output \in 0..Output(sent[c]) :
          committed' = committed + Cost(input, output)
    BY <1>3 DEF Commit
  <2>3. Cost(input, output) <= Reservation(sent[c]) + Shortfall
    BY <2>1, <2>2, UseWithinReservation DEF Shortfall
  <2>4. input \in Nat /\ output \in Nat
    BY <2>1, <2>2, RequestType, BudgetAssumption
  <2>5. Cost(input, output) \in Nat
    BY <2>4, CostType
  <2>6. InFlight(c) /\ sent' = [sent EXCEPT ![c] = None]
    BY <1>3 DEF Commit, Return
  <2> QED BY <2>2, <2>3, <2>5, <2>6, AheadReturn
<1>4. ASSUME NEW c \in Clients, LoseUsage(c) \/ Abandon(c)  PROVE Ahead'
  <2>1. InFlight(c) /\ sent' = [sent EXCEPT ![c] = None] /\ committed' = committed + 0
    BY <1>4 DEF LoseUsage, Abandon, Return, BudgetTypes
  <2>2. 0 <= Reservation(sent[c]) + Shortfall
    BY <2>1, InFlightIsRequest, RequestType, MostType
  <2> QED BY <2>1, <2>2, AheadReturn
<1>5. ASSUME NEW c \in Clients, Refuse(c)  PROVE Ahead'
  BY <1>1, <1>5 DEF Refuse
<1>6. CASE UNCHANGED budgetVars
  BY <1>1, <1>6 DEF budgetVars
<1> QED BY <1>2, <1>3, <1>4, <1>5, <1>6 DEF BudgetNext

(* However the requests of the clients overlap, the ledger exceeds its     *)
(* limit by no more than one underestimate and one largest request for     *)
(* each client but one, whatever the number of clients.                    *)
THEOREM OverspendHolds == BudgetSpec => []OverspendIsBounded
<1>1. BudgetInit => Accounted /\ Ahead
  <2> SUFFICES ASSUME BudgetInit  PROVE Accounted /\ Ahead
    OBVIOUS
  <2>1. Flying = {} /\ committed = 0
    BY DEF BudgetInit, Flying, InFlight
  <2>2. IsFiniteSet(Flying) /\ Cardinality(Flying) = 0
    BY <2>1, FS_EmptySet
  <2>3. Others(0) = 0
    BY MostType DEF Others
  <2>4. AllOthers
    BY <2>1, <2>2, <2>3, MostType DEF AllOthers
  <2> QED BY <2>2, <2>4 DEF BudgetInit, Accounted, Ahead
<1>2. ASSUME BudgetTypes, Accounted, Ahead  PROVE OverspendIsBounded
  <2>1. Cardinality(Flying) \in Nat /\ committed \in Nat /\ Most \in Nat
    BY <1>2, FS_CardinalityType, MostType DEF Accounted, BudgetTypes
  <2>2. CASE AllOthers
    <3>1. Others(Cardinality(Flying)) \in Nat
      BY <2>1, OthersMore
    <3>2. committed <= Most
      BY <2>1, <2>2, <3>1 DEF AllOthers
    <3> QED BY <3>2 DEF OverspendIsBounded, Most, Shortfall
  <2>3. ASSUME NEW c \in Flying, LastLeft(c)  PROVE OverspendIsBounded
    <3> DEFINE n == Cardinality(Flying) - 1
    <3>1. n \in Nat
      <4>1. Cardinality(Flying) # 0
        BY <1>2, <2>3, FS_EmptySet DEF Accounted
      <4> QED BY <2>1, <4>1
    <3>2. Others(n) \in Nat
      BY <3>1, OthersMore
    <3>3. Reservation(sent[c]) \in Nat /\ Shortfall \in Nat
      BY <1>2, <2>3, InFlightIsRequest, RequestType, MostType DEF Flying
    <3>4. committed + Reservation(sent[c]) + Shortfall + Others(n) <= Most
      BY <2>3 DEF LastLeft
    <3> HIDE DEF n
    <3>5. committed <= Most
      BY <2>1, <3>2, <3>3, <3>4
    <3> QED BY <3>5 DEF OverspendIsBounded, Most, Shortfall
  <2> QED BY <1>2, <2>2, <2>3 DEF Ahead
<1> QED BY <1>1, <1>2, AccountedStep, AheadStep, BudgetTypesHold, PTL DEF BudgetSpec
-----------------------------------------------------------------------------
(* The events of a streamed call (ProviderStream).                         *)

(* A set of numbers that is not empty has a least one: the strict subsets  *)
(* of finite sets are well founded, and so are the intervals 1..n.         *)
LEMMA LeastNumber ==
  ASSUME NEW T \in SUBSET Nat, T # {}
  PROVE  \E n \in T : \A m \in T : n <= m
<1> DEFINE below == {1..n : n \in T}
<1>1. below \subseteq FiniteSubsetsOf(Nat) /\ below # {}
  <2>1. \A n \in T : 1..n \subseteq Nat /\ IsFiniteSet(1..n)
    BY FS_Interval
  <2> QED BY <2>1 DEF FiniteSubsetsOf
<1>2. IsWellFoundedOn(StrictSubsetOrdering(Nat), FiniteSubsetsOf(Nat))
  BY FS_StrictSubsetOrderingWellFounded
<1> HIDE DEF below
<1>3. \E x \in below : \A y \in below : ~ (<<y, x>> \in StrictSubsetOrdering(Nat))
  BY <1>1, <1>2, WFMin, Zenon
<1> USE DEF below
<1>4. PICK n \in T : \A m \in T : ~ (<<1..m, 1..n>> \in StrictSubsetOrdering(Nat))
  BY <1>3
<1>5. ASSUME NEW m \in T, m < n  PROVE FALSE
  <2>1. 1..m \subseteq 1..n /\ n \in 1..n /\ n \notin 1..m
    BY <1>5
  <2>2. 1..m \subseteq Nat /\ 1..n \subseteq Nat /\ 1..m # 1..n
    BY <2>1
  <2>3. <<1..m, 1..n>> \in StrictSubsetOrdering(Nat)
    BY <2>1, <2>2 DEF StrictSubsetOrdering
  <2> QED BY <2>3, <1>4
<1> QED BY <1>5

(* Induction on numbers up to n, about a set instead of a predicate.       *)
LEMMA UpTo ==
  ASSUME NEW n \in Nat, NEW T,
         0 \in T, \A k \in 1..n : k - 1 \in T => k \in T
  PROVE  0..n \subseteq T
<1> DEFINE missing == (0..n) \ T
<1>1. SUFFICES ASSUME missing # {}  PROVE FALSE
  OBVIOUS
<1>2. missing \in SUBSET Nat
  OBVIOUS
<1>3. PICK k \in missing : \A m \in missing : k <= m
  <2> HIDE DEF missing
  <2> QED BY <1>1, <1>2, LeastNumber
<1>4. k \in 0..n /\ k \notin T
  BY <1>3
<1>5. k \in 1..n /\ k - 1 \in 0..n
  BY <1>4
<1>6. k - 1 \notin missing
  <2> HIDE DEF missing
  <2> QED BY <1>3, <1>5
<1>7. k - 1 \in T
  BY <1>5, <1>6
<1> QED BY <1>4, <1>5, <1>7
-----------------------------------------------------------------------------
(* Sequences of whatever elements.                                         *)

IsSequence(s) == s \in Seq({s[i] : i \in DOMAIN s})

LEMMA SequenceShape ==
  ASSUME NEW s, IsSequence(s)
  PROVE  Len(s) \in Nat /\ DOMAIN s = 1..Len(s) /\ s = [i \in 1..Len(s) |-> s[i]]
<1> DEFINE S == {s[i] : i \in DOMAIN s}
<1>1. s \in Seq(S)
  BY DEF IsSequence
<1> HIDE DEF S
<1>2. Len(s) \in Nat /\ s \in [1..Len(s) -> S] /\ DOMAIN s = 1..Len(s)
  BY <1>1, LenProperties
<1> QED BY <1>2

(* A function on 1..n is a sequence, in every set its elements are in.     *)
LEMMA SequenceIn ==
  ASSUME NEW n \in Nat, NEW s, s = [i \in 1..n |-> s[i]], NEW S, \A i \in 1..n : s[i] \in S
  PROVE  s \in Seq(S) /\ Len(s) = n
<1>1. s \in [1..n -> S]
  OBVIOUS
<1>2. s \in Seq(S)
  BY <1>1, SeqDef
<1>3. Len(s) \in Nat /\ DOMAIN s = 1..Len(s) /\ DOMAIN s = 1..n
  BY <1>1, <1>2, LenProperties
<1> QED BY <1>2, <1>3

LEMMA IsOne ==
  ASSUME NEW n \in Nat, NEW s, s = [i \in 1..n |-> s[i]]
  PROVE  IsSequence(s) /\ Len(s) = n
<1> DEFINE S == {s[i] : i \in DOMAIN s}
<1>1. \A i \in 1..n : s[i] \in S
  <2>1. DOMAIN s = 1..n
    OBVIOUS
  <2> QED BY <2>1
<1> HIDE DEF S
<1>2. s \in Seq(S) /\ Len(s) = n
  BY <1>1, SequenceIn
<1> QED BY <1>2 DEF IsSequence, S

LEMMA NoneIsSequence == IsSequence(<<>>) /\ Len(<<>>) = 0
<1>1. <<>> = [i \in 1..0 |-> <<>>[i]]
  OBVIOUS
<1> QED BY <1>1, IsOne

LEMMA SingleIsSequence ==
  ASSUME NEW e
  PROVE  IsSequence(<<e>>) /\ Len(<<e>>) = 1 /\ <<e>>[1] = e
<1>1. <<e>> = [i \in 1..1 |-> <<e>>[i]] /\ <<e>>[1] = e
  OBVIOUS
<1> QED BY <1>1, IsOne

(* One sequence after another.                                             *)
LEMMA Joint ==
  ASSUME NEW s, NEW t, IsSequence(s), IsSequence(t)
  PROVE  /\ IsSequence(s \o t)
         /\ Len(s \o t) = Len(s) + Len(t)
         /\ s \o t = [i \in 1..(Len(s) + Len(t)) |-> IF i <= Len(s) THEN s[i] ELSE t[i - Len(s)]]
<1> DEFINE S == {s[i] : i \in 1..Len(s)} \cup {t[i] : i \in 1..Len(t)}
           n == Len(s) + Len(t)
<1>1. s \in Seq(S) /\ t \in Seq(S)
  <2>1. \A i \in 1..Len(s) : s[i] \in S
    OBVIOUS
  <2>2. \A i \in 1..Len(t) : t[i] \in S
    OBVIOUS
  <2> HIDE DEF S
  <2> QED BY <2>1, <2>2, SequenceShape, SequenceIn
<1> HIDE DEF S
<1>2. /\ s \o t \in Seq(S)
      /\ Len(s \o t) = n
      /\ \A i \in 1..n : (s \o t)[i] = IF i <= Len(s) THEN s[i] ELSE t[i - Len(s)]
  BY <1>1, ConcatProperties
<1>3. Len(s \o t) \in Nat /\ s \o t \in [1..n -> S]
  BY <1>2, LenProperties
<1> DEFINE st == s \o t
<1>4. st = [i \in 1..n |-> IF i <= Len(s) THEN s[i] ELSE t[i - Len(s)]]
  BY <1>2, <1>3
<1>5. n \in Nat /\ st = [i \in 1..n |-> st[i]]
  BY <1>2, <1>3
<1>6. IsSequence(st)
  <2> HIDE DEF st
  <2> QED BY <1>5, IsOne
<1> QED BY <1>2, <1>4, <1>6

LEMMA JointOfThree ==
  ASSUME NEW s, NEW t, NEW u, IsSequence(s), IsSequence(t), IsSequence(u)
  PROVE  (s \o t) \o u = s \o (t \o u)
<1> DEFINE st == s \o t
           tu == t \o u
           l  == Len(s)
           m  == Len(t)
           n  == Len(u)
<1>1. l \in Nat /\ m \in Nat /\ n \in Nat
  BY SequenceShape
<1>2. IsSequence(st) /\ Len(st) = l + m /\ st = [i \in 1..(l + m) |-> IF i <= l THEN s[i] ELSE t[i - l]]
  BY Joint
<1>3. IsSequence(tu) /\ Len(tu) = m + n /\ tu = [i \in 1..(m + n) |-> IF i <= m THEN t[i] ELSE u[i - m]]
  BY Joint
<1> HIDE DEF st, tu
<1>4. st \o u = [i \in 1..((l + m) + n) |-> IF i <= l + m THEN st[i] ELSE u[i - (l + m)]]
  BY <1>2, Joint
<1>5. s \o tu = [i \in 1..(l + (m + n)) |-> IF i <= l THEN s[i] ELSE tu[i - l]]
  BY <1>3, Joint
<1> HIDE DEF l, m, n
<1>6. ASSUME NEW i \in 1..((l + m) + n)
      PROVE  (IF i <= l + m THEN st[i] ELSE u[i - (l + m)]) = (IF i <= l THEN s[i] ELSE tu[i - l])
  <2>1. CASE i <= l
    BY <1>1, <1>2, <2>1
  <2>2. CASE i > l /\ i <= l + m
    <3>1. i - l \in 1..(m + n) /\ i - l <= m /\ i \in 1..(l + m) /\ ~ (i <= l)
      BY <1>1, <2>2
    <3>2. st[i] = t[i - l]
      BY <1>2, <3>1
    <3>3. tu[i - l] = t[i - l]
      BY <1>3, <3>1
    <3> QED BY <2>2, <3>1, <3>2, <3>3
  <2>3. CASE i > l + m
    <3>1. i - l \in 1..(m + n) /\ ~ (i - l <= m) /\ ~ (i <= l) /\ ~ (i <= l + m) /\ (i - l) - m = i - (l + m)
      BY <1>1, <2>3
    <3>2. tu[i - l] = u[(i - l) - m]
      BY <1>3, <3>1
    <3> QED BY <3>1, <3>2
  <2> QED BY <1>1, <2>1, <2>2, <2>3
<1>7. (l + m) + n = l + (m + n)
  BY <1>1
<1> QED BY <1>4, <1>5, <1>6, <1>7 DEF st, tu

LEMMA JointWithNone ==
  ASSUME NEW s, IsSequence(s)
  PROVE  s \o <<>> = s /\ <<>> \o s = s
<1>1. s \o <<>> = [i \in 1..(Len(s) + 0) |-> IF i <= Len(s) THEN s[i] ELSE <<>>[i - Len(s)]]
  <2> DEFINE none == <<>>
  <2>1. IsSequence(none) /\ Len(none) = 0
    BY NoneIsSequence
  <2> HIDE DEF none
  <2>2. s \o none = [i \in 1..(Len(s) + 0) |-> IF i <= Len(s) THEN s[i] ELSE none[i - Len(s)]]
    BY <2>1, Joint
  <2> QED BY <2>2 DEF none
<1>2. <<>> \o s = [i \in 1..(0 + Len(s)) |-> IF i <= 0 THEN <<>>[i] ELSE s[i - 0]]
  <2> DEFINE none == <<>>
  <2>1. IsSequence(none) /\ Len(none) = 0
    BY NoneIsSequence
  <2> HIDE DEF none
  <2>2. none \o s = [i \in 1..(0 + Len(s)) |-> IF i <= 0 THEN none[i] ELSE s[i - 0]]
    BY <2>1, Joint
  <2> QED BY <2>2 DEF none
<1>3. Len(s) \in Nat /\ s = [i \in 1..Len(s) |-> s[i]]
  BY SequenceShape
<1>4. s \o <<>> = s
  <2>1. \A i \in 1..(Len(s) + 0) : i \in 1..Len(s) /\ i <= Len(s)
    BY <1>3
  <2>2. 1..(Len(s) + 0) = 1..Len(s)
    BY <1>3
  <2> QED BY <1>1, <1>3, <2>1, <2>2
<1>5. <<>> \o s = s
  <2>1. \A i \in 1..(0 + Len(s)) : i \in 1..Len(s) /\ ~ (i <= 0) /\ i - 0 = i
    BY <1>3
  <2>2. 1..(0 + Len(s)) = 1..Len(s)
    BY <1>3
  <2> QED BY <1>2, <1>3, <2>1, <2>2
<1> QED BY <1>4, <1>5

LEMMA OneMore ==
  ASSUME NEW s, NEW e, IsSequence(s)
  PROVE  Append(s, e) = s \o <<e>>
<1> DEFINE S == {s[i] : i \in 1..Len(s)} \cup {e}
<1>1. s \in Seq(S) /\ e \in S
  <2>1. \A i \in 1..Len(s) : s[i] \in S
    OBVIOUS
  <2>2. e \in S
    OBVIOUS
  <2> HIDE DEF S
  <2> QED BY <2>1, <2>2, SequenceShape, SequenceIn
<1> HIDE DEF S
<1> QED BY <1>1, AppendIsConcat

(* What comes after is cut off, what comes before is skipped.              *)
LEMMA PartsOfJoint ==
  ASSUME NEW s, NEW t, IsSequence(s), IsSequence(t)
  PROVE  /\ SubSeq(s \o t, 1, Len(s)) = s
         /\ SubSeq(s \o t, Len(s) + 1, Len(s \o t)) = t
<1> DEFINE st == s \o t
           l  == Len(s)
           m  == Len(t)
<1>1. l \in Nat /\ m \in Nat /\ s = [i \in 1..l |-> s[i]] /\ t = [i \in 1..m |-> t[i]]
  BY SequenceShape
<1>2. Len(st) = l + m /\ st = [i \in 1..(l + m) |-> IF i <= l THEN s[i] ELSE t[i - l]]
  BY Joint
<1>3. SubSeq(st, 1, l) = [i \in 1..(1 + l - 1) |-> st[i + 1 - 1]]
  <2> HIDE DEF st, l, m
  <2> QED BY <1>1
<1>4. SubSeq(st, l + 1, l + m) = [i \in 1..m |-> st[i + l]]
  <2> HIDE DEF st, l, m
  <2> QED BY <1>1, <1>2
<1> HIDE DEF st, l, m
<1>5. SubSeq(st, 1, l) = s
  BY <1>1, <1>2, <1>3
<1>6. \A i \in 1..m : st[i + l] = t[i]
  <2> TAKE i \in 1..m
  <2>1. i + l \in 1..(l + m) /\ ~ (i + l <= l) /\ (i + l) - l = i
    BY <1>1
  <2> QED BY <1>2, <2>1
<1>7. SubSeq(st, l + 1, l + m) = t
  BY <1>1, <1>4, <1>6
<1> QED BY <1>2, <1>5, <1>7 DEF st, l, m
-----------------------------------------------------------------------------
(* Only, event by event.                                                   *)

Choosing(s, kind, n, g) ==
  g = [k \in 0..n |-> IF k = 0 THEN <<>> ELSE Chosen(g[k - 1], s[k], kind)]

(* The recursion defines a choice from every prefix.                       *)
LEMMA ChoosingExists ==
  ASSUME NEW s, NEW kind, NEW n \in Nat
  PROVE  \E g : Choosing(s, kind, n, g)
<1> DEFINE T == {k \in 0..n : \E g : Choosing(s, kind, k, g)}
<1>1. 0 \in T
  <2>1. Choosing(s, kind, 0, [j \in 0..0 |-> <<>>])
    BY DEF Choosing
  <2> QED BY <2>1
<1>2. ASSUME NEW k \in 1..n, k - 1 \in T  PROVE k \in T
  <2>1. PICK g : Choosing(s, kind, k - 1, g)
    BY <1>2
  <2> DEFINE h == [j \in 0..k |-> IF j = k THEN Chosen(g[k - 1], s[k], kind) ELSE g[j]]
  <2>2. Choosing(s, kind, k, h)
    BY <2>1 DEF Choosing
  <2> QED BY <2>2
<1> HIDE DEF T
<1>3. 0..n \subseteq T
  BY <1>1, <1>2, UpTo
<1>4. n \in T
  BY <1>3
<1> QED BY <1>4 DEF T

(* Only is the last of the choices it is defined by.                       *)
LEMMA OnlyIsChosen ==
  ASSUME NEW s, NEW kind, Len(s) \in Nat
  PROVE  \E g : Choosing(s, kind, Len(s), g) /\ Only(s, kind) = g[Len(s)]
<1>1. PICK g : Choosing(s, kind, Len(s), g)
  BY ChoosingExists
<1> DEFINE upTo == CHOOSE g1 : g1 = [n \in 0..Len(s) |-> IF n = 0 THEN <<>> ELSE Chosen(g1[n - 1], s[n], kind)]
<1>2. Choosing(s, kind, Len(s), upTo)
  BY <1>1 DEF Choosing
<1>3. Only(s, kind) = upTo[Len(s)]
  BY Zenon DEF Only
<1> QED BY <1>2, <1>3

LEMMA OnlyOfNone ==
  ASSUME NEW kind
  PROVE  Only(<<>>, kind) = <<>>
<1>1. Len(<<>>) = 0 /\ Len(<<>>) \in Nat
  BY NoneIsSequence
<1>2. PICK g : Choosing(<<>>, kind, 0, g) /\ Only(<<>>, kind) = g[0]
  BY <1>1, OnlyIsChosen
<1>3. g[0] = <<>>
  BY <1>2 DEF Choosing
<1> QED BY <1>2, <1>3

LEMMA OnlyIsSequence ==
  ASSUME NEW s, NEW kind, IsSequence(s)
  PROVE  IsSequence(Only(s, kind))
<1> DEFINE n == Len(s)
<1>1. n \in Nat
  BY SequenceShape
<1>2. PICK g : Choosing(s, kind, n, g) /\ Only(s, kind) = g[n]
  BY <1>1, OnlyIsChosen
<1> HIDE DEF n
<1> DEFINE T == {k \in 0..n : IsSequence(g[k])}
<1>3. 0 \in T
  BY <1>1, <1>2, NoneIsSequence DEF Choosing
<1>4. ASSUME NEW k \in 1..n, k - 1 \in T  PROVE k \in T
  <2>1. g[k] = Chosen(g[k - 1], s[k], kind)
    BY <1>1, <1>2 DEF Choosing
  <2>2. IsSequence(g[k - 1]) /\ k \in 0..n
    BY <1>1, <1>4
  <2>3. IsSequence(Append(g[k - 1], s[k]))
    <3> DEFINE before == g[k - 1]
               one    == <<s[k]>>
    <3>1. Append(before, s[k]) = before \o one
      BY <2>2, OneMore
    <3>2. IsSequence(one) /\ IsSequence(before)
      BY <2>2, SingleIsSequence
    <3> HIDE DEF one, before
    <3>3. IsSequence(before \o one)
      BY <3>2, Joint
    <3> QED BY <3>1, <3>3 DEF before
  <2>4. IsSequence(g[k])
    BY <2>1, <2>2, <2>3 DEF Chosen
  <2> QED BY <2>2, <2>4
<1> HIDE DEF T
<1>5. 0..n \subseteq T
  BY <1>1, <1>3, <1>4, UpTo
<1>6. n \in T
  BY <1>1, <1>5
<1> QED BY <1>2, <1>6 DEF T

AllOf(t, kind) == \A i \in 1..Len(t) : t[i].kind = kind

(* Events of one kind more: they are chosen, or none of them is.           *)
LEMMA OnlyMore ==
  ASSUME NEW s, NEW t, NEW kind, NEW other, IsSequence(s), IsSequence(t), AllOf(t, other)
  PROVE  /\ other = kind => Only(s \o t, kind) = Only(s, kind) \o t
         /\ other # kind => Only(s \o t, kind) = Only(s, kind)
<1> DEFINE st == s \o t
           l  == Len(s)
           m  == Len(t)
           first(k) == [i \in 1..k |-> t[i]]
           Right(k) == IF other = kind THEN Only(s, kind) \o first(k) ELSE Only(s, kind)
<1>1. l \in Nat /\ m \in Nat /\ t = [i \in 1..m |-> t[i]]
  BY SequenceShape
<1>2. IsSequence(st) /\ Len(st) = l + m /\ st = [i \in 1..(l + m) |-> IF i <= l THEN s[i] ELSE t[i - l]]
  BY Joint
<1>3. PICK g : Choosing(s, kind, l, g) /\ Only(s, kind) = g[l]
  BY <1>1, OnlyIsChosen
<1>4. PICK h : Choosing(st, kind, l + m, h) /\ Only(st, kind) = h[l + m]
  <2> HIDE DEF st, l, m
  <2>1. Len(st) \in Nat
    BY <1>1, <1>2
  <2> QED BY <1>2, <2>1, OnlyIsChosen
<1> HIDE DEF st, l, m
<1>5. h[l] = g[l]
  <2> DEFINE T == {k \in 0..l : h[k] = g[k]}
  <2>1. 0 \in T
    BY <1>1, <1>3, <1>4 DEF Choosing
  <2>2. ASSUME NEW k \in 1..l, k - 1 \in T  PROVE k \in T
    <3>1. k \in 0..l /\ k \in 0..(l + m) /\ k # 0 /\ k \in 1..(l + m) /\ k <= l
      BY <1>1
    <3>2. g[k] = Chosen(g[k - 1], s[k], kind) /\ h[k] = Chosen(h[k - 1], st[k], kind)
      BY <1>3, <1>4, <3>1 DEF Choosing
    <3>3. st[k] = s[k]
      BY <1>2, <3>1
    <3> QED BY <2>2, <3>1, <3>2, <3>3
  <2> HIDE DEF T
  <2>3. 0..l \subseteq T
    BY <1>1, <2>1, <2>2, UpTo
  <2>4. l \in T
    BY <1>1, <2>3
  <2> QED BY <2>4 DEF T
<1>6. IsSequence(Only(s, kind))
  BY OnlyIsSequence
<1>7. \A k \in 0..m : IsSequence(first(k)) /\ Len(first(k)) = k
  <2> TAKE k \in 0..m
  <2> DEFINE f == first(k)
  <2>1. k \in Nat /\ f = [i \in 1..k |-> f[i]]
    BY <1>1
  <2> HIDE DEF f
  <2>2. IsSequence(f) /\ Len(f) = k
    BY <2>1, IsOne
  <2> QED BY <2>2 DEF f
<1>8. ASSUME NEW k \in 1..m
      PROVE  first(k) = first(k - 1) \o <<t[k]>>
  <2> DEFINE f == first(k - 1)
  <2>1. k - 1 \in 0..m /\ k \in Nat
    BY <1>1
  <2>2. IsSequence(f) /\ Len(f) = k - 1
    BY <1>7, <2>1
  <2>3. \A i \in 1..(k - 1) : f[i] = t[i]
    OBVIOUS
  <2> HIDE DEF f
  <2>4. f \o <<t[k]>> = [i \in 1..((k - 1) + 1) |-> IF i <= k - 1 THEN f[i] ELSE <<t[k]>>[i - (k - 1)]]
    BY <2>2, SingleIsSequence, Joint
  <2>5. (k - 1) + 1 = k
    BY <2>1
  <2>6. ASSUME NEW i \in 1..k  PROVE (IF i <= k - 1 THEN f[i] ELSE <<t[k]>>[i - (k - 1)]) = t[i]
    <3>1. CASE i <= k - 1
      <4>1. i \in 1..(k - 1)
        BY <2>1, <3>1
      <4> QED BY <2>3, <3>1, <4>1
    <3>2. CASE ~ (i <= k - 1)
      <4>1. i = k /\ i - (k - 1) = 1
        BY <2>1, <3>2
      <4>2. <<t[k]>>[1] = t[k]
        BY SingleIsSequence
      <4> QED BY <3>2, <4>1, <4>2
    <3> QED BY <3>1, <3>2
  <2>7. f \o <<t[k]>> = first(k)
    BY <2>4, <2>5, <2>6
  <2> QED BY <2>7 DEF f
<1>9. first(0) = <<>>
  OBVIOUS
<1>10. first(m) = t
  BY <1>1
<1>11. \A i \in 1..m : t[i].kind = other
  BY DEF m, AllOf
<1> HIDE DEF first
<1> DEFINE T == {k \in 0..m : h[l + k] = Right(k)}
<1>12. 0 \in T
  <2>1. l + 0 = l
    BY <1>1
  <2>2. Right(0) = Only(s, kind)
    BY <1>6, <1>9, JointWithNone
  <2> QED BY <1>1, <1>3, <1>5, <2>1, <2>2
<1>13. ASSUME NEW k \in 1..m, k - 1 \in T  PROVE k \in T
  <2>1. /\ k \in 0..m /\ k - 1 \in 0..m /\ l + k \in 0..(l + m) /\ l + k # 0 /\ l + k \in 1..(l + m)
        /\ ~ (l + k <= l) /\ (l + k) - l = k /\ (l + k) - 1 = l + (k - 1)
    BY <1>1
  <2>2. st[l + k] = t[k]
    BY <1>2, <2>1
  <2>3. h[l + k] = Chosen(h[(l + k) - 1], st[l + k], kind)
    BY <1>4, <2>1 DEF Choosing
  <2>4. h[l + k] = Chosen(Right(k - 1), t[k], kind)
    BY <1>13, <2>1, <2>2, <2>3
  <2>5. t[k].kind = other
    BY <1>11
  <2>6. CASE other = kind
    <3>1. Right(k - 1) = Only(s, kind) \o first(k - 1) /\ Right(k) = Only(s, kind) \o first(k)
      BY <2>6
    <3>2. h[l + k] = Append(Only(s, kind) \o first(k - 1), t[k])
      BY <2>4, <2>5, <2>6, <3>1 DEF Chosen
    <3>3. IsSequence(first(k - 1)) /\ IsSequence(<<t[k]>>)
      BY <1>7, <2>1, SingleIsSequence
    <3>4. IsSequence(Only(s, kind) \o first(k - 1))
      BY <1>6, <3>3, Joint
    <3>5. h[l + k] = (Only(s, kind) \o first(k - 1)) \o <<t[k]>>
      BY <3>2, <3>4, OneMore
    <3>6. h[l + k] = Only(s, kind) \o (first(k - 1) \o <<t[k]>>)
      <4> DEFINE only  == Only(s, kind)
                 part  == first(k - 1)
                 one   == <<t[k]>>
      <4>1. IsSequence(only) /\ IsSequence(part) /\ IsSequence(one)
        BY <1>6, <3>3
      <4>2. h[l + k] = (only \o part) \o one
        BY <3>5
      <4> HIDE DEF only, part, one
      <4>3. h[l + k] = only \o (part \o one)
        <5>1. (only \o part) \o one = only \o (part \o one)
          BY <4>1, JointOfThree
        <5> QED BY <4>2, <5>1
      <4> QED BY <4>3 DEF only, part, one
    <3>7. h[l + k] = Right(k)
      BY <1>8, <3>1, <3>6
    <3> QED BY <2>1, <3>7
  <2>7. CASE other # kind
    <3>1. Right(k - 1) = Only(s, kind) /\ Right(k) = Only(s, kind)
      BY <2>7
    <3>2. h[l + k] = Right(k)
      BY <2>4, <2>5, <2>7, <3>1 DEF Chosen
    <3> QED BY <2>1, <3>2
  <2> QED BY <2>6, <2>7
<1> HIDE DEF T
<1>14. 0..m \subseteq T
  BY <1>1, <1>12, <1>13, UpTo
<1>15. m \in T
  BY <1>1, <1>14
<1>16. h[l + m] = Right(m)
  BY <1>15 DEF T
<1>17. Only(st, kind) = IF other = kind THEN Only(s, kind) \o t ELSE Only(s, kind)
  BY <1>4, <1>10, <1>16
<1> QED BY <1>17 DEF st
-----------------------------------------------------------------------------
(* What a streamed call has told, and what it has told when it answers.    *)

TextOf(pieces)      == [k \in DOMAIN pieces |-> pieces[k].text]
CallsOf(completed)  == [k \in DOMAIN completed |-> completed[k].call]

ToldSoFar(o, t) ==
  /\ TextOf(Only(o, "text_delta")) = t
  /\ Only(o, "tool_call_completed") = <<>>
  /\ Len(Only(o, "message_started")) = 1
  /\ Only(o, "message_completed") = <<>>

ToldAll(o, a) ==
  /\ TextOf(Only(o, "text_delta")) = a.text
  /\ CallsOf(Only(o, "tool_call_completed")) = a.tools
  /\ Len(Only(o, "message_started")) = 1
  /\ Len(Only(o, "message_completed")) = 1

(* One event more.                                                         *)
LEMMA OnlyOneMore ==
  ASSUME NEW s, NEW e, NEW kind, IsSequence(s)
  PROVE  /\ e.kind = kind => Only(s \o <<e>>, kind) = Only(s, kind) \o <<e>>
         /\ e.kind # kind => Only(s \o <<e>>, kind) = Only(s, kind)
<1> DEFINE one   == <<e>>
           other == e.kind
<1>1. IsSequence(one) /\ Len(one) = 1 /\ one[1] = e
  BY SingleIsSequence
<1>2. \A i \in 1..Len(one) : one[i].kind = other
  <2> TAKE i \in 1..Len(one)
  <2> HIDE DEF one
  <2>1. i = 1
    BY <1>1
  <2> QED BY <1>1, <2>1
<1>3. AllOf(one, other)
  BY <1>2 DEF AllOf
<1> HIDE DEF one, other
<1>4. /\ other = kind => Only(s \o one, kind) = Only(s, kind) \o one
      /\ other # kind => Only(s \o one, kind) = Only(s, kind)
  BY <1>1, <1>3, OnlyMore
<1> QED BY <1>4 DEF one, other

(* An event that is neither text nor a call nor a beginning or an end.     *)
LEMMA ToldQuietly ==
  ASSUME NEW o, NEW t, NEW e, IsSequence(o), ToldSoFar(o, t),
         e.kind \notin {"text_delta", "tool_call_completed", "message_started", "message_completed"}
  PROVE  ToldSoFar(o \o <<e>>, t)
<1>1. /\ Only(o \o <<e>>, "text_delta") = Only(o, "text_delta")
      /\ Only(o \o <<e>>, "tool_call_completed") = Only(o, "tool_call_completed")
      /\ Only(o \o <<e>>, "message_started") = Only(o, "message_started")
      /\ Only(o \o <<e>>, "message_completed") = Only(o, "message_completed")
  BY OnlyOneMore
<1> QED BY <1>1 DEF ToldSoFar

(* The beginning.                                                          *)
LEMMA ToldBeginning ==
  ASSUME NEW e, e.kind = "message_started"
  PROVE  ToldSoFar(<<e>>, <<>>)
<1> DEFINE none == <<>>
           one  == <<e>>
<1>1. IsSequence(none) /\ IsSequence(one) /\ Len(one) = 1 /\ none \o one = one
  BY NoneIsSequence, SingleIsSequence, JointWithNone
<1>2. /\ Only(none, "text_delta") = none /\ Only(none, "tool_call_completed") = none
      /\ Only(none, "message_started") = none /\ Only(none, "message_completed") = none
  BY OnlyOfNone
<1>3. TextOf(none) = none
  BY DEF TextOf
<1>4. /\ Only(none \o <<e>>, "text_delta") = Only(none, "text_delta")
      /\ Only(none \o <<e>>, "tool_call_completed") = Only(none, "tool_call_completed")
      /\ Only(none \o <<e>>, "message_started") = Only(none, "message_started") \o <<e>>
      /\ Only(none \o <<e>>, "message_completed") = Only(none, "message_completed")
  <2> HIDE DEF none
  <2> QED BY <1>1, OnlyOneMore
<1> HIDE DEF none
<1>5. /\ Only(one, "text_delta") = none
      /\ Only(one, "tool_call_completed") = none
      /\ Only(one, "message_started") = one
      /\ Only(one, "message_completed") = none
  <2>1. none \o <<e>> = one
    BY <1>1
  <2> HIDE DEF one
  <2>3. none \o <<e>> = one
    BY <2>1 DEF one
  <2> QED BY <1>2, <1>4, <2>3
<1> HIDE DEF one
<1>6. ToldSoFar(one, none)
  BY <1>1, <1>3, <1>5 DEF ToldSoFar, none
<1> QED BY <1>6 DEF one, none

(* A piece of text.                                                        *)
LEMMA ToldText ==
  ASSUME NEW o, NEW t, NEW x, IsSequence(o), IsSequence(t), ToldSoFar(o, t)
  PROVE  ToldSoFar(o \o <<[kind |-> "text_delta", text |-> x]>>, t \o <<x>>)
<1> DEFINE e  == [kind |-> "text_delta", text |-> x]
           oe == o \o <<e>>
           p  == Only(o, "text_delta")
           pe == p \o <<e>>
           tx == t \o <<x>>
           n  == Len(p)
<1>1. e.kind = "text_delta" /\ e.text = x
  OBVIOUS
<1> HIDE DEF e
<1>2. /\ Only(oe, "text_delta") = pe
      /\ Only(oe, "tool_call_completed") = Only(o, "tool_call_completed")
      /\ Only(oe, "message_started") = Only(o, "message_started")
      /\ Only(oe, "message_completed") = Only(o, "message_completed")
  BY <1>1, OnlyOneMore
<1>3. IsSequence(p)
  BY OnlyIsSequence
<1>4. n \in Nat /\ DOMAIN p = 1..n
  <2> HIDE DEF p
  <2> QED BY <1>3, SequenceShape
<1>5. IsSequence(pe) /\ Len(pe) = n + 1 /\ pe = [i \in 1..(n + 1) |-> IF i <= n THEN p[i] ELSE <<e>>[i - n]]
  <2> HIDE DEF p
  <2> QED BY <1>3, SingleIsSequence, Joint
<1>6. TextOf(p) = t
  BY DEF ToldSoFar
<1>7. t = [k \in 1..n |-> p[k].text]
  <2> HIDE DEF p
  <2> QED BY <1>4, <1>6 DEF TextOf
<1>8. Len(t) = n
  <2>1. Len(t) \in Nat /\ DOMAIN t = 1..Len(t)
    BY SequenceShape
  <2>2. DOMAIN t = 1..n
    <3> HIDE DEF p, n
    <3> QED BY <1>7
  <2> HIDE DEF p, n
  <2>3. n \in Nat
    BY <1>4
  <2> DEFINE l == Len(t)
  <2>4. l \in Nat /\ 1..l = 1..n
    BY <2>1, <2>2
  <2> HIDE DEF l
  <2>5. l = n
    BY <2>3, <2>4
  <2> QED BY <2>5 DEF l
<1>9. tx = [i \in 1..(n + 1) |-> IF i <= n THEN t[i] ELSE <<x>>[i - n]]
  <2> DEFINE one == <<x>>
  <2>1. IsSequence(one) /\ Len(one) = 1
    BY SingleIsSequence
  <2> HIDE DEF n, one
  <2>2. t \o one = [i \in 1..(Len(t) + Len(one)) |-> IF i <= Len(t) THEN t[i] ELSE one[i - Len(t)]]
    BY <2>1, Joint
  <2>3. t \o one = [i \in 1..(n + 1) |-> IF i <= n THEN t[i] ELSE one[i - n]]
    BY <1>8, <2>1, <2>2
  <2> QED BY <2>3 DEF one
<1>10. <<e>>[1] = e /\ <<x>>[1] = x
  BY SingleIsSequence
<1> HIDE DEF n, p, pe, tx
<1>11. ASSUME NEW i \in 1..(n + 1)  PROVE pe[i].text = tx[i]
  <2>1. CASE i <= n
    <3>1. i \in 1..n
      BY <1>4, <2>1
    <3>2. pe[i] = p[i] /\ tx[i] = t[i] /\ t[i] = p[i].text
      BY <1>5, <1>7, <1>9, <2>1, <3>1
    <3> QED BY <3>2
  <2>2. CASE ~ (i <= n)
    <3>1. i - n = 1
      BY <1>4, <2>2
    <3>2. pe[i] = e /\ tx[i] = x
      BY <1>5, <1>9, <1>10, <2>2, <3>1
    <3> QED BY <1>1, <3>2
  <2> QED BY <2>1, <2>2
<1>12. DOMAIN pe = 1..(n + 1) /\ tx = [i \in 1..(n + 1) |-> tx[i]]
  BY <1>5, <1>9
<1>13. TextOf(pe) = tx
  BY <1>11, <1>12 DEF TextOf
<1> HIDE DEF oe
<1>14. ToldSoFar(oe, tx)
  BY <1>2, <1>13 DEF ToldSoFar
<1> QED BY <1>14 DEF oe, tx, e

(* The end: the calls, and the message once more.                          *)
LEMMA ToldEnd ==
  ASSUME NEW o, NEW t, NEW tools, NEW n \in Nat, NEW m, IsSequence(o), ToldSoFar(o, t),
         tools = [k \in 1..n |-> tools[k]], m.kind = "message_completed"
  PROVE  ToldAll((o \o [k \in DOMAIN tools |-> [kind |-> "tool_call_completed", call |-> tools[k]]]) \o <<m>>,
                 [text |-> t, tools |-> tools])
<1> DEFINE list == [k \in DOMAIN tools |-> [kind |-> "tool_call_completed", call |-> tools[k]]]
           ol   == o \o list
           a    == [text |-> t, tools |-> tools]
<1>1. DOMAIN tools = 1..n
  OBVIOUS
<1>2. /\ list = [k \in 1..n |-> list[k]]
      /\ \A k \in 1..n : list[k].kind = "tool_call_completed" /\ list[k].call = tools[k]
  BY <1>1
<1>3. a.text = t /\ a.tools = tools
  OBVIOUS
<1> HIDE DEF list, a
<1>4. IsSequence(list) /\ Len(list) = n
  BY <1>2, IsOne
<1>5. IsSequence(ol)
  BY <1>4, Joint
<1>6. AllOf(list, "tool_call_completed")
  BY <1>2, <1>4 DEF AllOf
<1>7. /\ Only(ol, "text_delta") = Only(o, "text_delta")
      /\ Only(ol, "tool_call_completed") = Only(o, "tool_call_completed") \o list
      /\ Only(ol, "message_started") = Only(o, "message_started")
      /\ Only(ol, "message_completed") = Only(o, "message_completed")
  BY <1>4, <1>6, OnlyMore
<1>8. Only(o, "tool_call_completed") \o list = list
  BY <1>4, JointWithNone DEF ToldSoFar
<1> HIDE DEF ol
<1>9. /\ Only(ol \o <<m>>, "text_delta") = Only(ol, "text_delta")
      /\ Only(ol \o <<m>>, "tool_call_completed") = Only(ol, "tool_call_completed")
      /\ Only(ol \o <<m>>, "message_started") = Only(ol, "message_started")
      /\ Only(ol \o <<m>>, "message_completed") = Only(ol, "message_completed") \o <<m>>
  BY <1>5, OnlyOneMore
<1>10. CallsOf(list) = tools
  <2>1. DOMAIN list = 1..n
    BY <1>2
  <2> QED BY <1>1, <1>2, <2>1 DEF CallsOf
<1>11. Len(Only(ol \o <<m>>, "message_completed")) = 1
  <2> DEFINE one == <<m>>
  <2>1. IsSequence(one) /\ Len(one) = 1
    BY SingleIsSequence
  <2>2. Only(ol, "message_completed") = <<>>
    BY <1>7 DEF ToldSoFar
  <2>3. <<>> \o one = one
    <3> HIDE DEF one
    <3> QED BY <2>1, JointWithNone
  <2> QED BY <1>9, <2>1, <2>2, <2>3
<1>12. TextOf(Only(o, "text_delta")) = t /\ Len(Only(o, "message_started")) = 1
  BY DEF ToldSoFar
<1> DEFINE om == ol \o <<m>>
<1>13. /\ TextOf(Only(om, "text_delta")) = t
       /\ CallsOf(Only(om, "tool_call_completed")) = tools
       /\ Len(Only(om, "message_started")) = 1
       /\ Len(Only(om, "message_completed")) = 1
  BY <1>7, <1>8, <1>9, <1>10, <1>11, <1>12
<1> HIDE DEF om
<1>14. ToldAll(om, a)
  BY <1>3, <1>13 DEF ToldAll
<1> QED BY <1>14 DEF om, ol, a, list
-----------------------------------------------------------------------------
(* The inductive invariant: what comes after the events of the turn so far *)
(* is what this call has told, by where the call is.                       *)
StreamInv == Streaming =>
  /\ events = Start \o OfCall /\ IsSequence(OfCall)
  /\ IsSequence(text) /\ Len(text) <= MaxText /\ IsFiniteSet(DOMAIN calls)
  /\ pc # "reply" /\ (outcome = "open" <=> pc # "done")
  /\ pc \in {"send", "started"} => OfCall = <<>>
  /\ pc = "started" => text = <<>>
  /\ pc \in {"get", "finish"} => ToldSoFar(OfCall, text)
  /\ outcome = "error" => OfCall = <<>>
  /\ outcome = "answer" => ToldAll(OfCall, answer)

LEMMA StartIsSequence == IsSequence(Start) /\ (Streaming => Len(Start) = 1)
<1>1. CASE Streaming
  BY <1>1, SingleIsSequence DEF Start
<1>2. CASE ~ Streaming
  BY <1>2, NoneIsSequence DEF Start
<1> QED BY <1>1, <1>2

(* The scene of a behaviour stays.                                         *)
LEMMA SceneStays ==
  ASSUME [Next]_vars
  PROVE  scene' = scene
<1>1. CASE Call
  BY <1>1, Zenon DEF Call, CancelledBefore, Cancelled, Refused, Accepted, Complete, Started, GetEnd, GetFailure,
                     GetError, GetText, GetFragment, GetQuietly, Leaves, Finish, Retry, GiveUp, Compact
<1>2. CASE CloseAbandoned
  BY <1>2 DEF CloseAbandoned
<1>3. CASE \E i \in 1..MaxRequests : Worker(i)
  BY <1>3 DEF Worker
<1>4. CASE Cancel
  BY <1>4 DEF Cancel
<1>5. CASE UNCHANGED vars
  BY <1>5 DEF vars
<1> QED BY <1>1, <1>2, <1>3, <1>4, <1>5 DEF Next

LEMMA StartStays ==
  ASSUME scene' = scene
  PROVE  Start' = Start /\ (Streaming' <=> Streaming)
BY DEF Start, Streaming, The

LEMMA JointMore ==
  ASSUME NEW s, NEW o, NEW t, IsSequence(s), IsSequence(o), IsSequence(t)
  PROVE  LET e == (s \o o) \o t
         IN  e = s \o (o \o t) /\ IsSequence(o \o t) /\ SubSeq(e, Len(s) + 1, Len(e)) = o \o t
<1> DEFINE ot == o \o t
           e  == (s \o o) \o t
<1>1. IsSequence(ot)
  BY Joint
<1>2. e = s \o ot
  BY JointOfThree
<1> HIDE DEF ot
<1>3. SubSeq(s \o ot, Len(s) + 1, Len(s \o ot)) = ot
  BY <1>1, PartsOfJoint
<1> HIDE DEF e
<1>4. e = s \o ot /\ IsSequence(ot) /\ SubSeq(e, Len(s) + 1, Len(e)) = ot
  BY <1>1, <1>2, <1>3
<1> QED BY <1>4 DEF e, ot

(* The events of the call, when events are added, stay or are taken back.  *)
LEMMA EventsAdded ==
  ASSUME NEW t, IsSequence(t), scene' = scene,
         events = Start \o OfCall, IsSequence(OfCall), events' = events \o t
  PROVE  OfCall' = OfCall \o t /\ IsSequence(OfCall') /\ events' = Start' \o OfCall'
<1> DEFINE s == Start
           o == OfCall
           e == (s \o o) \o t
<1>1. IsSequence(s) /\ IsSequence(o)
  BY StartIsSequence
<1>2. e = s \o (o \o t) /\ IsSequence(o \o t) /\ SubSeq(e, Len(s) + 1, Len(e)) = o \o t
  <2> HIDE DEF s, o
  <2> QED BY <1>1, JointMore
<1>3. events' = e /\ Start' = s
  BY StartStays
<1>4. OfCall' = SubSeq(e, Len(s) + 1, Len(e))
  BY <1>3 DEF OfCall
<1> QED BY <1>2, <1>3, <1>4

LEMMA EventsStay ==
  ASSUME scene' = scene, events' = events
  PROVE  OfCall' = OfCall
BY StartStays DEF OfCall

LEMMA EventsTakenBack ==
  ASSUME scene' = scene, events = Start \o OfCall, IsSequence(OfCall), events' = TakenBack
  PROVE  OfCall' = <<>> /\ IsSequence(OfCall') /\ events' = Start' \o OfCall'
<1> DEFINE s    == Start
           none == <<>>
<1>1. IsSequence(s) /\ IsSequence(OfCall) /\ IsSequence(none) /\ Len(s) \in Nat
  BY StartIsSequence, NoneIsSequence, SequenceShape
<1>2. events' = s
  BY <1>1, PartsOfJoint DEF TakenBack
<1>3. OfCall' = SubSeq(events', Len(s) + 1, Len(events'))
  BY StartStays DEF OfCall
<1> HIDE DEF s
<1>4. OfCall' = none
  BY <1>1, <1>2, <1>3, SubSeqEmpty
<1>5. s \o none = s
  BY <1>1, JointWithNone
<1> QED BY <1>1, <1>2, <1>4, <1>5, StartStays DEF s

(* The calls of an answer are a finite list.                               *)
LEMMA AssembledShape ==
  ASSUME IsFiniteSet(DOMAIN calls)
  PROVE  \E n \in Nat : Assembled = [k \in 1..n |-> Assembled[k]]
<1> DEFINE c == Cardinality(DOMAIN calls)
<1>1. c \in Nat
  BY FS_CardinalityType
<1>2. DOMAIN ByIndex(calls) = 1..c
  BY DEF ByIndex
<1>3. Named(ByIndex(calls)) = [k \in 1..c |-> [id |-> ByIndex(calls)[k].id, name |-> ByIndex(calls)[k].name]]
  BY <1>2 DEF Named
<1> HIDE DEF c
<1>4. Assembled = Named(ByIndex(calls)) \/ Assembled = <<>>
  BY DEF Assembled, CompleteToolCalls
<1>5. CASE Assembled = Named(ByIndex(calls))
  <2> DEFINE a == Assembled
  <2>1. a = [k \in 1..c |-> [id |-> ByIndex(calls)[k].id, name |-> ByIndex(calls)[k].name]]
    BY <1>3, <1>5
  <2> HIDE DEF a
  <2>2. a = [k \in 1..c |-> a[k]]
    BY <2>1
  <2> QED BY <1>1, <2>2 DEF a
<1>6. CASE Assembled = <<>>
  <2> DEFINE a == Assembled
  <2>1. a = <<>>
    BY <1>6
  <2> HIDE DEF a
  <2>2. a = [k \in 1..0 |-> a[k]]
    BY <2>1
  <2> QED BY <2>2 DEF a
<1> QED BY <1>4, <1>5, <1>6

LEMMA AccumulatedFinite ==
  ASSUME NEW f, IsFiniteSet(DOMAIN calls)
  PROVE  IsFiniteSet(DOMAIN Accumulated(calls, f))
<1>1. DOMAIN Accumulated(calls, f) = DOMAIN calls \cup {f.index}
  BY DEF Accumulated
<1>2. IsFiniteSet(DOMAIN calls \cup {f.index})
  BY FS_AddElement
<1> QED BY <1>1, <1>2

LEMMA StreamInit == Init => StreamInv
<1> SUFFICES ASSUME Init, Streaming  PROVE StreamInv
  BY DEF StreamInv
<1> DEFINE none == <<>>
           s    == Start
<1>1. IsSequence(s) /\ IsSequence(none) /\ Len(s) \in Nat
  BY StartIsSequence, NoneIsSequence, SequenceShape
<1>2. events = s
  BY DEF Init
<1>3. OfCall = SubSeq(events, Len(s) + 1, Len(events))
  BY DEF OfCall
<1>4. OfCall = none
  <2> HIDE DEF s
  <2> QED BY <1>1, <1>2, <1>3, SubSeqEmpty
<1>5. s \o none = s
  <2> HIDE DEF s
  <2> QED BY <1>1, JointWithNone
<1>6. text = none /\ calls = none /\ pc = "send" /\ outcome = "open"
  BY DEF Init
<1>7. IsFiniteSet(DOMAIN calls)
  <2>1. DOMAIN calls = {}
    BY <1>6
  <2> QED BY <2>1, FS_EmptySet
<1>8. Len(text) <= MaxText
  BY <1>6, ScenesAssumption
<1> QED BY <1>1, <1>2, <1>4, <1>5, <1>6, <1>7, <1>8 DEF StreamInv

(* Every step keeps it; only text is told as text, only Finish tells calls *)
(* and the end, and what failed is taken back.                             *)
LEMMA StreamNext ==
  ASSUME StreamInv, [Next]_vars
  PROVE  StreamInv'
<1> USE DEF StreamInv
<1> SUFFICES ASSUME Streaming'  PROVE StreamInv'
  OBVIOUS
<1>1. scene' = scene /\ Streaming /\ Start' = Start
  BY SceneStays, StartStays
<1>2. /\ events = Start \o OfCall /\ IsSequence(OfCall)
      /\ IsSequence(text) /\ Len(text) <= MaxText /\ IsFiniteSet(DOMAIN calls)
      /\ pc # "reply" /\ (outcome = "open" <=> pc # "done")
      /\ pc \in {"send", "started"} => OfCall = <<>>
      /\ pc = "started" => text = <<>>
      /\ pc \in {"get", "finish"} => ToldSoFar(OfCall, text)
      /\ outcome = "error" => OfCall = <<>>
      /\ outcome = "answer" => ToldAll(OfCall, answer)
  BY <1>1
<1>3. events' = events => OfCall' = OfCall /\ IsSequence(OfCall') /\ events' = Start' \o OfCall'
  BY <1>1, <1>2, EventsStay
<1>4. ASSUME UNCHANGED <<pc, text, calls, events, outcome, answer>>  PROVE StreamInv'
  BY <1>2, <1>3, <1>4
<1>5. ASSUME Cancelled, UNCHANGED <<text, calls, events>>  PROVE StreamInv'
  BY <1>2, <1>3, <1>5 DEF Cancelled
<1>6. ASSUME pc # "done", pc' = "raise", UNCHANGED outcome, UNCHANGED <<text, calls>>,
             IsSequence(OfCall') /\ events' = Start' \o OfCall'
      PROVE  StreamInv'
  BY <1>2, <1>6
<1>7. ASSUME Leaves  PROVE StreamInv'
  BY <1>5, <1>7 DEF Leaves, parts
<1>8. CASE CancelledBefore
  BY <1>5, <1>8 DEF CancelledBefore, parts
<1>9. CASE Refused
  BY <1>3, <1>6, <1>9 DEF Refused, Sends, parts, ends
<1>10. CASE Accepted
  <2>1. /\ pc = "send" /\ outcome = "open" /\ pc' = "started" /\ outcome' = outcome
        /\ text' = <<>> /\ calls' = <<>> /\ events' = events
    BY <1>1, <1>10 DEF Accepted, Sends, ends
  <2>2. IsSequence(text') /\ Len(text') <= MaxText
    BY <2>1, NoneIsSequence, ScenesAssumption
  <2>3. IsFiniteSet(DOMAIN calls')
    <3>1. DOMAIN calls' = {}
      BY <2>1
    <3> QED BY <3>1, FS_EmptySet
  <2> QED BY <1>2, <1>3, <2>1, <2>2, <2>3
<1>11. CASE Complete
  BY <1>2, <1>11 DEF Complete
<1>12. CASE Started
  <2>1. CASE Leaves
    BY <1>7, <2>1
  <2>2. CASE ~ Leaves
    <3> DEFINE e == Event("message_started")
    <3>1. /\ pc = "started" /\ events' = Append(events, e) /\ pc' = "get"
          /\ UNCHANGED <<text, calls, outcome, answer>>
      BY <1>12, <2>2 DEF Started, Shows, parts, ends
    <3>2. e.kind = "message_started"
      BY DEF Event
    <3> HIDE DEF e
    <3>3. OfCall = <<>> /\ text = <<>> /\ outcome = "open"
      BY <1>2, <3>1
    <3>4. IsSequence(events)
      BY <1>2, StartIsSequence, Joint
    <3>5. events' = events \o <<e>> /\ IsSequence(<<e>>)
      BY <3>1, <3>4, OneMore, SingleIsSequence
    <3>6. OfCall' = OfCall \o <<e>> /\ IsSequence(OfCall') /\ events' = Start' \o OfCall'
      BY <1>1, <1>2, <3>5, EventsAdded
    <3>7. OfCall' = <<e>>
      BY <3>3, <3>5, <3>6, JointWithNone
    <3>8. ToldSoFar(<<e>>, <<>>)
      BY <3>2, ToldBeginning
    <3>9. ToldSoFar(OfCall', text')
      BY <3>1, <3>3, <3>7, <3>8
    <3> QED BY <1>2, <3>1, <3>3, <3>6, <3>9
  <2> QED BY <2>1, <2>2
<1>13. CASE GetEnd
  <2>1. pc = "get" /\ pc' = "finish" /\ UNCHANGED <<text, calls, events, outcome, answer>>
    BY <1>13 DEF GetEnd, Got, parts, ends
  <2> QED BY <1>2, <1>3, <2>1
<1>14. CASE GetFailure
  BY <1>3, <1>6, <1>14 DEF GetFailure, Got, parts, ends
<1>15. IsSequence(events)
  BY <1>2, StartIsSequence, Joint
<1>16. ASSUME NEW e, Shows(e)
       PROVE  OfCall' = OfCall \o <<e>> /\ IsSequence(OfCall') /\ events' = Start' \o OfCall'
  <2>1. events' = events \o <<e>> /\ IsSequence(<<e>>)
    BY <1>15, <1>16, OneMore, SingleIsSequence DEF Shows
  <2> QED BY <1>1, <1>2, <2>1, EventsAdded
<1>17. CASE GetError
  <2>1. CASE Leaves
    BY <1>7, <2>1
  <2>2. CASE ~ Leaves
    <3>1. pc = "get" /\ pc' = "raise" /\ Shows(Event("error")) /\ UNCHANGED outcome /\ UNCHANGED <<text, calls>>
      BY <1>17, <2>2 DEF GetError, Got, parts, ends
    <3> QED BY <1>6, <1>16, <3>1
  <2> QED BY <2>1, <2>2
<1>18. CASE GetText
  <2>1. CASE Leaves
    BY <1>7, <2>1
  <2>2. CASE ~ Leaves
    <3>1. /\ pc = "get" /\ UNCHANGED <<pc, calls, outcome, answer>>
          /\ Len(text) < MaxText =>
               /\ text' = Append(text, Head(Queue).text)
               /\ Shows([kind |-> "text_delta", text |-> Head(Queue).text])
          /\ Len(text) = MaxText => UNCHANGED <<text, events>>
      BY <1>18, <2>2 DEF GetText, Got, ends
    <3>2. Len(text) \in Nat /\ MaxText \in Nat /\ (Len(text) < MaxText \/ Len(text) = MaxText)
      BY <1>2, SequenceShape, ScenesAssumption
    <3>3. CASE Len(text) = MaxText
      BY <1>4, <3>1, <3>3
    <3>4. CASE Len(text) < MaxText
      <4> DEFINE x == Head(Queue).text
                 e == [kind |-> "text_delta", text |-> x]
      <4>1. text' = Append(text, x) /\ Shows(e)
        BY <3>1, <3>4
      <4>2. ToldSoFar(OfCall, text) /\ IsSequence(text) /\ IsSequence(OfCall)
        BY <1>2, <3>1
      <4> HIDE DEF x
      <4>3. ToldSoFar(OfCall \o <<e>>, text \o <<x>>)
        BY <4>2, ToldText
      <4> HIDE DEF e
      <4>4. OfCall' = OfCall \o <<e>> /\ IsSequence(OfCall') /\ events' = Start' \o OfCall'
        BY <1>16, <4>1
      <4>5. text' = text \o <<x>>
        BY <4>1, <4>2, OneMore
      <4>6. IsSequence(text') /\ Len(text') <= MaxText
        <5>1. IsSequence(<<x>>) /\ Len(<<x>>) = 1
          BY SingleIsSequence
        <5>2. IsSequence(text') /\ Len(text') = Len(text) + 1
          BY <4>2, <4>5, <5>1, Joint
        <5> QED BY <3>2, <3>4, <5>2
      <4>7. ToldSoFar(OfCall', text')
        BY <4>3, <4>4, <4>5
      <4> QED BY <1>2, <3>1, <4>4, <4>6, <4>7
    <3> QED BY <3>2, <3>3, <3>4
  <2> QED BY <2>1, <2>2
<1>19. CASE GetFragment
  <2>1. CASE Leaves
    BY <1>7, <2>1
  <2>2. CASE ~ Leaves
    <3> DEFINE first == IF Head(Queue).index \in DOMAIN calls THEN <<>> ELSE <<Event("tool_call_started")>>
               delta == <<Event("tool_call_delta")>>
               added == first \o delta
    <3>1. /\ pc = "get" /\ UNCHANGED <<pc, text, outcome, answer>>
          /\ calls' = Accumulated(calls, Head(Queue)) /\ events' = events \o first \o delta
      BY <1>19, <2>2 DEF GetFragment, Got, ends
    <3>2. ToldSoFar(OfCall, text) /\ IsSequence(OfCall)
      BY <1>2, <3>1
    <3>3. IsSequence(first) /\ IsSequence(delta)
      BY NoneIsSequence, SingleIsSequence
    <3>4. /\ Event("tool_call_started").kind = "tool_call_started"
          /\ Event("tool_call_delta").kind = "tool_call_delta"
      BY DEF Event
    <3>5. ToldSoFar(OfCall \o first, text) /\ IsSequence(OfCall \o first)
      <4>1. CASE first = <<>>
        BY <3>2, <4>1, JointWithNone
      <4>2. CASE first = <<Event("tool_call_started")>>
        <5>1. ToldSoFar(OfCall \o <<Event("tool_call_started")>>, text)
          BY <3>2, <3>4, ToldQuietly
        <5>2. IsSequence(OfCall \o first)
          BY <3>2, <3>3, Joint
        <5> QED BY <4>2, <5>1, <5>2
      <4> QED BY <4>1, <4>2
    <3> HIDE DEF first
    <3>6. ToldSoFar((OfCall \o first) \o delta, text)
      BY <3>4, <3>5, ToldQuietly
    <3> HIDE DEF delta
    <3>7. IsSequence(added)
      BY <3>3, Joint
    <3>8. events' = events \o added
      <4>1. (events \o first) \o delta = events \o (first \o delta)
        BY <1>15, <3>3, JointOfThree
      <4> QED BY <3>1, <4>1
    <3>9. OfCall' = OfCall \o added /\ IsSequence(OfCall') /\ events' = Start' \o OfCall'
      <4> HIDE DEF added
      <4> QED BY <1>1, <1>2, <3>7, <3>8, EventsAdded
    <3>10. OfCall \o added = (OfCall \o first) \o delta
      <4>1. (OfCall \o first) \o delta = OfCall \o (first \o delta)
        BY <3>2, <3>3, JointOfThree
      <4> QED BY <4>1
    <3>11. ToldSoFar(OfCall', text')
      BY <3>1, <3>6, <3>9, <3>10
    <3>12. IsFiniteSet(DOMAIN calls')
      BY <1>2, <3>1, AccumulatedFinite
    <3> QED BY <1>2, <3>1, <3>9, <3>11, <3>12
  <2> QED BY <2>1, <2>2
<1>20. CASE GetQuietly
  BY <1>4, <1>20 DEF GetQuietly, ends
<1>21. CASE Finish
  <2>1. CASE Leaves
    BY <1>7, <2>1
  <2>2. CASE ~ Leaves
    <3> DEFINE bad   == IF calls # <<>> /\ Assembled = <<>> THEN <<Event("error")>> ELSE <<>>
               tools == Assembled
               list  == [k \in DOMAIN tools |-> [kind |-> "tool_call_completed", call |-> tools[k]]]
               m     == [kind |-> "message_completed", text |-> text, tools |-> tools]
               end   == <<m>>
               a     == [text |-> text, tools |-> tools]
               added == (bad \o list) \o end
    <3>1. /\ pc = "finish" /\ answer' = a /\ events' = ((events \o bad) \o list) \o end
          /\ outcome' = "answer" /\ pc' = "done" /\ UNCHANGED <<text, calls>>
      BY <1>21, <2>2 DEF Finish, parts
    <3>2. ToldSoFar(OfCall, text) /\ IsSequence(OfCall)
      BY <1>2, <3>1
    <3>3. PICK n \in Nat : tools = [k \in 1..n |-> tools[k]]
      BY <1>2, AssembledShape
    <3>4. Event("error").kind = "error" /\ m.kind = "message_completed"
      BY DEF Event
    <3>5. IsSequence(bad) /\ IsSequence(end)
      BY NoneIsSequence, SingleIsSequence
    <3>6. ToldSoFar(OfCall \o bad, text) /\ IsSequence(OfCall \o bad)
      <4>1. CASE bad = <<>>
        BY <3>2, <4>1, JointWithNone
      <4>2. CASE bad = <<Event("error")>>
        <5>1. ToldSoFar(OfCall \o <<Event("error")>>, text)
          BY <3>2, <3>4, ToldQuietly
        <5>2. IsSequence(OfCall \o bad)
          BY <3>2, <3>5, Joint
        <5> QED BY <4>2, <5>1, <5>2
      <4> QED BY <4>1, <4>2
    <3> HIDE DEF bad, tools, m
    <3>7. ToldAll(((OfCall \o bad) \o list) \o end, a)
      BY <3>3, <3>4, <3>6, ToldEnd
    <3>8. IsSequence(list)
      <4>1. DOMAIN tools = 1..n
        BY <3>3
      <4>2. list = [k \in 1..n |-> list[k]]
        BY <4>1
      <4> HIDE DEF list
      <4> QED BY <4>2, IsOne
    <3> HIDE DEF list, end, a
    <3>9. IsSequence(bad \o list)
      BY <3>5, <3>8, Joint
    <3>10. IsSequence(added)
      BY <3>5, <3>9, Joint
    <3>11. ASSUME NEW s, IsSequence(s)
           PROVE  ((s \o bad) \o list) \o end = s \o added
      <4>1. (s \o bad) \o list = s \o (bad \o list)
        BY <3>5, <3>8, <3>11, JointOfThree
      <4>2. (s \o (bad \o list)) \o end = s \o ((bad \o list) \o end)
        BY <3>5, <3>9, <3>11, JointOfThree
      <4> QED BY <4>1, <4>2
    <3>12. events' = events \o added
      BY <1>15, <3>1, <3>11
    <3>13. OfCall' = OfCall \o added /\ IsSequence(OfCall') /\ events' = Start' \o OfCall'
      <4> HIDE DEF added
      <4> QED BY <1>1, <1>2, <3>10, <3>12, EventsAdded
    <3>14. ToldAll(OfCall', answer')
      <4>1. ((OfCall \o bad) \o list) \o end = OfCall \o added
        BY <3>2, <3>11
      <4> QED BY <3>1, <3>7, <3>13, <4>1
    <3> QED BY <1>2, <3>1, <3>13, <3>14
  <2> QED BY <2>1, <2>2
<1>22. CASE Retry
  BY <1>1, <1>22 DEF Retry, Retries
<1>23. ASSUME events' = TakenBack
       PROVE  OfCall' = <<>> /\ IsSequence(OfCall') /\ events' = Start' \o OfCall'
  BY <1>1, <1>2, <1>23, EventsTakenBack
<1>24. CASE GiveUp
  <2>1. /\ events' = TakenBack /\ outcome' = "error" /\ pc' = "done" /\ UNCHANGED <<text, calls>>
    BY <1>24 DEF GiveUp, parts
  <2> QED BY <1>2, <1>23, <2>1
<1>25. CASE Compact
  <2>1. /\ pc = "raise" /\ events' = TakenBack /\ UNCHANGED <<text, calls>>
        /\ (pc' = "send" /\ outcome' = outcome) \/ (outcome' = "error" /\ pc' = "done")
    BY <1>25 DEF Compact, parts
  <2> QED BY <1>2, <1>23, <2>1
<1>26. CASE CloseAbandoned
  BY <1>4, <1>26 DEF CloseAbandoned, parts, ends
<1>27. CASE \E i \in 1..MaxRequests : Worker(i)
  BY <1>4, <1>27 DEF Worker, parts, ends
<1>28. CASE Cancel
  BY <1>4, <1>28 DEF Cancel, parts, ends
<1>29. CASE UNCHANGED vars
  BY <1>4, <1>29 DEF vars
<1> QED
  BY <1>8, <1>9, <1>10, <1>11, <1>12, <1>13, <1>14, <1>17, <1>18, <1>19, <1>20, <1>21, <1>22, <1>24, <1>25,
     <1>26, <1>27, <1>28, <1>29, Zenon DEF Next, Call

LEMMA StreamInvariance == Spec => []StreamInv
<1>1. Init => StreamInv
  BY StreamInit
<1>2. StreamInv /\ [Next]_vars => StreamInv'
  BY StreamNext
<1> QED BY <1>1, <1>2, PTL DEF Spec

(* last_stream_events tell exactly the answer when a streamed call ends,   *)
(* and nothing when it ends with an error: for any replies, chunks, faults *)
(* and bounds, whatever order the thread, the coroutine and the user go.   *)
THEOREM EventsTellTheAnswer == Spec => []EventsAreTheAnswer
<1>1. StreamInv => EventsAreTheAnswer
  <2> SUFFICES ASSUME StreamInv, Streaming  PROVE EventsAreTheAnswer
    BY DEF EventsAreTheAnswer
  <2> DEFINE s == Start
             o == OfCall
             e == events
  <2>1. events = s \o o /\ IsSequence(s) /\ IsSequence(o)
    BY StartIsSequence DEF StreamInv
  <2>2. IsPrefix(Start, events)
    <3> HIDE DEF s, o
    <3>1. SubSeq(events, 1, Len(s)) = s
      BY <2>1, PartsOfJoint
    <3>2. Len(s) \in Nat /\ Len(o) \in Nat /\ Len(events) = Len(s) + Len(o)
      BY <2>1, Joint, SequenceShape
    <3>3. Len(s) <= Len(events)
      BY <3>2
    <3>4. s = [i \in 1..Len(s) |-> s[i]]
      BY <2>1, SequenceShape
    <3>5. SubSeq(s, 1, Len(s)) = s
      BY <3>2, <3>4
    <3> QED BY <3>1, <3>3, <3>5 DEF IsPrefix, s
  <2>3. outcome = "error" => OfCall = <<>>
    BY DEF StreamInv
  <2>4. outcome = "answer" => ToldAll(OfCall, answer)
    BY DEF StreamInv
  <2> QED BY <2>2, <2>3, <2>4 DEF EventsAreTheAnswer, ToldAll, TextOf, CallsOf
<1> QED BY <1>1, StreamInvariance, PTL
-----------------------------------------------------------------------------
(* What the chunks of a reply add up to.                                   *)

Zero == [text |-> <<>>, calls |-> <<>>, finish |-> "unknown"]
Adding(s, n, g) == g = [k \in 0..n |-> IF k = 0 THEN Zero ELSE Added(g[k - 1], s[k])]

LEMMA AddingExists ==
  ASSUME NEW s, NEW n \in Nat
  PROVE  \E g : Adding(s, n, g)
<1> DEFINE T == {k \in 0..n : \E g : Adding(s, k, g)}
<1>1. 0 \in T
  <2>1. Adding(s, 0, [j \in 0..0 |-> Zero])
    BY DEF Adding
  <2> QED BY <2>1
<1>2. ASSUME NEW k \in 1..n, k - 1 \in T  PROVE k \in T
  <2>1. PICK g : Adding(s, k - 1, g)
    BY <1>2
  <2> DEFINE h == [j \in 0..k |-> IF j = k THEN Added(g[k - 1], s[k]) ELSE g[j]]
  <2>2. Adding(s, k, h)
    BY <2>1 DEF Adding
  <2> QED BY <2>2
<1> HIDE DEF T
<1>3. 0..n \subseteq T
  BY <1>1, <1>2, UpTo
<1>4. n \in T
  BY <1>3
<1> QED BY <1>4 DEF T

LEMMA AddsUpChunkByChunk ==
  ASSUME NEW s, Len(s) \in Nat
  PROVE  /\ AddsUp(s)[0] = Zero
         /\ \A k \in 1..Len(s) : AddsUp(s)[k] = Added(AddsUp(s)[k - 1], s[k])
<1>1. PICK g : Adding(s, Len(s), g)
  BY AddingExists
<1> DEFINE upTo == CHOOSE g1 : g1 = [n \in 0..Len(s) |-> IF n = 0 THEN [text |-> <<>>, calls |-> <<>>, finish |-> "unknown"]
                                                          ELSE Added(g1[n - 1], s[n])]
<1>2. Adding(s, Len(s), upTo)
  BY <1>1 DEF Adding, Zero
<1>3. AddsUp(s) = upTo
  BY Zenon DEF AddsUp
<1> HIDE DEF upTo
<1>4. upTo[0] = Zero /\ \A k \in 1..Len(s) : upTo[k] = Added(upTo[k - 1], s[k])
  BY <1>2 DEF Adding
<1> QED BY <1>3, <1>4

(* The chunks of a reply, as a sequence with the kinds there are.          *)
Chunked(s) ==
  /\ Len(s) \in Nat /\ DOMAIN s = 1..Len(s)
  /\ \A m \in 1..Len(s) :
       /\ s[m].kind \in {"text", "tool", "finish", "usage", "error"}
       /\ s[m].kind = "tool" => s[m].index \in Nat
       /\ s[m].kind = "finish" => \A k \in 1..Len(s) : k > m => s[k].kind \in {"usage", "error"}

Begins(s, t) == \E u : IsSequence(u) /\ t = s \o u

LEMMA BeginsMore ==
  ASSUME NEW s, NEW t, NEW e, IsSequence(s), IsSequence(t), Begins(s, t)
  PROVE  Begins(s, Append(t, e)) /\ IsSequence(Append(t, e))
<1>1. PICK u : IsSequence(u) /\ t = s \o u
  BY DEF Begins
<1> DEFINE o == <<e>>
<1>2. IsSequence(o) /\ Append(t, e) = t \o o
  BY OneMore, SingleIsSequence
<1> HIDE DEF o
<1>3. IsSequence(u \o o) /\ IsSequence(t \o o)
  BY <1>1, <1>2, Joint
<1>4. (s \o u) \o o = s \o (u \o o)
  BY <1>1, <1>2, JointOfThree
<1>5. t \o o = s \o (u \o o)
  BY <1>1, <1>4
<1> QED BY <1>2, <1>3, <1>5 DEF Begins

LEMMA BeginsItself ==
  ASSUME NEW s, IsSequence(s)
  PROVE  Begins(s, s)
<1>1. s = s \o <<>>
  BY JointWithNone
<1> QED BY <1>1, NoneIsSequence DEF Begins

(* What was added stays: the texts grow, and the calls are finitely many.  *)
SumUpTo(s, n) ==
  /\ IsFiniteSet(DOMAIN AddsUp(s)[n].calls) /\ DOMAIN AddsUp(s)[n].calls \subseteq Nat
  /\ \A m \in 0..n : IsSequence(AddsUp(s)[m].text) /\ Begins(AddsUp(s)[m].text, AddsUp(s)[n].text)
  /\ AddsUp(s)[n].finish # "unknown" => \E m \in 1..n : s[m].kind = "finish"

LEMMA SumsUp ==
  ASSUME NEW s, Chunked(s)
  PROVE  \A n \in 0..Len(s) : SumUpTo(s, n)
<1> DEFINE l == Len(s)
           p(k) == AddsUp(s)[k]
           T == {n \in 0..l : SumUpTo(s, n)}
<1>1. l \in Nat /\ \A m \in 1..l : s[m].kind = "tool" => s[m].index \in Nat
  BY DEF Chunked
<1>2. p(0) = Zero /\ \A k \in 1..l : p(k) = Added(p(k - 1), s[k])
  BY <1>1, AddsUpChunkByChunk
<1> HIDE DEF l, p
<1>3. 0 \in T
  <2> DEFINE none == <<>>
  <2>1. p(0).text = none /\ p(0).calls = none /\ p(0).finish = "unknown"
    BY <1>2 DEF Zero
  <2>2. IsSequence(none)
    BY NoneIsSequence
  <2>3. DOMAIN none = {}
    OBVIOUS
  <2> HIDE DEF none
  <2>4. IsFiniteSet(DOMAIN p(0).calls) /\ DOMAIN p(0).calls \subseteq Nat
    BY <2>1, <2>3, FS_EmptySet
  <2>5. \A m \in 0..0 : IsSequence(p(m).text) /\ Begins(p(m).text, p(0).text)
    <3>1. Begins(p(0).text, p(0).text)
      BY <2>1, <2>2, BeginsItself
    <3>2. \A m \in 0..0 : m = 0
      OBVIOUS
    <3> QED BY <2>1, <2>2, <3>1, <3>2
  <2>6. SumUpTo(s, 0)
    BY <2>1, <2>2, <2>4, <2>5 DEF SumUpTo, p
  <2> QED BY <1>1, <2>6
<1>4. ASSUME NEW n \in 1..l, n - 1 \in T  PROVE n \in T
  <2>1. p(n) = Added(p(n - 1), s[n])
    BY <1>2
  <2>2. /\ IsFiniteSet(DOMAIN p(n - 1).calls) /\ DOMAIN p(n - 1).calls \subseteq Nat
        /\ \A m \in 0..(n - 1) : IsSequence(p(m).text) /\ Begins(p(m).text, p(n - 1).text)
        /\ p(n - 1).finish # "unknown" => \E m \in 1..(n - 1) : s[m].kind = "finish"
    BY <1>4 DEF SumUpTo, p
  <2>3. /\ p(n).text = IF s[n].kind = "text" THEN Append(p(n - 1).text, s[n].text) ELSE p(n - 1).text
        /\ p(n).calls = IF s[n].kind = "tool" /\ s[n].index # NoIndex THEN Accumulated(p(n - 1).calls, s[n]) ELSE p(n - 1).calls
        /\ p(n).finish = IF s[n].kind = "finish" THEN s[n].reason ELSE p(n - 1).finish
    BY <2>1 DEF Added
  <2>4. n \in Nat /\ n - 1 \in 0..(n - 1)
    BY <1>1
  <2> DEFINE b == p(n - 1)
             d == p(n)
  <2> HIDE DEF b, d
  <2>5. ASSUME NEW m \in 0..(n - 1)  PROVE IsSequence(p(m).text) /\ Begins(p(m).text, d.text) /\ IsSequence(d.text)
    <3> DEFINE t == p(m).text
    <3>1. IsSequence(t) /\ IsSequence(b.text) /\ Begins(t, b.text)
      BY <2>2, <2>4 DEF b
    <3>2. d.text = Append(b.text, s[n].text) \/ d.text = b.text
      BY <2>3 DEF b, d
    <3> HIDE DEF t
    <3>3. Begins(t, Append(b.text, s[n].text)) /\ IsSequence(Append(b.text, s[n].text))
      BY <3>1, BeginsMore
    <3>4. IsSequence(t) /\ Begins(t, d.text) /\ IsSequence(d.text)
      BY <3>1, <3>2, <3>3
    <3> QED BY <3>4 DEF t
  <2>6. ASSUME NEW m \in 0..n  PROVE IsSequence(p(m).text) /\ Begins(p(m).text, d.text)
    <3>1. CASE m = n
      <4>1. IsSequence(d.text)
        BY <2>4, <2>5
      <4> QED BY <3>1, <4>1, BeginsItself DEF d
    <3>2. CASE m # n
      <4>1. m \in 0..(n - 1)
        BY <2>4, <3>2
      <4> QED BY <2>5, <4>1
    <3> QED BY <3>1, <3>2
  <2>7. IsFiniteSet(DOMAIN d.calls) /\ DOMAIN d.calls \subseteq Nat
    <3>1. CASE d.calls = b.calls
      BY <2>2, <3>1 DEF b
    <3>2. CASE s[n].kind = "tool" /\ d.calls = Accumulated(b.calls, s[n])
      <4>1. DOMAIN d.calls = DOMAIN b.calls \cup {s[n].index}
        BY <3>2 DEF Accumulated
      <4>2. s[n].index \in Nat
        BY <1>1, <3>2
      <4>3. IsFiniteSet(DOMAIN b.calls) /\ DOMAIN b.calls \subseteq Nat
        BY <2>2 DEF b
      <4>4. IsFiniteSet(DOMAIN b.calls \cup {s[n].index})
        BY <4>3, FS_AddElement
      <4> QED BY <4>1, <4>2, <4>3, <4>4
    <3> QED BY <2>3, <3>1, <3>2 DEF b, d
  <2>8. d.finish # "unknown" => \E m \in 1..n : s[m].kind = "finish"
    BY <2>2, <2>3, <2>4 DEF b, d
  <2>9. SumUpTo(s, n)
    BY <2>6, <2>7, <2>8 DEF SumUpTo, d, p
  <2> QED BY <1>1, <2>9
<1> HIDE DEF T
<1>5. 0..l \subseteq T
  BY <1>1, <1>3, <1>4, UpTo
<1> QED BY <1>5 DEF T, l

(* After the reason it ends with nothing is added.                         *)
LEMMA NothingAfterTheReason ==
  ASSUME NEW s, Chunked(s), NEW n \in 0..Len(s), AddsUp(s)[n].finish # "unknown"
  PROVE  LET a == AddsUp(s)[n]
             z == AddsUp(s)[Len(s)]
         IN  a.text = z.text /\ a.calls = z.calls /\ a.finish = z.finish
<1> DEFINE l == Len(s)
           p(k) == AddsUp(s)[k]
           T == {k \in 0..l : k >= n => p(k).text = p(n).text /\ p(k).calls = p(n).calls /\ p(k).finish = p(n).finish}
<1>1. l \in Nat /\ n \in 0..l
  BY DEF Chunked
<1>2. PICK m \in 1..n : s[m].kind = "finish"
  BY SumsUp DEF SumUpTo
<1>3. \A k \in 1..l : k > n => s[k].kind \in {"usage", "error"}
  BY <1>1, <1>2 DEF Chunked
<1>4. \A k \in 1..l : p(k) = Added(p(k - 1), s[k])
  BY <1>1, AddsUpChunkByChunk
<1> HIDE DEF l, p
<1>5. 0 \in T
  <2>1. 0 >= n => n = 0
    BY <1>1
  <2> QED BY <1>1, <2>1
<1>6. ASSUME NEW k \in 1..l, k - 1 \in T  PROVE k \in T
  <2>1. CASE k <= n
    <3>1. k >= n => k = n
      BY <1>1, <2>1
    <3> QED BY <1>1, <3>1
  <2>2. CASE k > n
    <3>1. k - 1 >= n
      BY <1>1, <2>2
    <3>2. p(k - 1).text = p(n).text /\ p(k - 1).calls = p(n).calls /\ p(k - 1).finish = p(n).finish
      BY <1>6, <3>1
    <3>3. s[k].kind \in {"usage", "error"}
      BY <1>3, <2>2
    <3>4. p(k).text = p(k - 1).text /\ p(k).calls = p(k - 1).calls /\ p(k).finish = p(k - 1).finish
      BY <1>4, <3>3 DEF Added
    <3> QED BY <1>1, <3>2, <3>4
  <2> QED BY <1>1, <2>1, <2>2
<1> HIDE DEF T
<1>7. 0..l \subseteq T
  BY <1>1, <1>5, <1>6, UpTo
<1>8. l \in T /\ l >= n
  BY <1>1, <1>7
<1>9. p(l).text = p(n).text /\ p(l).calls = p(n).calls /\ p(l).finish = p(n).finish
  BY <1>8 DEF T
<1> QED BY <1>9 DEF p, l

(* A finite set of numbers has a k-th one.                                 *)
LEMMA NthIsThere ==
  ASSUME NEW S \in SUBSET Nat, IsFiniteSet(S), NEW k \in 1..Cardinality(S)
  PROVE  Nth(S, k) \in S
<1> DEFINE c == Cardinality(S)
           upTo(i) == {j \in S : j <= i}
           T == {n \in 0..c : n > 0 => \E i \in S : Cardinality(upTo(i)) = n}
<1>1. c \in Nat
  BY FS_CardinalityType
<1>2. \A i \in S : IsFiniteSet(upTo(i)) /\ upTo(i) \subseteq S
  BY FS_Subset
<1> HIDE DEF c
<1>3. 0 \in T
  BY <1>1
<1>4. ASSUME NEW n \in 1..c, n - 1 \in T  PROVE n \in T
  <2>1. PICK B : /\ B \subseteq S /\ IsFiniteSet(B) /\ Cardinality(B) = n - 1
                 /\ \A j \in S \ B : \A b \in B : b <= j
                 /\ \A j \in S \ B : \A b \in B : b # j
    <3>1. CASE n - 1 = 0
      <4>1. IsFiniteSet({}) /\ Cardinality({}) = 0
        BY FS_EmptySet
      <4> QED BY <3>1, <4>1
    <3>2. CASE n - 1 # 0
      <4>1. n - 1 > 0
        BY <1>1, <3>2
      <4>2. PICK i \in S : Cardinality(upTo(i)) = n - 1
        BY <1>4, <4>1
      <4>3. \A j \in S \ upTo(i) : \A b \in upTo(i) : b <= j /\ b # j
        OBVIOUS
      <4> QED BY <1>2, <4>2, <4>3
    <3> QED BY <3>1, <3>2
  <2>2. S \ B # {}
    <3>1. n - 1 # c
      BY <1>1
    <3>2. S \ B = {} => S = B
      BY <2>1
    <3>3. S = B => Cardinality(S) = n - 1
      BY <2>1
    <3> QED BY <3>1, <3>2, <3>3 DEF c
  <2>3. PICK m \in S \ B : \A j \in S \ B : m <= j
    <3>1. S \ B \in SUBSET Nat
      OBVIOUS
    <3> QED BY <2>2, <3>1, LeastNumber
  <2>4. upTo(m) = B \cup {m}
    <3>1. ASSUME NEW j \in S, j <= m, j \notin B  PROVE j = m
      <4>1. m <= j /\ m \in Nat /\ j \in Nat
        BY <2>3, <3>1
      <4> QED BY <3>1, <4>1
    <3>2. B \subseteq upTo(m)
      BY <2>1, <2>3
    <3>3. m \in upTo(m)
      OBVIOUS
    <3> QED BY <2>1, <3>1, <3>2, <3>3
  <2>5. Cardinality(B \cup {m}) = Cardinality(B) + 1
    BY <2>1, <2>3, FS_AddElement
  <2>6. Cardinality(upTo(m)) = n
    BY <1>1, <2>1, <2>4, <2>5
  <2> QED BY <2>6
<1> HIDE DEF T
<1>5. 0..c \subseteq T
  BY <1>1, <1>3, <1>4, UpTo
<1>6. \E i \in S : Cardinality({j \in S : j <= i}) = k
  <2>1. k \in T /\ k > 0
    BY <1>1, <1>5 DEF c
  <2> QED BY <2>1 DEF T
<1> QED BY <1>6 DEF Nth
-----------------------------------------------------------------------------
(* The invariant of the refinement.                                        *)

AllErrors == UNION {Scenes[n].errors : n \in DOMAIN Scenes}
Items == (UNION {Range(r.chunks) : r \in AllReplies}) \cup {Ended} \cup {Failure(e) : e \in AllErrors}
Exchange == [reply : AllReplies, left : Seq(Items), queue : Seq(Items),
            worker : {"none", "next", "end", "gone"}, stop : BOOLEAN, closed : BOOLEAN]

(* What the thread adds to the chunks.                                     *)
Sign(e) == e.kind \in {"ended", "failure"}

(* What the coroutine has taken adds up to what it holds.                  *)
Holds(chunks, n) ==
  /\ n \in 0..Len(chunks)
  /\ text = AddsUp(chunks)[n].text /\ calls = AddsUp(chunks)[n].calls /\ finish = AddsUp(chunks)[n].finish

(* The queue goes on where the coroutine is, and the thread where the      *)
(* queue ends.                                                             *)
InOrder(c, n) ==
  /\ \A k \in DOMAIN c.queue :
       Sign(c.queue[k]) \/ (n + k \in DOMAIN c.reply.chunks /\ c.queue[k] = c.reply.chunks[n + k])
  /\ c.worker = "next" => /\ Len(c.left) + (n + Len(c.queue)) = Len(c.reply.chunks)
                          /\ \A k \in DOMAIN c.left : c.left[k] = c.reply.chunks[(n + Len(c.queue)) + k]

(* The thread of a server that sends for ever ends because it failed.      *)
EndsInFailure(c) ==
  /\ c.left = c.reply.chunks
  /\ c.worker \in {"end", "gone"} => \E k \in DOMAIN c.queue : c.queue[k].kind = "failure"
  /\ \A k \in DOMAIN c.queue : c.queue[k].kind = "ended" => \E m \in DOMAIN c.queue : m < k /\ c.queue[m].kind = "failure"

Underway(c) ==
  /\ c.stop = FALSE /\ c.worker # "none"
  /\ c.worker = "next" => c.closed = FALSE /\ \A k \in DOMAIN c.queue : ~Sign(c.queue[k])
  /\ IF The.endless THEN EndsInFailure(c)
     ELSE \E n \in Nat : Holds(c.reply.chunks, n) /\ InOrder(c, n)

(* The requests so far, by the retries and the one recovery.               *)
Counted ==
  /\ attempt \in 0..The.retries /\ compacted \in BOOLEAN
  /\ Len(requests) <= (IF compacted = TRUE THEN The.retries + 1 ELSE 0) + attempt + (IF pc = "send" THEN 0 ELSE 1)

Answering ==
  /\ pc \in {"started", "get", "finish", "reply"} =>
       requests # <<>> /\ requests[Newest].reply \in The.replies /\ (pc = "reply" <=> ~Streaming)
  /\ pc = "started" => /\ text = <<>> /\ calls = <<>> /\ finish = "unknown"
                       /\ requests[Newest] = Connection(requests[Newest].reply)
  /\ pc = "get" => Underway(requests[Newest])
  /\ pc = "finish" => The.endless = FALSE /\ \E n \in Nat : Holds(requests[Newest].reply.chunks, n)

CallInv ==
  /\ scene \in DOMAIN Scenes /\ requests \in Seq(Exchange)
  /\ (outcome = "open" <=> pc # "done")
  /\ Counted /\ Answering

LEMMA ComesChunked ==
  ASSUME NEW r, ComesInChunks(r), r.chunks \in Seq(Range(r.chunks))
  PROVE  Chunked(r.chunks)
<1> DEFINE s == r.chunks
           l == Len(s)
<1>1. s \in Seq(Range(s))
  OBVIOUS
<1>2. l \in Nat /\ DOMAIN s = 1..l
  <2> HIDE DEF s
  <2> QED BY <1>1, LenProperties
<1> QED BY <1>2 DEF ComesInChunks, Chunked

LEMMA BeginningIsPrefix ==
  ASSUME NEW s, NEW t, IsSequence(s), Begins(s, t)
  PROVE  Len(s) \in Nat /\ Len(t) \in Nat /\ Len(s) <= Len(t) /\ s = SubSeq(t, 1, Len(s))
<1>1. PICK u : IsSequence(u) /\ t = s \o u
  BY DEF Begins
<1>2. Len(t) = Len(s) + Len(u) /\ Len(s) \in Nat /\ Len(u) \in Nat
  BY <1>1, Joint, SequenceShape
<1>3. SubSeq(t, 1, Len(s)) = s
  BY <1>1, PartsOfJoint
<1> QED BY <1>2, <1>3

(* The text held is a beginning of the reply's.                            *)
LEMMA TextHeld ==
  ASSUME NEW r, ComesInChunks(r), r.chunks \in Seq(Range(r.chunks)), NEW n \in Nat, Holds(r.chunks, n)
  PROVE  IsSequence(text) /\ Begins(text, r.text)
<1> DEFINE s == r.chunks
<1>1. Chunked(s)
  BY ComesChunked
<1>2. Len(s) \in Nat /\ n \in 0..Len(s) /\ text = AddsUp(s)[n].text /\ r.text = AddsUp(s)[Len(s)].text
  BY <1>1 DEF Holds, ComesInChunks, Chunked
<1> HIDE DEF s
<1>3. SumUpTo(s, Len(s))
  BY <1>1, <1>2, SumsUp
<1> QED BY <1>2, <1>3 DEF SumUpTo

(* What is held when the stream ends is the beginning of the text and no   *)
(* call, or all of it.                                                     *)
LEMMA AnswerIsMeant ==
  ASSUME NEW r, ComesInChunks(r), r.chunks \in Seq(Range(r.chunks)), NEW n \in Nat, Holds(r.chunks, n)
  PROVE  \/ Assembled = <<>> /\ \E k \in 0..Len(r.text) : text = SubSeq(r.text, 1, k)
         \/ Assembled = Meant(r) /\ text = r.text
<1> DEFINE s == r.chunks
           l == Len(s)
<1>1. Chunked(s)
  BY ComesChunked
<1>2. /\ l \in Nat /\ n \in 0..l
      /\ text = AddsUp(s)[n].text /\ calls = AddsUp(s)[n].calls /\ finish = AddsUp(s)[n].finish
      /\ r.text = AddsUp(s)[l].text /\ r.calls = ByIndex(AddsUp(s)[l].calls) /\ r.reason = AddsUp(s)[l].finish
  BY <1>1 DEF Holds, ComesInChunks, Chunked
<1> HIDE DEF s, l
<1>3. CASE Assembled = <<>>
  <2>1. IsSequence(text) /\ Begins(text, r.text)
    BY TextHeld
  <2>2. Len(text) \in 0..Len(r.text) /\ text = SubSeq(r.text, 1, Len(text))
    BY <2>1, BeginningIsPrefix
  <2> QED BY <1>3, <2>2
<1>4. CASE Assembled # <<>>
  <2>1. finish = "tool_calls" /\ (\A i \in DOMAIN calls : Whole(calls[i])) /\ Assembled = Named(ByIndex(calls))
    BY <1>4 DEF Assembled, CompleteToolCalls
  <2>2. AddsUp(s)[n].finish # "unknown"
    BY <1>2, <2>1
  <2>3. text = r.text /\ r.calls = ByIndex(calls) /\ r.reason = "tool_calls"
    <3>1. AddsUp(s)[n].text = AddsUp(s)[l].text /\ AddsUp(s)[n].calls = AddsUp(s)[l].calls
            /\ AddsUp(s)[n].finish = AddsUp(s)[l].finish
      BY <1>1, <1>2, <2>2, NothingAfterTheReason DEF l
    <3> QED BY <1>2, <2>1, <3>1
  <2>4. IsFiniteSet(DOMAIN calls) /\ DOMAIN calls \in SUBSET Nat
    BY <1>1, <1>2, SumsUp DEF SumUpTo, l
  <2>5. \A k \in DOMAIN r.calls : r.calls[k].args = <<"{", "}">>
    <3>1. SUFFICES ASSUME NEW k \in 1..Cardinality(DOMAIN calls)  PROVE ByIndex(calls)[k].args = <<"{", "}">>
      BY <2>3 DEF ByIndex
    <3>2. Nth(DOMAIN calls, k) \in DOMAIN calls
      BY <2>4, NthIsThere
    <3>3. Whole(calls[Nth(DOMAIN calls, k)])
      BY <2>1, <3>2
    <3>4. ByIndex(calls)[k] = calls[Nth(DOMAIN calls, k)]
      BY DEF ByIndex
    <3> QED BY <3>3, <3>4 DEF Whole, IsObject
  <2>6. Meant(r) = [k \in DOMAIN r.calls |-> [id |-> r.calls[k].id, name |-> r.calls[k].name]]
    BY <2>3, <2>5 DEF Meant
  <2>7. Named(r.calls) = [k \in DOMAIN r.calls |-> [id |-> r.calls[k].id, name |-> r.calls[k].name]]
    BY DEF Named
  <2> QED BY <2>1, <2>3, <2>6, <2>7
<1> QED BY <1>3, <1>4

(* A piece of text more is a piece of the reply's.                         *)
LEMMA TextFits ==
  ASSUME NEW r, ComesInChunks(r), r.chunks \in Seq(Range(r.chunks)), Len(r.text) <= MaxText,
         NEW n \in Nat, Holds(r.chunks, n), n + 1 \in DOMAIN r.chunks, r.chunks[n + 1].kind = "text"
  PROVE  Len(text) < MaxText
<1> DEFINE s == r.chunks
           l == Len(s)
           e == s[n + 1].text
<1>1. Chunked(s)
  BY ComesChunked
<1>2. /\ l \in Nat /\ n + 1 \in 1..l /\ n + 1 \in 0..l /\ s[n + 1].kind = "text"
      /\ text = AddsUp(s)[n].text /\ r.text = AddsUp(s)[l].text
  BY <1>1 DEF Holds, ComesInChunks, Chunked
<1>3. AddsUp(s)[n + 1] = Added(AddsUp(s)[n], s[n + 1])
  <2>1. (n + 1) - 1 = n
    OBVIOUS
  <2>2. \A k \in 1..Len(s) : AddsUp(s)[k] = Added(AddsUp(s)[k - 1], s[k])
    BY <1>2, AddsUpChunkByChunk
  <2> HIDE DEF s
  <2> QED BY <1>2, <2>1, <2>2
<1> HIDE DEF s, e
<1>4. AddsUp(s)[n + 1].text = Append(text, e)
  BY <1>2, <1>3 DEF Added, e
<1>5. SumUpTo(s, l)
  BY <1>1, <1>2, SumsUp
<1>6. IsSequence(Append(text, e)) /\ Begins(Append(text, e), r.text)
  BY <1>2, <1>4, <1>5 DEF SumUpTo
<1>7. Len(Append(text, e)) = Len(text) + 1 /\ Len(text) \in Nat
  <2>1. IsSequence(text)
    BY TextHeld
  <2>2. Append(text, e) = text \o <<e>> /\ IsSequence(<<e>>) /\ Len(<<e>>) = 1
    BY <2>1, OneMore, SingleIsSequence
  <2>3. Len(text \o <<e>>) = Len(text) + Len(<<e>>)
    BY <2>1, <2>2, Joint
  <2> QED BY <2>1, <2>2, <2>3, SequenceShape
<1>8. Len(Append(text, e)) <= Len(r.text) /\ Len(r.text) \in Nat
  BY <1>6, BeginningIsPrefix
<1>9. MaxText \in Nat
  BY ScenesAssumption
<1> QED BY <1>7, <1>8, <1>9

(* Every step keeps it.                                                    *)

LEMMA SceneFacts ==
  ASSUME scene \in DOMAIN Scenes
  PROVE  /\ The.retries \in Nat /\ (The.endless = TRUE \/ The.endless = FALSE)
         /\ The.replies \subseteq AllReplies
         /\ \A e \in The.errors : Failure(e) \in Items
<1>1. The.retries \in Nat /\ The.endless \in BOOLEAN
  BY ScenesAssumption DEF The
<1>2. The.replies \subseteq AllReplies
  BY DEF AllReplies, The
<1>3. \A e \in The.errors : Failure(e) \in Items
  <2>1. The.errors \subseteq AllErrors
    BY DEF AllErrors, The
  <2> QED BY <2>1 DEF Items
<1> QED BY <1>1, <1>2, <1>3

LEMMA ReplyFacts ==
  ASSUME scene \in DOMAIN Scenes, NEW r \in The.replies
  PROVE  /\ r.chunks \in Seq(Range(r.chunks))
         /\ Streaming => /\ ComesInChunks(r)
                         /\ The.endless = TRUE => r.chunks # <<>> /\ "cut" \notin The.faults
                         /\ The.endless = FALSE => Len(r.text) <= MaxText
         /\ The.provider = "anthropic" => Meant(r) = Named(r.calls)
<1> DEFINE s == Scenes[scene]
<1>1. /\ r.chunks \in Seq(Range(r.chunks))
      /\ s.provider = "streaming" =>
           /\ ComesInChunks(r)
           /\ IF s.endless THEN r.chunks # <<>> /\ "cut" \notin s.faults ELSE Len(r.text) <= MaxText
      /\ s.provider = "anthropic" => Meant(r) = Named(r.calls)
  BY RepliesAssumption DEF The
<1>2. The = s /\ (Streaming <=> s.provider = "streaming")
  BY DEF The, Streaming
<1> HIDE DEF s
<1> QED BY <1>1, <1>2

LEMMA ChunksAreItems ==
  ASSUME NEW r \in AllReplies
  PROVE  r.chunks \in Seq(Items) /\ Connection(r) \in Exchange
<1>1. r.chunks \in Seq(Range(r.chunks))
  <2>1. CASE r = NoReply
    <3> DEFINE S == Range(r.chunks)
    <3>1. r.chunks = <<>>
      BY <2>1 DEF NoReply
    <3> HIDE DEF S
    <3>2. <<>> \in Seq(S)
      OBVIOUS
    <3> QED BY <3>1, <3>2 DEF S
  <2>2. CASE r # NoReply
    <3>1. PICK n \in DOMAIN Scenes : r \in Scenes[n].replies
      BY <2>2 DEF AllReplies
    <3> QED BY <3>1, RepliesAssumption
  <2> QED BY <2>1, <2>2
<1>2. Range(r.chunks) \subseteq Items
  BY DEF Items
<1> DEFINE s == r.chunks
           R == Range(r.chunks)
<1>3. s \in Seq(Items)
  <2>1. s \in Seq(R) /\ R \subseteq Items
    BY <1>1, <1>2
  <2> HIDE DEF s, R
  <2>2. Len(s) \in Nat /\ s \in [1..Len(s) -> R]
    BY <2>1, LenProperties
  <2>3. s \in [1..Len(s) -> Items]
    BY <2>1, <2>2
  <2> QED BY <2>2, <2>3, SeqDef
<1>4. <<>> \in Seq(Items)
  OBVIOUS
<1>5. Connection(r) \in Exchange
  <2> HIDE DEF s, R
  <2> QED BY <1>3, <1>4 DEF Connection, Exchange, s
<1> QED BY <1>3, <1>5

LEMMA OneRequestChanges ==
  ASSUME requests \in Seq(Exchange), NEW i \in DOMAIN requests, NEW d \in Exchange,
         requests' = [requests EXCEPT ![i] = d]
  PROVE  /\ requests' \in Seq(Exchange) /\ Len(requests') = Len(requests) /\ DOMAIN requests' = DOMAIN requests
         /\ requests'[i] = d /\ \A j \in DOMAIN requests : j # i => requests'[j] = requests[j]
OBVIOUS

LEMMA NewestIsThere ==
  ASSUME requests \in Seq(Exchange), requests # <<>>
  PROVE  Newest \in DOMAIN requests /\ requests[Newest] \in Exchange
<1>1. Len(requests) \in Nat \ {0} /\ DOMAIN requests = 1..Len(requests)
  BY EmptySeq, LenProperties
<1> QED BY <1>1 DEF Newest

LEMMA CallInit == Init => CallInv
<1> SUFFICES ASSUME Init  PROVE CallInv
  OBVIOUS
<1>1. scene \in DOMAIN Scenes /\ pc = "send" /\ requests = <<>> /\ attempt = 0 /\ compacted = FALSE /\ outcome = "open"
  BY DEF Init
<1>2. requests \in Seq(Exchange) /\ Len(requests) = 0
  BY <1>1
<1>3. The.retries \in Nat
  BY <1>1, SceneFacts
<1>4. Counted
  <2>1. 0 <= 0 + 0 + 0
    OBVIOUS
  <2>2. attempt \in 0..The.retries
    BY <1>1, <1>3
  <2>3. compacted \in BOOLEAN /\ compacted # TRUE
    BY <1>1
  <2> QED BY <1>1, <1>2, <2>1, <2>2, <2>3 DEF Counted
<1>5. Answering
  BY <1>1 DEF Answering
<1> QED BY <1>1, <1>2, <1>4, <1>5 DEF CallInv

(* A step that leaves the reply for good or for another attempt.           *)
LEMMA TheEndIsCounted ==
  ASSUME CallInv, scene' = scene, requests' \in Seq(Exchange), Len(requests') = Len(requests),
         UNCHANGED <<attempt, compacted>>, pc' \in {"raise", "done"}, outcome' = "open" <=> pc' # "done"
  PROVE  CallInv'
<1>1. The' = The /\ The.retries \in Nat
  BY SceneFacts DEF CallInv, The
<1>2. Counted'
  <2> DEFINE base == IF compacted = TRUE THEN The.retries + 1 ELSE 0
             l == Len(requests)
             w == IF pc = "send" THEN 0 ELSE 1
  <2>1. attempt \in 0..The.retries /\ compacted \in BOOLEAN /\ l <= base + attempt + w
    BY DEF CallInv, Counted
  <2>2. l \in Nat /\ base \in Nat /\ attempt \in Nat /\ w \in 0..1
    BY <1>1, <2>1 DEF CallInv
  <2> HIDE DEF base, l, w
  <2>3. l <= base + attempt + 1
    BY <2>1, <2>2
  <2>4. attempt' = attempt /\ compacted' = compacted /\ Len(requests') = l /\ pc' # "send"
    BY DEF l
  <2> QED BY <1>1, <2>1, <2>3, <2>4 DEF Counted, base
<1>3. Answering'
  BY DEF Answering
<1> QED BY <1>2, <1>3 DEF CallInv

(* A step that changes one request, at most, and nothing of the call.      *)
LEMMA OneMoves ==
  ASSUME CallInv, NEW i \in DOMAIN requests, NEW d \in Exchange, requests' = [requests EXCEPT ![i] = d],
         d.reply = requests[i].reply, UNCHANGED <<scene, pc, attempt, compacted, outcome>>,
         pc = "started" => i # Newest /\ UNCHANGED <<text, calls, finish>>,
         pc = "finish" => UNCHANGED <<text, calls, finish>>,
         pc = "get" => (IF i = Newest THEN Underway(d)' ELSE UNCHANGED <<text, calls, finish>>)
  PROVE  CallInv'
<1>1. /\ requests' \in Seq(Exchange) /\ Len(requests') = Len(requests) /\ DOMAIN requests' = DOMAIN requests
      /\ requests'[i] = d /\ \A j \in DOMAIN requests : j # i => requests'[j] = requests[j]
  BY OneRequestChanges DEF CallInv
<1>2. The' = The /\ Newest' = Newest /\ (Streaming' <=> Streaming)
  BY <1>1 DEF The, Newest, Streaming
<1>3. Counted'
  BY <1>1, <1>2 DEF CallInv, Counted
<1>4. requests' # <<>> /\ requests # <<>>
  BY <1>1
<1>5. Newest \in DOMAIN requests
  BY <1>4, NewestIsThere DEF CallInv
<1>6. requests'[Newest].reply = requests[Newest].reply /\ (i # Newest => requests'[Newest] = requests[Newest])
  BY <1>1, <1>5
<1>7. pc' \in {"started", "get", "finish", "reply"} =>
        requests' # <<>> /\ requests'[Newest].reply \in The.replies /\ (pc = "reply" <=> ~Streaming)
  BY <1>4, <1>6 DEF CallInv, Answering
<1>8. pc = "started" => /\ text' = <<>> /\ calls' = <<>> /\ finish' = "unknown"
                        /\ requests'[Newest] = Connection(requests'[Newest].reply)
  BY <1>6 DEF CallInv, Answering
<1>9. pc = "get" => (Underway(requests[Newest]))'
  <2>1. ASSUME pc = "get", i = Newest  PROVE (Underway(requests[Newest]))'
    <3>1. Underway(d)'
      BY <2>1
    <3>2. requests'[Newest'] = d
      BY <1>1, <1>2, <2>1
    <3>3. \A c : c = d => ((Underway(c))' <=> (Underway(d))')
      OBVIOUS
    <3> QED BY <3>1, <3>2, <3>3
  <2>2. ASSUME pc = "get", i # Newest  PROVE (Underway(requests[Newest]))'
    <3> DEFINE c == requests[Newest]
    <3>1. Underway(c) /\ requests'[Newest] = c /\ UNCHANGED <<text, calls, finish>>
      BY <1>6, <2>2 DEF CallInv, Answering
    <3>2. \A k, n : (Holds(k, n))' <=> Holds(k, n)
      BY <3>1 DEF Holds
    <3> HIDE DEF c
    <3>3. requests'[Newest'] = c
      BY <1>2, <3>1
    <3> HIDE DEF c
    <3>4. (Underway(requests[Newest]))' <=> Underway(c)
      BY <1>2, <3>2, <3>3 DEF Underway
    <3> QED BY <3>1, <3>4
  <2> QED BY <2>1, <2>2
<1>10. pc = "finish" => The.endless = FALSE /\ \E n \in Nat : (Holds(requests[Newest].reply.chunks, n))'
  <2> SUFFICES ASSUME pc = "finish"  PROVE The.endless = FALSE /\ \E n \in Nat : (Holds(requests[Newest].reply.chunks, n))'
    OBVIOUS
  <2>1. PICK n \in Nat : Holds(requests[Newest].reply.chunks, n)
    BY DEF CallInv, Answering
  <2>2. (Holds(requests[Newest].reply.chunks, n))'
    BY <1>2, <1>6, <2>1 DEF Holds
  <2> QED BY <2>2 DEF CallInv, Answering
<1>11. Answering'
  BY <1>2, <1>7, <1>8, <1>9, <1>10 DEF Answering
<1> QED BY <1>1, <1>3, <1>11 DEF CallInv

(* What is first in a queue, and what comes after it.                      *)
Splits(s, h, t) ==
  /\ 1 \in DOMAIN s /\ h = s[1] /\ Len(s) \in Nat /\ Len(s) = Len(t) + 1 /\ Len(t) \in Nat
  /\ \A n \in DOMAIN t : n + 1 \in DOMAIN s /\ t[n] = s[n + 1] /\ n \in Nat \ {0}
  /\ \A n \in DOMAIN s : n = 1 \/ (n - 1 \in DOMAIN t /\ t[n - 1] = s[n] /\ n \in Nat)

LEMMA FirstAndRest ==
  ASSUME NEW S, NEW s \in Seq(S), s # <<>>
  PROVE  Splits(s, Head(s), Tail(s)) /\ Tail(s) \in Seq(S) /\ Head(s) \in S
<1> DEFINE t == Tail(s)
           l == Len(s)
<1>1. /\ DOMAIN s = 1..l /\ l \in Nat \ {0} /\ Head(s) = s[1]
      /\ t \in Seq(S) /\ Len(t) = l - 1 /\ \A n \in 1..(l - 1) : t[n] = s[n + 1]
  BY HeadTailProperties
<1>2. DOMAIN t = 1..(l - 1)
  BY <1>1
<1> HIDE DEF t, l
<1>3. \A n \in DOMAIN t : n + 1 \in DOMAIN s /\ t[n] = s[n + 1] /\ n \in Nat \ {0}
  BY <1>1, <1>2
<1>4. ASSUME NEW n \in DOMAIN s, n # 1  PROVE n - 1 \in DOMAIN t /\ t[n - 1] = s[n] /\ n \in Nat
  <2>1. n - 1 \in 1..(l - 1) /\ (n - 1) + 1 = n /\ n \in Nat
    BY <1>1, <1>4
  <2> QED BY <1>1, <1>2, <2>1
<1>5. 1 \in DOMAIN s /\ Len(s) \in Nat /\ Len(s) = Len(t) + 1 /\ Len(t) \in Nat
  BY <1>1 DEF l
<1>6. Splits(s, Head(s), t)
  BY <1>1, <1>3, <1>4, <1>5 DEF Splits
<1>7. Head(s) \in S
  BY <1>1
<1> QED BY <1>1, <1>6, <1>7 DEF t

(* The queue without its first, which is no sign of the end.               *)
LEMMA FailureStillComes ==
  ASSUME NEW c, NEW d, NEW h, EndsInFailure(c), Splits(c.queue, h, d.queue), ~ Sign(h),
         d.left = c.left, d.worker = c.worker, d.reply = c.reply
  PROVE  EndsInFailure(d)
<1> DEFINE q == c.queue
           t == d.queue
<1>1. /\ h = q[1]
      /\ \A n \in DOMAIN t : n + 1 \in DOMAIN q /\ t[n] = q[n + 1] /\ n \in Nat \ {0}
      /\ \A n \in DOMAIN q : n = 1 \/ (n - 1 \in DOMAIN t /\ t[n - 1] = q[n] /\ n \in Nat)
  BY DEF Splits
<1>2. /\ c.worker \in {"end", "gone"} => \E k \in DOMAIN q : q[k].kind = "failure"
      /\ \A k \in DOMAIN q : q[k].kind = "ended" => \E m \in DOMAIN q : m < k /\ q[m].kind = "failure"
      /\ c.left = c.reply.chunks
  BY DEF EndsInFailure
<1>3. h.kind # "failure" /\ h.kind # "ended"
  BY DEF Sign
<1> HIDE DEF q, t
<1>4. ASSUME NEW k \in DOMAIN q, q[k].kind = "failure"
      PROVE  k - 1 \in DOMAIN t /\ t[k - 1].kind = "failure" /\ k \in Nat
  BY <1>1, <1>3, <1>4
<1>5. c.worker \in {"end", "gone"} => \E k \in DOMAIN t : t[k].kind = "failure"
  BY <1>2, <1>4
<1>6. ASSUME NEW k \in DOMAIN t, t[k].kind = "ended"
      PROVE  \E m \in DOMAIN t : m < k /\ t[m].kind = "failure"
  <2>1. k + 1 \in DOMAIN q /\ q[k + 1].kind = "ended" /\ k \in Nat
    BY <1>1, <1>6
  <2>2. PICK m \in DOMAIN q : m < k + 1 /\ q[m].kind = "failure"
    BY <1>2, <2>1
  <2>3. m - 1 \in DOMAIN t /\ t[m - 1].kind = "failure" /\ m \in Nat
    BY <1>4, <2>2
  <2>4. m - 1 < k
    BY <2>1, <2>2, <2>3
  <2> QED BY <2>3, <2>4
<1> QED BY <1>2, <1>5, <1>6 DEF EndsInFailure, t

LEMMA OneFurther ==
  ASSUME NEW c, NEW d, NEW h, NEW n \in Nat, InOrder(c, n), Splits(c.queue, h, d.queue), ~ Sign(h),
         d.left = c.left, d.worker = c.worker, d.reply = c.reply
  PROVE  InOrder(d, n + 1) /\ n + 1 \in DOMAIN c.reply.chunks /\ h = c.reply.chunks[n + 1]
<1> DEFINE q == c.queue
           t == d.queue
           r == c.reply.chunks
           l == c.left
<1>1. /\ 1 \in DOMAIN q /\ h = q[1] /\ Len(q) = Len(t) + 1 /\ Len(t) \in Nat
      /\ \A k \in DOMAIN t : k + 1 \in DOMAIN q /\ t[k] = q[k + 1] /\ k \in Nat \ {0}
  BY DEF Splits
<1>2. /\ \A k \in DOMAIN q : Sign(q[k]) \/ (n + k \in DOMAIN r /\ q[k] = r[n + k])
      /\ c.worker = "next" => Len(l) + (n + Len(q)) = Len(r) /\ \A k \in DOMAIN l : l[k] = r[(n + Len(q)) + k]
  BY DEF InOrder
<1> HIDE DEF q, t, r, l
<1>3. n + 1 \in DOMAIN r /\ h = r[n + 1]
  BY <1>1, <1>2
<1>4. ASSUME NEW k \in DOMAIN t, ~ Sign(t[k])  PROVE (n + 1) + k \in DOMAIN r /\ t[k] = r[(n + 1) + k]
  <2>1. k + 1 \in DOMAIN q /\ t[k] = q[k + 1] /\ k \in Nat
    BY <1>1
  <2>2. n + (k + 1) \in DOMAIN r /\ t[k] = r[n + (k + 1)]
    BY <1>2, <1>4, <2>1
  <2>3. n + (k + 1) = (n + 1) + k
    BY <2>1
  <2> QED BY <2>2, <2>3
<1>5. n + Len(q) = (n + 1) + Len(t)
  BY <1>1
<1>6. c.worker = "next" => Len(l) + ((n + 1) + Len(t)) = Len(r) /\ \A k \in DOMAIN l : l[k] = r[((n + 1) + Len(t)) + k]
  BY <1>2, <1>5
<1> QED BY <1>3, <1>4, <1>6 DEF InOrder, q, t, r, l

(* What the coroutine holds after one chunk more.                          *)
GoesOn(h) ==
  /\ text'   = IF h.kind = "text" THEN Append(text, h.text) ELSE text
  /\ calls'  = IF h.kind = "tool" /\ h.index # NoIndex THEN Accumulated(calls, h) ELSE calls
  /\ finish' = IF h.kind = "finish" THEN h.reason ELSE finish

LEMMA HoldsOneMore ==
  ASSUME NEW s, Len(s) \in Nat, DOMAIN s = 1..Len(s), NEW n \in Nat, Holds(s, n), n + 1 \in DOMAIN s, GoesOn(s[n + 1])
  PROVE  (Holds(s, n + 1))'
<1> DEFINE p == AddsUp(s)
           h == s[n + 1]
<1>1. text = p[n].text /\ calls = p[n].calls /\ finish = p[n].finish
  BY DEF Holds
<1>2. p[n + 1] = Added(p[n], h)
  <2>1. n + 1 \in 1..Len(s) /\ (n + 1) - 1 = n
    OBVIOUS
  <2>2. \A k \in 1..Len(s) : AddsUp(s)[k] = Added(AddsUp(s)[k - 1], s[k])
    BY AddsUpChunkByChunk
  <2>3. AddsUp(s)[n + 1] = Added(AddsUp(s)[(n + 1) - 1], s[n + 1])
    BY <2>1, <2>2
  <2> QED BY <2>1, <2>3
<1>3. n + 1 \in 0..Len(s)
  OBVIOUS
<1> HIDE DEF p, h
<1>4. /\ p[n + 1].text   = IF h.kind = "text" THEN Append(p[n].text, h.text) ELSE p[n].text
      /\ p[n + 1].calls  = IF h.kind = "tool" /\ h.index # NoIndex THEN Accumulated(p[n].calls, h) ELSE p[n].calls
      /\ p[n + 1].finish = IF h.kind = "finish" THEN h.reason ELSE p[n].finish
  BY <1>2 DEF Added
<1>5. GoesOn(h)
  BY DEF h
<1>6. text' = p[n + 1].text
  BY <1>1, <1>4, <1>5 DEF GoesOn
<1>7. calls' = p[n + 1].calls
  BY <1>1, <1>4, <1>5 DEF GoesOn
<1>8. finish' = p[n + 1].finish
  BY <1>1, <1>4, <1>5 DEF GoesOn
<1> QED BY <1>3, <1>6, <1>7, <1>8 DEF Holds, p

LEMMA NextInQueue ==
  ASSUME CallInv, pc = "get", Queue # <<>>
  PROVE  /\ requests[Newest] \in Exchange /\ Newest \in DOMAIN requests /\ Underway(requests[Newest])
         /\ Splits(Queue, Head(Queue), Tail(Queue)) /\ Tail(Queue) \in Seq(Items) /\ Head(Queue) \in Items
         /\ requests[Newest].reply \in The.replies /\ Streaming /\ requests[Newest].reply.chunks \in Seq(Items)
<1>1. requests # <<>> /\ requests[Newest].reply \in The.replies /\ Streaming /\ Underway(requests[Newest])
  BY DEF CallInv, Answering
<1>2. Newest \in DOMAIN requests /\ requests[Newest] \in Exchange
  BY <1>1, NewestIsThere DEF CallInv
<1>3. Queue \in Seq(Items) /\ requests[Newest].reply \in AllReplies
  BY <1>2 DEF Exchange, Queue
<1>4. requests[Newest].reply.chunks \in Seq(Items)
  BY <1>3, ChunksAreItems
<1> QED BY <1>1, <1>2, <1>3, <1>4, FirstAndRest

LEMMA TakingKeeps ==
  ASSUME CallInv, pc = "get", Queue # <<>>, Taken, ~ Sign(Head(Queue)),
         UNCHANGED <<scene, pc, attempt, compacted, outcome>>, The.endless = FALSE => GoesOn(Head(Queue))
  PROVE  CallInv'
<1> DEFINE c == requests[Newest]
           h == Head(Queue)
           t == Tail(Queue)
<1>1. /\ c \in Exchange /\ Newest \in DOMAIN requests /\ Underway(c) /\ Splits(c.queue, h, t) /\ t \in Seq(Items)
      /\ c.reply.chunks \in Seq(Items) /\ ~ Sign(h) /\ (The.endless = FALSE => GoesOn(h))
  <2>1. Splits(Queue, h, t) /\ t \in Seq(Items) /\ c \in Exchange /\ Newest \in DOMAIN requests /\ Underway(c)
        /\ c.reply.chunks \in Seq(Items)
    BY NextInQueue
  <2> HIDE DEF h, t, c
  <2>2. Queue = c.queue
    BY DEF Queue, c
  <2>3. ~ Sign(h) /\ (The.endless = FALSE => GoesOn(h))
    BY DEF h
  <2> QED BY <2>1, <2>2, <2>3
<1>2. PICK d : d = [c EXCEPT !.queue = t]
  OBVIOUS
<1>3. requests' = [requests EXCEPT ![Newest] = d]
  BY <1>2 DEF Taken
<1> HIDE DEF c, h, t
<1>4. /\ d \in Exchange /\ d.queue = t /\ d.left = c.left /\ d.worker = c.worker /\ d.reply = c.reply
      /\ d.stop = c.stop /\ d.closed = c.closed
  <2>1. d.queue = t /\ d.left = c.left /\ d.worker = c.worker /\ d.reply = c.reply /\ d.stop = c.stop /\ d.closed = c.closed
    BY <1>1, <1>2 DEF Exchange
  <2>2. d \in Exchange
    BY <1>1, <1>2 DEF Exchange
  <2> QED BY <2>1, <2>2
<1>5. The' = The /\ (The.endless = TRUE \/ The.endless = FALSE)
  BY SceneFacts DEF CallInv, The
<1>6. Splits(c.queue, h, d.queue)
  BY <1>1, <1>4
<1>7. d.worker = "next" => d.closed = FALSE /\ \A k \in DOMAIN d.queue : ~ Sign(d.queue[k])
  BY <1>1, <1>4, <1>6 DEF Underway, Splits
<1>8. CASE The.endless = TRUE
  <2>1. EndsInFailure(c)
    BY <1>1, <1>8 DEF Underway
  <2>2. EndsInFailure(d)
    BY <1>1, <1>4, <1>6, <2>1, FailureStillComes
  <2>3. Underway(d)'
    BY <1>1, <1>4, <1>5, <1>7, <1>8, <2>2 DEF Underway
  <2> QED BY <1>1, <1>3, <1>4, <2>3, OneMoves DEF c
<1>9. CASE The.endless = FALSE
  <2>1. PICK n \in Nat : Holds(c.reply.chunks, n) /\ InOrder(c, n)
    BY <1>1, <1>9 DEF Underway
  <2>2. InOrder(d, n + 1) /\ n + 1 \in DOMAIN c.reply.chunks /\ h = c.reply.chunks[n + 1]
    BY <1>1, <1>4, <1>6, <2>1, OneFurther
  <2>3. (Holds(d.reply.chunks, n + 1))'
    <3>1. PICK r : r = c.reply.chunks /\ r = d.reply.chunks
      BY <1>4
    <3>2. Len(r) \in Nat /\ DOMAIN r = 1..Len(r)
      BY <1>1, <3>1, LenProperties
    <3>3. GoesOn(r[n + 1]) /\ Holds(r, n) /\ n + 1 \in DOMAIN r
      BY <1>1, <1>9, <2>1, <2>2, <3>1
    <3>4. (Holds(r, n + 1))'
      BY <3>2, <3>3, HoldsOneMore
    <3> QED BY <3>1, <3>4
  <2>4. Underway(d)'
    BY <1>1, <1>4, <1>5, <1>7, <1>9, <2>2, <2>3 DEF Underway
  <2> QED BY <1>1, <1>3, <1>4, <2>4, OneMoves DEF c
<1> QED BY <1>5, <1>8, <1>9

(* A queue and one thing more.                                             *)
OneLonger(s, e, t) ==
  /\ Len(s) \in Nat /\ Len(t) = Len(s) + 1
  /\ \A k \in DOMAIN s : k \in DOMAIN t /\ t[k] = s[k] /\ k \in Nat /\ k <= Len(s)
  /\ Len(s) + 1 \in DOMAIN t /\ t[Len(s) + 1] = e
  /\ \A k \in DOMAIN t : k \in DOMAIN s \/ k = Len(s) + 1

LEMMA AddedLast ==
  ASSUME NEW S, NEW s \in Seq(S), NEW e \in S
  PROVE  OneLonger(s, e, Append(s, e)) /\ Append(s, e) \in Seq(S)
<1> DEFINE t == Append(s, e)
           l == Len(s)
<1>1. /\ t \in Seq(S) /\ Len(t) = l + 1
      /\ \A k \in 1..l : t[k] = s[k]
      /\ t[l + 1] = e
  BY AppendProperties
<1>2. l \in Nat /\ DOMAIN s = 1..l
  BY LenProperties
<1>3. DOMAIN t = 1..(l + 1)
  BY <1>1, LenProperties
<1> HIDE DEF t, l
<1>4. \A k \in 1..l : k \in 1..(l + 1) /\ k \in Nat /\ k <= l
  BY <1>2
<1>5. \A k \in 1..(l + 1) : k \in 1..l \/ k = l + 1
  BY <1>2
<1>6. l + 1 \in 1..(l + 1)
  BY <1>2
<1> QED BY <1>1, <1>2, <1>3, <1>4, <1>5, <1>6 DEF OneLonger, t, l

(* What the thread does to a connection the coroutine reads from.          *)
Same(c, d) == d.reply = c.reply /\ d.stop = c.stop

Takes(c, d, h, t) ==
  /\ c.worker = "next" /\ d.worker = "next" /\ d.closed = c.closed /\ Same(c, d)
  /\ OneLonger(c.queue, h, d.queue) /\ Splits(c.left, h, t) /\ d.left \in {c.left, t}

Halts(c, d, w) == c.worker # "none" /\ d.worker = w /\ w \in {"end", "gone"} /\ Same(c, d) /\ d.left = c.left

LEMMA TakesInOrder ==
  ASSUME NEW c, NEW d, NEW h, NEW t, NEW n \in Nat, InOrder(c, n), Takes(c, d, h, t), d.left = t,
         Len(c.reply.chunks) \in Nat, DOMAIN c.reply.chunks = 1..Len(c.reply.chunks)
  PROVE  InOrder(d, n) /\ h \in Range(c.reply.chunks)
<1> DEFINE q == c.queue
           p == d.queue
           r == c.reply.chunks
           l == c.left
<1>1. /\ \A k \in DOMAIN q : Sign(q[k]) \/ (n + k \in DOMAIN r /\ q[k] = r[n + k])
      /\ Len(l) + (n + Len(q)) = Len(r) /\ \A k \in DOMAIN l : l[k] = r[(n + Len(q)) + k]
  BY DEF InOrder, Takes
<1>2. /\ Len(q) \in Nat /\ Len(p) = Len(q) + 1
      /\ \A k \in DOMAIN q : p[k] = q[k]
      /\ p[Len(q) + 1] = h
      /\ \A k \in DOMAIN p : k \in DOMAIN q \/ k = Len(q) + 1
  BY DEF Takes, OneLonger
<1>3. /\ 1 \in DOMAIN l /\ h = l[1] /\ Len(l) = Len(t) + 1 /\ Len(t) \in Nat
      /\ \A k \in DOMAIN t : k + 1 \in DOMAIN l /\ t[k] = l[k + 1] /\ k \in Nat \ {0}
  BY DEF Takes, Splits
<1>4. Len(r) \in Nat /\ DOMAIN r = 1..Len(r) /\ d.reply.chunks = r
  BY DEF Takes, Same
<1> HIDE DEF q, p, r, l
<1>5. (n + Len(q)) + 1 \in DOMAIN r /\ h = r[(n + Len(q)) + 1]
  BY <1>1, <1>2, <1>3, <1>4
<1>6. (n + Len(q)) + 1 = n + (Len(q) + 1)
  BY <1>2
<1>7. ASSUME NEW k \in DOMAIN p  PROVE Sign(p[k]) \/ (n + k \in DOMAIN r /\ p[k] = r[n + k])
  BY <1>1, <1>2, <1>5, <1>6
<1>8. Len(t) + (n + Len(p)) = Len(r)
  BY <1>1, <1>2, <1>3
<1>9. ASSUME NEW k \in DOMAIN t  PROVE t[k] = r[(n + Len(p)) + k]
  <2>1. k + 1 \in DOMAIN l /\ t[k] = l[k + 1] /\ k \in Nat
    BY <1>3
  <2>2. (n + Len(q)) + (k + 1) = (n + Len(p)) + k
    BY <1>2, <2>1
  <2> QED BY <1>1, <2>1, <2>2
<1>10. InOrder(d, n)
  BY <1>4, <1>7, <1>8, <1>9 DEF InOrder, p
<1>11. h \in Range(r)
  BY <1>5 DEF Range
<1> QED BY <1>10, <1>11 DEF r

LEMMA SignsInOrder ==
  ASSUME NEW c, NEW d, NEW e, NEW w, NEW n \in Nat, InOrder(c, n), Halts(c, d, w),
         d.queue = c.queue \/ (OneLonger(c.queue, e, d.queue) /\ Sign(e))
  PROVE  InOrder(d, n)
<1>1. d.worker # "next" /\ d.reply = c.reply
  BY DEF Halts, Same
<1>2. \A k \in DOMAIN c.queue : Sign(c.queue[k]) \/ (n + k \in DOMAIN c.reply.chunks /\ c.queue[k] = c.reply.chunks[n + k])
  BY DEF InOrder
<1> DEFINE q == c.queue
           p == d.queue
           r == c.reply.chunks
<1> HIDE DEF q, p, r
<1>3. CASE p = q
  BY <1>1, <1>2, <1>3 DEF InOrder, p, q, r
<1>4. CASE OneLonger(q, e, p) /\ Sign(e)
  <2>1. /\ \A k \in DOMAIN q : p[k] = q[k]
        /\ p[Len(q) + 1] = e
        /\ \A k \in DOMAIN p : k \in DOMAIN q \/ k = Len(q) + 1
    BY <1>4 DEF OneLonger
  <2>2. \A k \in DOMAIN p : Sign(p[k]) \/ (n + k \in DOMAIN r /\ p[k] = r[n + k])
    BY <1>2, <1>4, <2>1 DEF q, r
  <2> QED BY <1>1, <2>2 DEF InOrder, p, r
<1> QED BY <1>3, <1>4 DEF p, q

(* A thread that takes chunks for ever still has not failed.               *)
LEMMA TakesForEver ==
  ASSUME NEW c, NEW d, NEW h, NEW t, EndsInFailure(c), Takes(c, d, h, t), d.left = c.left, ~ Sign(h),
         \A k \in DOMAIN c.queue : ~ Sign(c.queue[k])
  PROVE  EndsInFailure(d)
<1>1. d.left = d.reply.chunks /\ d.worker = "next"
  BY DEF Takes, Same, EndsInFailure
<1>2. /\ \A k \in DOMAIN c.queue : d.queue[k] = c.queue[k]
      /\ d.queue[Len(c.queue) + 1] = h
      /\ \A k \in DOMAIN d.queue : k \in DOMAIN c.queue \/ k = Len(c.queue) + 1
  BY DEF Takes, OneLonger
<1>3. \A k \in DOMAIN d.queue : ~ Sign(d.queue[k])
  BY <1>2
<1> QED BY <1>1, <1>3 DEF EndsInFailure, Sign

LEMMA FailsAtLast ==
  ASSUME NEW c, NEW d, NEW e, EndsInFailure(c), Halts(c, d, "end"), c.worker = "next", e.kind = "failure",
         OneLonger(c.queue, e, d.queue), \A k \in DOMAIN c.queue : ~ Sign(c.queue[k])
  PROVE  EndsInFailure(d)
<1>1. d.left = d.reply.chunks
  BY DEF Halts, Same, EndsInFailure
<1>2. /\ \A k \in DOMAIN c.queue : d.queue[k] = c.queue[k]
      /\ Len(c.queue) + 1 \in DOMAIN d.queue /\ d.queue[Len(c.queue) + 1] = e
      /\ \A k \in DOMAIN d.queue : k \in DOMAIN c.queue \/ k = Len(c.queue) + 1
  BY DEF OneLonger
<1>3. \A k \in DOMAIN d.queue : d.queue[k].kind # "ended"
  BY <1>2 DEF Sign
<1> QED BY <1>1, <1>2, <1>3 DEF EndsInFailure

LEMMA GoneAfterFailure ==
  ASSUME NEW c, NEW d, EndsInFailure(c), Halts(c, d, "gone"), c.worker = "end", OneLonger(c.queue, Ended, d.queue)
  PROVE  EndsInFailure(d)
<1> DEFINE q == c.queue
           p == d.queue
           l == Len(c.queue)
<1>1. d.left = d.reply.chunks
  BY DEF Halts, Same, EndsInFailure
<1>2. /\ l \in Nat
      /\ \A k \in DOMAIN q : k \in DOMAIN p /\ p[k] = q[k] /\ k \in Nat /\ k <= l
      /\ \A k \in DOMAIN p : k \in DOMAIN q \/ k = l + 1
  BY DEF OneLonger
<1>3. PICK m \in DOMAIN q : q[m].kind = "failure"
  BY DEF EndsInFailure
<1>4. \A k \in DOMAIN q : q[k].kind = "ended" => \E j \in DOMAIN q : j < k /\ q[j].kind = "failure"
  BY DEF EndsInFailure
<1> HIDE DEF q, p, l
<1>5. m \in DOMAIN p /\ p[m].kind = "failure" /\ m < l + 1
  BY <1>2, <1>3
<1>6. ASSUME NEW k \in DOMAIN p, p[k].kind = "ended"  PROVE \E j \in DOMAIN p : j < k /\ p[j].kind = "failure"
  <2>1. CASE k = l + 1
    BY <1>5, <2>1
  <2>2. CASE k \in DOMAIN q
    BY <1>2, <1>4, <1>6, <2>2
  <2> QED BY <1>2, <2>1, <2>2
<1>7. /\ \E k \in DOMAIN p : p[k].kind = "failure"
      /\ \A k \in DOMAIN p : p[k].kind = "ended" => \E j \in DOMAIN p : j < k /\ p[j].kind = "failure"
  BY <1>5, <1>6
<1> QED BY <1>1, <1>7 DEF EndsInFailure, p

LEMMA ThreadTakes ==
  ASSUME scene \in DOMAIN Scenes, Streaming, UNCHANGED <<scene, text, calls, finish>>,
         NEW c, NEW d, NEW h, NEW t, Underway(c), c.reply \in The.replies, Takes(c, d, h, t),
         The.endless = TRUE => d.left = c.left, The.endless = FALSE => d.left = t
  PROVE  Underway(d)'
<1> DEFINE s == c.reply.chunks
<1>1. s \in Seq(Range(s)) /\ ComesInChunks(c.reply)
  BY ReplyFacts
<1>2. Len(s) \in Nat /\ DOMAIN s = 1..Len(s)
  <2> DEFINE R == Range(s)
  <2>1. s \in Seq(R)
    BY <1>1
  <2> HIDE DEF s, R
  <2> QED BY <2>1, LenProperties
<1>3. \A x \in Range(s) : ~ Sign(x)
  <2>1. \A m \in DOMAIN s : s[m].kind \in {"text", "tool", "finish", "usage", "error"}
    BY <1>1 DEF ComesInChunks
  <2> HIDE DEF s
  <2>2. \A m \in DOMAIN s : ~ Sign(s[m])
    BY <2>1 DEF Sign
  <2> QED BY <2>2 DEF Range
<1>4. /\ d.stop = FALSE /\ d.worker = "next" /\ d.closed = FALSE /\ d.reply = c.reply
      /\ \A k \in DOMAIN c.queue : ~ Sign(c.queue[k])
  BY DEF Underway, Takes, Same
<1>5. The' = The /\ (The.endless = TRUE \/ The.endless = FALSE)
  BY SceneFacts DEF The
<1> HIDE DEF s
<1>6. ASSUME ~ Sign(h)  PROVE \A k \in DOMAIN d.queue : ~ Sign(d.queue[k])
  BY <1>4, <1>6 DEF Takes, OneLonger
<1>7. CASE The.endless = TRUE
  <2>1. EndsInFailure(c)
    BY <1>7 DEF Underway
  <2>2. h \in Range(s)
    BY <2>1 DEF EndsInFailure, Takes, Splits, Range, s
  <2>3. ~ Sign(h)
    BY <1>3, <2>2
  <2>4. EndsInFailure(d)
    BY <1>4, <1>7, <2>1, <2>3, TakesForEver
  <2> QED BY <1>4, <1>5, <1>6, <1>7, <2>3, <2>4 DEF Underway
<1>8. CASE The.endless = FALSE
  <2>1. PICK n \in Nat : Holds(s, n) /\ InOrder(c, n)
    BY <1>8 DEF Underway, s
  <2>2. InOrder(d, n) /\ h \in Range(s)
    BY <1>2, <1>8, <2>1, TakesInOrder DEF s
  <2>3. ~ Sign(h)
    BY <1>3, <2>2
  <2>4. (Holds(d.reply.chunks, n))'
    BY <1>4, <2>1 DEF Holds, s
  <2> QED BY <1>4, <1>5, <1>6, <1>8, <2>2, <2>3, <2>4 DEF Underway
<1> QED BY <1>5, <1>7, <1>8

LEMMA ThreadStops ==
  ASSUME scene \in DOMAIN Scenes, Streaming, UNCHANGED <<scene, text, calls, finish>>,
         NEW c, NEW d, NEW e, NEW w, Underway(c), c.reply \in The.replies, Halts(c, d, w),
         \/ w = "end" /\ c.worker = "next" /\ d.queue = c.queue /\ (c.left = <<>> \/ "cut" \in The.faults \/ c.closed = TRUE)
         \/ w = "end" /\ c.worker = "next" /\ OneLonger(c.queue, e, d.queue) /\ e.kind = "failure"
         \/ w = "gone" /\ c.worker = "end" /\ OneLonger(c.queue, e, d.queue) /\ e = Ended
  PROVE  Underway(d)'
<1>1. d.stop = FALSE /\ d.worker = w /\ w \in {"end", "gone"} /\ d.reply = c.reply
  BY DEF Underway, Halts, Same
<1>2. The' = The /\ (The.endless = TRUE \/ The.endless = FALSE)
  BY SceneFacts DEF The
<1>3. d.queue = c.queue \/ (OneLonger(c.queue, e, d.queue) /\ Sign(e))
  <2>1. Ended.kind = "ended"
    BY DEF Ended
  <2> QED BY <2>1 DEF Sign
<1>4. c.worker = "next" => c.closed = FALSE /\ \A k \in DOMAIN c.queue : ~ Sign(c.queue[k])
  BY DEF Underway
<1>5. CASE The.endless = TRUE
  <2>1. EndsInFailure(c)
    BY <1>5 DEF Underway
  <2>2. c.left # <<>> /\ "cut" \notin The.faults
    BY <1>5, <2>1, ReplyFacts DEF EndsInFailure
  <2>3. EndsInFailure(d)
    <3>1. CASE w = "end" /\ c.worker = "next" /\ d.queue = c.queue /\ (c.left = <<>> \/ "cut" \in The.faults \/ c.closed = TRUE)
      BY <1>4, <2>2, <3>1
    <3>2. CASE w = "end" /\ c.worker = "next" /\ OneLonger(c.queue, e, d.queue) /\ e.kind = "failure"
      BY <1>4, <2>1, <3>2, FailsAtLast
    <3>3. CASE w = "gone" /\ c.worker = "end" /\ OneLonger(c.queue, e, d.queue) /\ e = Ended
      BY <2>1, <3>3, GoneAfterFailure
    <3> QED BY <3>1, <3>2, <3>3
  <2> QED BY <1>1, <1>2, <1>5, <2>3 DEF Underway
<1>6. CASE The.endless = FALSE
  <2>1. PICK n \in Nat : Holds(c.reply.chunks, n) /\ InOrder(c, n)
    BY <1>6 DEF Underway
  <2>2. InOrder(d, n)
    BY <1>3, <2>1, SignsInOrder
  <2>3. (Holds(d.reply.chunks, n))'
    BY <1>1, <2>1 DEF Holds
  <2> QED BY <1>1, <1>2, <1>6, <2>2, <2>3 DEF Underway
<1> QED BY <1>2, <1>5, <1>6

(* The thread, whoever it works for.                                       *)
LEMMA ThreadMoves ==
  ASSUME CallInv, NEW i \in DOMAIN requests, NEW d \in Exchange, requests' = [requests EXCEPT ![i] = d],
         d.reply = requests[i].reply, requests[i].worker \in {"next", "end"},
         UNCHANGED <<scene, pc, attempt, compacted, outcome, text, calls, finish>>,
         pc = "get" /\ i = Newest => Underway(d)'
  PROVE  CallInv'
<1>1. pc = "started" => i # Newest
  <2> SUFFICES ASSUME pc = "started", i = Newest  PROVE FALSE
    OBVIOUS
  <2>1. requests[i] = Connection(requests[i].reply)
    BY DEF CallInv, Answering
  <2>2. requests[i].worker = "none"
    BY <2>1 DEF Connection
  <2> QED BY <2>2
<1> QED BY <1>1, OneMoves

LEMMA TwoFields ==
  ASSUME requests \in Seq(Exchange), NEW i \in DOMAIN requests, NEW q, NEW l
  PROVE  [requests EXCEPT ![i].queue = q, ![i].left = l] = [requests EXCEPT ![i] = [@ EXCEPT !.queue = q, !.left = l]]
OBVIOUS

LEMMA TwoFlags ==
  ASSUME requests \in Seq(Exchange), NEW i \in DOMAIN requests
  PROVE  [requests EXCEPT ![i].stop = TRUE, ![i].closed = TRUE] = [requests EXCEPT ![i] = [@ EXCEPT !.stop = TRUE, !.closed = TRUE]]
OBVIOUS

LEMMA ThreeFields ==
  ASSUME requests \in Seq(Exchange), NEW i \in DOMAIN requests, NEW w, NEW q
  PROVE  [requests EXCEPT ![i].worker = w, ![i].closed = TRUE, ![i].queue = q]
           = [requests EXCEPT ![i] = [@ EXCEPT !.worker = w, !.closed = TRUE, !.queue = q]]
OBVIOUS

LEMMA TheReader ==
  ASSUME CallInv, pc = "get"
  PROVE  /\ scene \in DOMAIN Scenes /\ Streaming /\ Underway(requests[Newest])
         /\ requests[Newest].reply \in The.replies /\ requests[Newest].stop = FALSE
BY DEF CallInv, Answering, Underway

LEMMA WorkerTakesKeeps ==
  ASSUME CallInv, NEW i \in DOMAIN requests, WorkerTakes(i),
         UNCHANGED <<scene, pc, attempt, compacted, outcome, text, calls, finish>>
  PROVE  CallInv'
<1> DEFINE c == requests[i]
<1>1. requests \in Seq(Exchange) /\ c \in Exchange /\ scene \in DOMAIN Scenes
  BY DEF CallInv
<1>2. c.worker = "next" /\ c.left # <<>> /\ c.left \in Seq(Items) /\ c.queue \in Seq(Items)
  BY <1>1 DEF WorkerTakes, Thread, Exchange
<1>3. c.stop = TRUE \/ c.stop = FALSE
  BY <1>1 DEF Exchange
<1>4. CASE c.stop = TRUE
  <2>1. requests' = [requests EXCEPT ![i].worker = "end"]
    BY <1>4, Zenon DEF WorkerTakes
  <2>2. PICK d : d = [c EXCEPT !.worker = "end"]
    OBVIOUS
  <2>3. requests' = [requests EXCEPT ![i] = d]
    BY <2>1, <2>2
  <2>4. d \in Exchange /\ d.reply = c.reply
    BY <1>1, <2>2 DEF Exchange
  <2>5. ~ (pc = "get" /\ i = Newest)
    BY <1>4, TheReader
  <2> QED BY <1>2, <2>3, <2>4, <2>5, ThreadMoves
<1>5. CASE c.stop = FALSE
  <2> DEFINE h == Head(c.left)
             t == Tail(c.left)
             q == Append(c.queue, h)
             l == IF The.endless THEN c.left ELSE t
  <2>1. Splits(c.left, h, t) /\ t \in Seq(Items) /\ h \in Items
    BY <1>2, FirstAndRest
  <2> HIDE DEF h, t
  <2>2. OneLonger(c.queue, h, q) /\ q \in Seq(Items)
    BY <1>2, <2>1, AddedLast
  <2>3. The.endless = TRUE \/ The.endless = FALSE
    BY <1>1, SceneFacts
  <2>4. l \in {c.left, t} /\ (The.endless = TRUE => l = c.left) /\ (The.endless = FALSE => l = t)
    BY <2>3
  <2>5. requests' = [requests EXCEPT ![i].queue = q, ![i].left = l]
    BY <1>5, Zenon DEF WorkerTakes, h, t
  <2> HIDE DEF q, l
  <2>6. PICK d : d = [c EXCEPT !.queue = q, !.left = l]
    OBVIOUS
  <2>7. requests' = [requests EXCEPT ![i] = d]
    BY <1>1, <2>5, <2>6, TwoFields
  <2>8. l \in Seq(Items)
    BY <1>2, <2>1, <2>4
  <2> HIDE DEF c
  <2>9. /\ d.queue = q /\ d.left = l /\ d.reply = c.reply /\ d.stop = c.stop /\ d.closed = c.closed
        /\ d.worker = c.worker /\ d \in Exchange
    BY <1>1, <2>2, <2>6, <2>8 DEF Exchange
  <2>10. Takes(c, d, h, t)
    BY <1>2, <2>1, <2>2, <2>4, <2>9 DEF Takes, Same
  <2>11. ASSUME pc = "get", i = Newest  PROVE Underway(d)'
    <3>1. Streaming /\ Underway(c) /\ c.reply \in The.replies
      BY <2>11, TheReader DEF c
    <3>2. (The.endless = TRUE => d.left = c.left) /\ (The.endless = FALSE => d.left = t)
      BY <2>4, <2>9
    <3> QED BY <1>1, <2>10, <3>1, <3>2, ThreadTakes
  <2> QED BY <1>2, <2>7, <2>9, <2>11, ThreadMoves DEF c
<1> QED BY <1>3, <1>4, <1>5

LEMMA WorkerEndsKeeps ==
  ASSUME CallInv, NEW i \in DOMAIN requests, WorkerEnds(i),
         UNCHANGED <<scene, pc, attempt, compacted, outcome, text, calls, finish>>
  PROVE  CallInv'
<1> DEFINE c == requests[i]
<1>1. requests \in Seq(Exchange) /\ c \in Exchange /\ scene \in DOMAIN Scenes
  BY DEF CallInv
<1>2. c.closed = TRUE \/ c.closed = FALSE
  BY <1>1 DEF Exchange
<1>3. c.worker = "next" /\ (c.left = <<>> \/ "cut" \in The.faults \/ c.closed = TRUE)
  BY <1>2, Zenon DEF WorkerEnds, Thread
<1>4. requests' = [requests EXCEPT ![i].worker = "end"]
  BY DEF WorkerEnds
<1>5. PICK d : d = [c EXCEPT !.worker = "end"]
  OBVIOUS
<1>6. requests' = [requests EXCEPT ![i] = d]
  BY <1>4, <1>5
<1> HIDE DEF c
<1>7. d \in Exchange /\ d.reply = c.reply /\ d.queue = c.queue /\ d.left = c.left /\ d.stop = c.stop /\ d.worker = "end"
  BY <1>1, <1>5 DEF Exchange
<1>8. Halts(c, d, "end")
  BY <1>3, <1>7 DEF Halts, Same
<1>9. ASSUME pc = "get", i = Newest  PROVE Underway(d)'
  <2>1. Streaming /\ Underway(c) /\ c.reply \in The.replies
    BY <1>9, TheReader DEF c
  <2> QED BY <1>1, <1>3, <1>7, <1>8, <2>1, ThreadStops
<1> QED BY <1>3, <1>6, <1>7, <1>9, ThreadMoves DEF c

LEMMA WorkerFailsKeeps ==
  ASSUME CallInv, NEW i \in DOMAIN requests, WorkerFails(i),
         UNCHANGED <<scene, pc, attempt, compacted, outcome, text, calls, finish>>
  PROVE  CallInv'
<1> DEFINE c == requests[i]
<1>1. requests \in Seq(Exchange) /\ c \in Exchange /\ scene \in DOMAIN Scenes /\ c.queue \in Seq(Items)
  <2>1. requests \in Seq(Exchange) /\ c \in Exchange /\ scene \in DOMAIN Scenes
    BY DEF CallInv
  <2> QED BY <2>1 DEF Exchange
<1>2. c.worker = "next"
  BY DEF WorkerFails, Thread
<1>3. PICK e \in The.errors : requests' = [requests EXCEPT ![i].worker = "end", ![i].queue = Append(@, Failure(e))]
  BY DEF WorkerFails
<1> DEFINE f == Failure(e)
           q == Append(c.queue, f)
<1>4. f \in Items /\ f.kind = "failure"
  BY <1>1, SceneFacts DEF Failure
<1> HIDE DEF f
<1>5. OneLonger(c.queue, f, q) /\ q \in Seq(Items)
  BY <1>1, <1>4, AddedLast
<1>6. requests' = [requests EXCEPT ![i].worker = "end", ![i].queue = q]
  BY <1>3 DEF f
<1> HIDE DEF q
<1>7. PICK d : d = [c EXCEPT !.worker = "end", !.queue = q]
  OBVIOUS
<1>8. requests' = [requests EXCEPT ![i] = d]
  BY <1>1, <1>6, <1>7
<1> HIDE DEF c
<1>9. d \in Exchange /\ d.reply = c.reply /\ d.queue = q /\ d.left = c.left /\ d.stop = c.stop /\ d.worker = "end"
  BY <1>1, <1>5, <1>7 DEF Exchange
<1>10. Halts(c, d, "end")
  BY <1>2, <1>9 DEF Halts, Same
<1>11. ASSUME pc = "get", i = Newest  PROVE Underway(d)'
  <2>1. Streaming /\ Underway(c) /\ c.reply \in The.replies
    BY <1>11, TheReader DEF c
  <2>2. OneLonger(c.queue, f, d.queue)
    BY <1>5, <1>9
  <2> QED BY <1>1, <1>2, <1>4, <1>10, <2>1, <2>2, ThreadStops
<1> QED BY <1>2, <1>8, <1>9, <1>11, ThreadMoves DEF c

LEMMA WorkerGoneKeeps ==
  ASSUME CallInv, NEW i \in DOMAIN requests, WorkerGone(i),
         UNCHANGED <<scene, pc, attempt, compacted, outcome, text, calls, finish>>
  PROVE  CallInv'
<1> DEFINE c == requests[i]
           f == Ended
           q == Append(c.queue, f)
<1>1. requests \in Seq(Exchange) /\ c \in Exchange /\ scene \in DOMAIN Scenes /\ c.queue \in Seq(Items)
  <2>1. requests \in Seq(Exchange) /\ c \in Exchange /\ scene \in DOMAIN Scenes
    BY DEF CallInv
  <2> QED BY <2>1 DEF Exchange
<1>2. c.worker = "end"
  BY DEF WorkerGone, Thread
<1>4. f \in Items
  BY DEF Items
<1> HIDE DEF f
<1>5. OneLonger(c.queue, f, q) /\ q \in Seq(Items)
  BY <1>1, <1>4, AddedLast
<1>6. requests' = [requests EXCEPT ![i].worker = "gone", ![i].closed = TRUE, ![i].queue = q]
  BY DEF WorkerGone, f
<1> HIDE DEF q
<1>7. PICK d : d = [c EXCEPT !.worker = "gone", !.closed = TRUE, !.queue = q]
  OBVIOUS
<1>8. requests' = [requests EXCEPT ![i] = d]
  BY <1>1, <1>6, <1>7, ThreeFields
<1> HIDE DEF c
<1>9. d \in Exchange /\ d.reply = c.reply /\ d.queue = q /\ d.left = c.left /\ d.stop = c.stop /\ d.worker = "gone"
  BY <1>1, <1>5, <1>7 DEF Exchange
<1>10. Halts(c, d, "gone")
  BY <1>2, <1>9 DEF Halts, Same
<1>11. ASSUME pc = "get", i = Newest  PROVE Underway(d)'
  <2>1. Streaming /\ Underway(c) /\ c.reply \in The.replies
    BY <1>11, TheReader DEF c
  <2>2. OneLonger(c.queue, f, d.queue) /\ f = Ended
    BY <1>5, <1>9 DEF f
  <2> QED BY <1>1, <1>2, <1>10, <2>1, <2>2, ThreadStops
<1> QED BY <1>2, <1>8, <1>9, <1>11, ThreadMoves DEF c

LEMMA WorkerKeeps ==
  ASSUME CallInv, NEW i, Worker(i)
  PROVE  CallInv'
<1>1. i \in DOMAIN requests /\ (WorkerTakes(i) \/ WorkerEnds(i) \/ WorkerFails(i) \/ WorkerGone(i))
  BY DEF Worker
<1>2. UNCHANGED <<scene, pc, attempt, compacted, outcome, text, calls, finish>>
  BY DEF Worker, tries, parts, ends
<1> QED BY <1>1, <1>2, WorkerTakesKeeps, WorkerEndsKeeps, WorkerFailsKeeps, WorkerGoneKeeps

(* The generator of a cancelled turn is closed, or its coroutine reads on. *)
LEMMA CloseKeeps ==
  ASSUME CallInv, CloseAbandoned
  PROVE  CallInv'
<1> DEFINE c == requests[Newest]
<1>1. requests \in Seq(Exchange) /\ c \in Exchange /\ Newest \in DOMAIN requests
  BY NewestIsThere DEF CallInv, CloseAbandoned
<1>2. requests' = [requests EXCEPT ![Newest].stop = TRUE, ![Newest].closed = TRUE]
  BY DEF CloseAbandoned, Closed
<1>3. PICK d : d = [c EXCEPT !.stop = TRUE, !.closed = TRUE]
  OBVIOUS
<1>4. requests' = [requests EXCEPT ![Newest] = d]
  BY <1>1, <1>2, <1>3, TwoFlags
<1> HIDE DEF c
<1>5. d \in Exchange /\ d.reply = c.reply
  BY <1>1, <1>3 DEF Exchange
<1>6. UNCHANGED <<scene, pc, attempt, compacted, outcome, text, calls, finish>>
  BY DEF CloseAbandoned, tries, parts, ends
<1>7. pc = "done"
  BY DEF CallInv, CloseAbandoned
<1> QED BY <1>1, <1>4, <1>5, <1>6, <1>7, OneMoves DEF c

LEMMA AskKeeps ==
  ASSUME CallInv, pc = "send", UNCHANGED <<scene, attempt, compacted, outcome>>,
         NEW r \in AllReplies, requests' = Append(requests, Connection(r)), pc' \in {"raise", "started", "reply"},
         pc' # "raise" => /\ r \in The.replies /\ (pc' = "reply" <=> ~Streaming)
                          /\ text' = <<>> /\ calls' = <<>> /\ finish' = "unknown"
  PROVE  CallInv'
<1> DEFINE c == Connection(r)
           l == Len(requests)
<1>1. c \in Exchange /\ requests \in Seq(Exchange) /\ c.reply = r
  <2>1. c \in Exchange /\ requests \in Seq(Exchange)
    BY ChunksAreItems DEF CallInv
  <2>2. c.reply = r
    BY DEF Connection
  <2> QED BY <2>1, <2>2
<1>2. requests' = Append(requests, c)
  OBVIOUS
<1> HIDE DEF c
<1>3. requests' \in Seq(Exchange) /\ Len(requests') = l + 1 /\ requests'[l + 1] = c /\ l \in Nat
  BY <1>1, <1>2, AppendProperties, LenProperties
<1>4. The' = The /\ The.retries \in Nat /\ (Streaming' <=> Streaming)
  BY SceneFacts DEF CallInv, The, Streaming
<1>5. Counted'
  <2> DEFINE base == IF compacted = TRUE THEN The.retries + 1 ELSE 0
  <2>1. attempt \in 0..The.retries /\ compacted \in BOOLEAN /\ l <= base + attempt + 0
    BY DEF CallInv, Counted
  <2>2. l \in Nat /\ base \in Nat /\ attempt \in Nat
    BY <1>3, <1>4, <2>1
  <2> HIDE DEF base, l
  <2>3. l + 1 <= base + attempt + 1
    BY <2>1, <2>2
  <2>4. attempt' = attempt /\ compacted' = compacted /\ Len(requests') = l + 1 /\ pc' # "send"
    BY <1>3
  <2> QED BY <1>4, <2>1, <2>3, <2>4 DEF Counted, base
<1>6. requests' # <<>> /\ requests'[Newest'] = c
  BY <1>3 DEF Newest
<1>7. Answering'
  <2>1. pc' = "started" => requests'[Newest'] = Connection(requests'[Newest'].reply)
    BY <1>1, <1>6 DEF c
  <2>2. pc' # "raise" => requests'[Newest'].reply \in The.replies
    BY <1>1, <1>6
  <2> QED BY <1>4, <1>6, <2>1, <2>2 DEF Answering
<1> QED BY <1>3, <1>5, <1>7 DEF CallInv

LEMMA StartedKeeps ==
  ASSUME CallInv, pc = "started", requests' = [requests EXCEPT ![Newest].worker = "next"], pc' = "get",
         UNCHANGED <<scene, attempt, compacted, outcome, text, calls, finish>>
  PROVE  CallInv'
<1> DEFINE c == requests[Newest]
<1>1. requests # <<>> /\ c.reply \in The.replies /\ Streaming /\ c = Connection(c.reply)
      /\ text = <<>> /\ calls = <<>> /\ finish = "unknown"
  BY DEF CallInv, Answering
<1>2. requests \in Seq(Exchange) /\ c \in Exchange /\ Newest \in DOMAIN requests
  BY <1>1, NewestIsThere DEF CallInv
<1>3. PICK d : d = [c EXCEPT !.worker = "next"]
  OBVIOUS
<1>4. requests' = [requests EXCEPT ![Newest] = d]
  BY <1>3
<1> HIDE DEF c
<1>5. d \in Exchange /\ d.reply = c.reply /\ d.queue = c.queue /\ d.left = c.left /\ d.stop = c.stop
      /\ d.closed = c.closed /\ d.worker = "next"
  BY <1>2, <1>3 DEF Exchange
<1>6. c.queue = <<>> /\ c.left = c.reply.chunks /\ c.stop = FALSE /\ c.closed = FALSE
  <2> DEFINE r == c.reply
  <2>1. c = Connection(r)
    BY <1>1
  <2> HIDE DEF r
  <2>2. c.queue = <<>> /\ c.left = r.chunks /\ c.stop = FALSE /\ c.closed = FALSE
    BY <2>1 DEF Connection
  <2> QED BY <2>2 DEF r
<1>7. /\ requests' \in Seq(Exchange) /\ Len(requests') = Len(requests) /\ requests'[Newest] = d
  BY <1>2, <1>4, <1>5, OneRequestChanges DEF CallInv
<1>8. The' = The /\ (The.endless = TRUE \/ The.endless = FALSE) /\ (Streaming' <=> Streaming) /\ Newest' = Newest
  BY <1>7, SceneFacts DEF CallInv, The, Streaming, Newest
<1>9. d.queue = <<>> /\ d.left = d.reply.chunks /\ d.stop = FALSE /\ d.closed = FALSE /\ d.worker = "next"
  BY <1>5, <1>6
<1>10. Len(d.queue) = 0 /\ DOMAIN d.queue = {}
  BY <1>9
<1>11. Underway(d)'
  <2>1. CASE The.endless = TRUE
    <3>1. EndsInFailure(d)
      BY <1>9, <1>10 DEF EndsInFailure
    <3> QED BY <1>8, <1>9, <1>10, <2>1, <3>1 DEF Underway
  <2>2. CASE The.endless = FALSE
    <3> DEFINE s == d.reply.chunks
    <3>1. Len(s) \in Nat /\ ComesInChunks(d.reply)
      <4>1. s \in Seq(Items)
        BY <1>5, ChunksAreItems DEF Exchange
      <4>2. ComesInChunks(d.reply)
        BY <1>1, <1>5, ReplyFacts DEF CallInv
      <4> HIDE DEF s
      <4> QED BY <4>1, <4>2, LenProperties
    <3> HIDE DEF s
    <3>2. AddsUp(s)[0] = Zero
      BY <3>1, AddsUpChunkByChunk
    <3>3. text' = <<>> /\ calls' = <<>> /\ finish' = "unknown" /\ 0 \in 0..Len(s)
      BY <1>1, <3>1
    <3>4. (Holds(s, 0))'
      BY <3>2, <3>3 DEF Holds, Zero
    <3>5. InOrder(d, 0)
      <4>1. Len(d.left) + (0 + Len(d.queue)) = Len(s)
        BY <1>9, <1>10, <3>1 DEF s
      <4>2. \A k \in DOMAIN d.left : d.left[k] = s[(0 + Len(d.queue)) + k]
        <5>1. s \in Seq(Items)
          BY <1>5, ChunksAreItems DEF Exchange, s
        <5>2. DOMAIN s = 1..Len(s)
          BY <5>1, LenProperties
        <5>3. \A k \in DOMAIN s : (0 + 0) + k = k
          BY <3>1, <5>2
        <5> QED BY <1>9, <1>10, <5>3 DEF s
      <4> QED BY <1>10, <4>1, <4>2 DEF InOrder, s
    <3> QED BY <1>8, <1>9, <1>10, <2>2, <3>4, <3>5 DEF Underway, s
  <2> QED BY <1>8, <2>1, <2>2
<1>12. (Underway(requests[Newest]))'
  <2>1. requests'[Newest'] = d
    BY <1>7, <1>8
  <2>2. \A x : x = d => ((Underway(x))' <=> (Underway(d))')
    OBVIOUS
  <2> QED BY <1>11, <2>1, <2>2
<1>13. Answering'
  <2>1. requests' # <<>> /\ requests'[Newest'].reply \in The'.replies
    <3>1. Len(requests) # 0
      BY <1>1, <1>2, EmptySeq
    <3> QED BY <1>1, <1>5, <1>7, <1>8, <3>1
  <2> QED BY <1>1, <1>8, <1>12, <2>1 DEF Answering
<1>14. Counted'
  BY <1>7, <1>8 DEF CallInv, Counted
<1> QED BY <1>7, <1>13, <1>14 DEF CallInv

LEMMA ClosedShape ==
  ASSUME CallInv, requests # <<>>, requests' = Closed(Newest)
  PROVE  /\ requests' \in Seq(Exchange) /\ Len(requests') = Len(requests)
         /\ requests'[Newest].reply = requests[Newest].reply
<1> DEFINE c == requests[Newest]
<1>1. requests \in Seq(Exchange) /\ c \in Exchange /\ Newest \in DOMAIN requests
  BY NewestIsThere DEF CallInv
<1>2. PICK d : d = [c EXCEPT !.stop = TRUE, !.closed = TRUE]
  OBVIOUS
<1>3. requests' = [requests EXCEPT ![Newest] = d]
  BY <1>1, <1>2, TwoFlags DEF Closed
<1> HIDE DEF c
<1>4. d \in Exchange /\ d.reply = c.reply
  BY <1>1, <1>2 DEF Exchange
<1> QED BY <1>1, <1>3, <1>4, OneRequestChanges DEF c

LEMMA EndKeeps ==
  ASSUME CallInv, GetEnd
  PROVE  CallInv'
<1> DEFINE c == requests[Newest]
<1>1. /\ pc = "get" /\ Queue # <<>> /\ Head(Queue).kind = "ended"
      /\ requests' = Closed(Newest) /\ pc' = "finish"
      /\ UNCHANGED <<scene, attempt, compacted, outcome, text, calls, finish>>
  BY DEF GetEnd, Got, tries, parts, ends
<1>2. requests # <<>> /\ c.reply \in The.replies /\ Streaming /\ Underway(c)
  BY <1>1 DEF CallInv, Answering
<1>3. requests' \in Seq(Exchange) /\ Len(requests') = Len(requests) /\ requests'[Newest].reply = c.reply
  BY <1>1, <1>2, ClosedShape
<1>4. The' = The /\ (The.endless = TRUE \/ The.endless = FALSE) /\ (Streaming' <=> Streaming) /\ Newest' = Newest
  BY <1>1, <1>3, SceneFacts DEF CallInv, The, Streaming, Newest
<1>5. Splits(c.queue, Head(Queue), Tail(Queue))
  BY <1>1, NextInQueue DEF Queue
<1> HIDE DEF c
<1>6. The.endless = FALSE
  <2> SUFFICES ASSUME The.endless = TRUE  PROVE FALSE
    BY <1>4
  <2>1. EndsInFailure(c)
    BY <1>2 DEF Underway
  <2>2. 1 \in DOMAIN c.queue /\ c.queue[1].kind = "ended"
    BY <1>1, <1>5 DEF Splits
  <2>3. PICK m \in DOMAIN c.queue : m < 1 /\ c.queue[m].kind = "failure"
    BY <2>1, <2>2 DEF EndsInFailure
  <2>4. m = 1 \/ (m \in Nat /\ m - 1 \in DOMAIN Tail(Queue))
    BY <1>5 DEF Splits
  <2>5. m = 1 \/ m - 1 \in Nat \ {0}
    BY <1>5, <2>4 DEF Splits
  <2> QED BY <2>3, <2>4, <2>5
<1>7. PICK n \in Nat : Holds(c.reply.chunks, n)
  BY <1>2, <1>6 DEF Underway
<1>8. PICK r : r = c.reply.chunks
  OBVIOUS
<1>9. (Holds(r, n))'
  BY <1>1, <1>7, <1>8 DEF Holds
<1>10. requests'[Newest'].reply.chunks = r
  BY <1>3, <1>4, <1>8
<1>11. (Holds(requests[Newest].reply.chunks, n))'
  <2>1. \A x : x = r => ((Holds(x, n))' <=> (Holds(r, n))')
    OBVIOUS
  <2> QED BY <1>9, <1>10, <2>1
<1>12. requests' # <<>>
  <2>1. Len(requests) # 0
    BY <1>2, EmptySeq DEF CallInv
  <2> QED BY <1>3, <2>1
<1>13. Answering'
  BY <1>1, <1>2, <1>3, <1>4, <1>6, <1>11, <1>12 DEF Answering
<1>14. Counted'
  BY <1>1, <1>3, <1>4 DEF CallInv, Counted
<1> QED BY <1>1, <1>3, <1>13, <1>14 DEF CallInv

LEMMA ChunkIsNext ==
  ASSUME CallInv, pc = "get", Queue # <<>>, ~ Sign(Head(Queue)), The.endless = FALSE
  PROVE  \E n \in Nat : LET s == requests[Newest].reply.chunks
                        IN  Holds(s, n) /\ n + 1 \in DOMAIN s /\ Head(Queue) = s[n + 1]
<1> DEFINE c == requests[Newest]
           h == Head(Queue)
<1>1. Underway(c) /\ Splits(Queue, h, Tail(Queue))
  BY NextInQueue
<1>2. Queue = c.queue
  BY DEF Queue
<1> HIDE DEF c, h
<1>3. PICK n \in Nat : Holds(c.reply.chunks, n) /\ InOrder(c, n)
  BY <1>1 DEF Underway
<1>4. 1 \in DOMAIN c.queue /\ c.queue[1] = h /\ ~ Sign(h)
  BY <1>1, <1>2 DEF Splits, h
<1>5. n + 1 \in DOMAIN c.reply.chunks /\ h = c.reply.chunks[n + 1]
  BY <1>3, <1>4 DEF InOrder
<1> QED BY <1>3, <1>5 DEF c, h

LEMMA TextKeeps ==
  ASSUME CallInv, GetText, ~ Leaves
  PROVE  CallInv'
<1> DEFINE h == Head(Queue)
<1>1. /\ pc = "get" /\ Queue # <<>> /\ h.kind = "text" /\ Taken
      /\ Len(text) < MaxText => text' = Append(text, h.text)
      /\ UNCHANGED <<scene, pc, attempt, compacted, outcome, calls, finish>>
  BY DEF GetText, Got, tries, parts, ends
<1>2. ~ Sign(h)
  BY <1>1 DEF Sign
<1>3. ASSUME The.endless = FALSE  PROVE GoesOn(h)
  <2> DEFINE r == requests[Newest].reply
  <2>1. PICK n \in Nat : Holds(r.chunks, n) /\ n + 1 \in DOMAIN r.chunks /\ h = r.chunks[n + 1]
    BY <1>1, <1>2, <1>3, ChunkIsNext
  <2>2. r.chunks \in Seq(Range(r.chunks)) /\ ComesInChunks(r) /\ Len(r.text) <= MaxText
    BY <1>1, <1>3, TheReader, ReplyFacts
  <2>3. Len(text) < MaxText
    BY <1>1, <2>1, <2>2, TextFits
  <2> QED BY <1>1, <2>3 DEF GoesOn
<1> QED BY <1>1, <1>2, <1>3, TakingKeeps

LEMMA FragmentKeeps ==
  ASSUME CallInv, GetFragment, ~ Leaves
  PROVE  CallInv'
<1> DEFINE h == Head(Queue)
<1>1. /\ pc = "get" /\ Queue # <<>> /\ h.kind = "tool" /\ h.index # NoIndex /\ Taken
      /\ calls' = Accumulated(calls, h)
      /\ UNCHANGED <<scene, pc, attempt, compacted, outcome, text, finish>>
  BY DEF GetFragment, Got, tries, parts, ends
<1> HIDE DEF h
<1>2. ~ Sign(h) /\ GoesOn(h)
  BY <1>1 DEF Sign, GoesOn
<1> QED BY <1>1, <1>2, TakingKeeps DEF h

LEMMA QuietKeeps ==
  ASSUME CallInv, GetQuietly
  PROVE  CallInv'
<1> DEFINE h == Head(Queue)
<1>1. /\ pc = "get" /\ Queue # <<>> /\ Taken
      /\ \/ h.kind = "tool" /\ h.index = NoIndex /\ finish' = finish
         \/ h.kind = "finish" /\ finish' = h.reason
         \/ h.kind = "usage" /\ finish' = finish
      /\ UNCHANGED <<scene, pc, attempt, compacted, outcome, text, calls>>
  BY DEF GetQuietly, Got, tries, parts, ends
<1> HIDE DEF h
<1>2. ~ Sign(h) /\ GoesOn(h)
  BY <1>1 DEF Sign, GoesOn
<1> QED BY <1>1, <1>2, TakingKeeps DEF h

LEMMA RetryKeeps ==
  ASSUME CallInv, Retry
  PROVE  CallInv'
<1>1. /\ pc = "raise" /\ attempt < The.retries /\ attempt' = attempt + 1 /\ pc' = "send"
      /\ UNCHANGED <<scene, requests, compacted, outcome>>
  BY DEF Retry, Retries, parts, ends
<1>2. The' = The /\ The.retries \in Nat
  BY <1>1, SceneFacts DEF CallInv, The
<1> DEFINE base == IF compacted = TRUE THEN The.retries + 1 ELSE 0
           l == Len(requests)
<1>3. attempt \in 0..The.retries /\ compacted \in BOOLEAN /\ l <= base + attempt + 1
  BY <1>1 DEF CallInv, Counted
<1>4. l \in Nat /\ base \in Nat
  BY <1>2 DEF CallInv
<1> HIDE DEF base, l
<1>5. l <= base + attempt' + 0 /\ attempt' \in 0..The.retries
  BY <1>1, <1>2, <1>3, <1>4
<1>6. Counted'
  BY <1>1, <1>2, <1>3, <1>5 DEF Counted, base, l
<1>7. Answering'
  BY <1>1 DEF Answering
<1> QED BY <1>1, <1>6, <1>7 DEF CallInv

LEMMA CompactKeeps ==
  ASSUME CallInv, pc = "raise", compacted = FALSE, compacted' = TRUE, attempt' = 0, pc' = "send",
         UNCHANGED <<scene, requests, outcome>>
  PROVE  CallInv'
<1>2. The' = The /\ The.retries \in Nat
  BY SceneFacts DEF CallInv, The
<1> DEFINE l == Len(requests)
<1>3. attempt \in 0..The.retries /\ l <= 0 + attempt + 1
  BY DEF CallInv, Counted
<1>4. l \in Nat
  BY DEF CallInv
<1> HIDE DEF l
<1>5. l <= (The.retries + 1) + attempt' + 0 /\ attempt' \in 0..The.retries
  BY <1>2, <1>3, <1>4
<1>6. compacted' \in BOOLEAN /\ Len(requests') = l
  BY DEF l
<1>7. Counted'
  BY <1>2, <1>5, <1>6 DEF Counted
<1>8. Answering'
  BY DEF Answering
<1> QED BY <1>7, <1>8 DEF CallInv

LEMMA RequestsStay ==
  ASSUME CallInv, requests' = requests \/ (requests # <<>> /\ requests' = Closed(Newest))
  PROVE  requests' \in Seq(Exchange) /\ Len(requests') = Len(requests)
<1>1. CASE requests' = requests
  BY <1>1 DEF CallInv
<1>2. CASE requests # <<>> /\ requests' = Closed(Newest)
  BY <1>2, ClosedShape
<1> QED BY <1>1, <1>2

LEMMA LeavingKeeps ==
  ASSUME CallInv, Leaves
  PROVE  CallInv'
<1>1. /\ outcome' = "cancelled" /\ pc' = "done" /\ UNCHANGED <<scene, requests, attempt, compacted>>
  BY DEF Leaves, Cancelled, tries
<1> QED BY <1>1, RequestsStay, TheEndIsCounted

LEMMA CallNext ==
  ASSUME CallInv, [Next]_vars
  PROVE  CallInv'
<1>1. CASE CancelledBefore
  <2>1. outcome' = "cancelled" /\ pc' = "done" /\ UNCHANGED <<scene, requests, attempt, compacted>>
    BY <1>1 DEF CancelledBefore, Cancelled, tries
  <2> QED BY <2>1, RequestsStay, TheEndIsCounted
<1>2. CASE Refused
  <2>1. /\ pc = "send" /\ requests' = Append(requests, Connection(NoReply)) /\ pc' = "raise"
        /\ UNCHANGED <<scene, attempt, compacted, outcome>>
    BY <1>2 DEF Refused, Sends, tries, ends
  <2>2. NoReply \in AllReplies
    BY DEF AllReplies
  <2> QED BY <2>1, <2>2, AskKeeps
<1>3. CASE Accepted
  <2>1. /\ pc = "send" /\ text' = <<>> /\ calls' = <<>> /\ finish' = "unknown"
        /\ pc' = IF Streaming THEN "started" ELSE "reply"
        /\ UNCHANGED <<scene, attempt, compacted, outcome>>
    BY <1>3 DEF Accepted, Sends, tries, ends
  <2>2. PICK r \in The.replies : requests' = Append(requests, Connection(r))
    BY <1>3 DEF Accepted
  <2>3. r \in AllReplies
    BY <2>2, SceneFacts DEF CallInv
  <2>4. pc' \in {"raise", "started", "reply"} /\ (pc' = "reply" <=> ~Streaming)
    BY <2>1
  <2> QED BY <2>1, <2>2, <2>3, <2>4, AskKeeps
<1>4. CASE Complete
  <2>1. outcome' = "answer" /\ pc' = "done" /\ UNCHANGED <<scene, requests, attempt, compacted>>
    BY <1>4 DEF Complete, tries
  <2> QED BY <2>1, RequestsStay, TheEndIsCounted
<1>5. CASE Started
  <2>1. ASSUME ~ Leaves  PROVE CallInv'
    <3>1. /\ pc = "started" /\ requests' = [requests EXCEPT ![Newest].worker = "next"] /\ pc' = "get"
          /\ UNCHANGED <<scene, attempt, compacted, outcome, text, calls, finish>>
      BY <1>5, <2>1 DEF Started, tries, parts, ends
    <3> QED BY <3>1, StartedKeeps
  <2> QED BY <2>1, LeavingKeeps
<1>6. CASE GetEnd
  BY <1>6, EndKeeps
<1>7. CASE GetFailure
  <2>1. /\ pc = "get" /\ requests' = Closed(Newest) /\ pc' = "raise"
        /\ UNCHANGED <<scene, attempt, compacted, outcome>>
    BY <1>7 DEF GetFailure, Got, tries, ends
  <2>2. requests # <<>> /\ outcome = "open"
    BY <2>1 DEF CallInv, Answering
  <2> QED BY <2>1, <2>2, RequestsStay, TheEndIsCounted
<1>8. CASE GetError
  <2>1. ASSUME ~ Leaves  PROVE CallInv'
    <3>1. /\ pc = "get" /\ requests' = Closed(Newest) /\ pc' = "raise"
          /\ UNCHANGED <<scene, attempt, compacted, outcome>>
      BY <1>8, <2>1 DEF GetError, Got, tries, ends
    <3>2. requests # <<>> /\ outcome = "open"
      BY <3>1 DEF CallInv, Answering
    <3> QED BY <3>1, <3>2, RequestsStay, TheEndIsCounted
  <2> QED BY <2>1, LeavingKeeps
<1>9. CASE GetText
  BY <1>9, TextKeeps, LeavingKeeps
<1>10. CASE GetFragment
  BY <1>10, FragmentKeeps, LeavingKeeps
<1>11. CASE GetQuietly
  BY <1>11, QuietKeeps
<1>12. CASE Finish
  <2>1. ASSUME ~ Leaves  PROVE CallInv'
    <3>1. outcome' = "answer" /\ pc' = "done" /\ UNCHANGED <<scene, requests, attempt, compacted>>
      BY <1>12, <2>1 DEF Finish, tries
    <3> QED BY <3>1, RequestsStay, TheEndIsCounted
  <2> QED BY <2>1, LeavingKeeps
<1>13. CASE Retry
  BY <1>13, RetryKeeps
<1>14. CASE GiveUp
  <2>1. outcome' = "error" /\ pc' = "done" /\ UNCHANGED <<scene, requests, attempt, compacted>>
    BY <1>14 DEF GiveUp, tries
  <2> QED BY <2>1, RequestsStay, TheEndIsCounted
<1>15. CASE Compact
  <2>1. CASE outcome' = "error" /\ pc' = "done" /\ UNCHANGED tries
    <3>1. UNCHANGED <<scene, requests, attempt, compacted>>
      BY <1>15, <2>1 DEF Compact, tries
    <3> QED BY <2>1, <3>1, RequestsStay, TheEndIsCounted
  <2>2. CASE compacted' = TRUE /\ attempt' = 0 /\ pc' = "send" /\ UNCHANGED outcome
    <3>1. pc = "raise" /\ ~ compacted /\ UNCHANGED <<scene, requests>>
      BY <1>15 DEF Compact, Recovers
    <3>2. compacted \in BOOLEAN
      BY DEF CallInv, Counted
    <3>3. compacted = FALSE
      BY <3>1, <3>2
    <3> QED BY <2>2, <3>1, <3>3, CompactKeeps
  <2> QED BY <1>15, <2>1, <2>2 DEF Compact
<1>16. CASE CloseAbandoned
  BY <1>16, CloseKeeps
<1>17. CASE \E i \in 1..MaxRequests : Worker(i)
  BY <1>17, WorkerKeeps
<1>18. ASSUME UNCHANGED <<scene, requests, pc, attempt, compacted, outcome, text, calls, finish>>  PROVE CallInv'
  <2>1. The' = The /\ Newest' = Newest /\ (Streaming' <=> Streaming) /\ requests' = requests
    BY <1>18 DEF The, Newest, Streaming
  <2>2. Counted'
    BY <1>18, <2>1 DEF CallInv, Counted
  <2>3. \A s, n : (Holds(s, n))' <=> Holds(s, n)
    BY <1>18 DEF Holds
  <2>4. (Underway(requests[Newest]))' <=> Underway(requests[Newest])
    BY <2>1, <2>3 DEF Underway
  <2>5. Answering'
    BY <1>18, <2>1, <2>3, <2>4 DEF CallInv, Answering
  <2> QED BY <1>18, <2>1, <2>2, <2>5 DEF CallInv
<1>19. CASE Cancel
  BY <1>18, <1>19 DEF Cancel, tries, parts, ends
<1>20. CASE UNCHANGED vars
  BY <1>18, <1>20 DEF vars
<1> QED BY <1>1, <1>2, <1>3, <1>4, <1>5, <1>6, <1>7, <1>8, <1>9, <1>10, <1>11, <1>12, <1>13, <1>14, <1>15, <1>16,
           <1>17, <1>19, <1>20 DEF Next, Call

LEMMA CallInvariance == Spec => []CallInv
<1>1. Init => CallInv
  BY CallInit
<1>2. CallInv /\ [Next]_vars => CallInv'
  BY CallNext
<1> QED BY <1>1, <1>2, PTL DEF Spec

(* The call as ProviderCall sees it: the replies asked for.                *)
Asked == [i \in DOMAIN requests |-> requests[i].reply]

LEMMA AskedShape ==
  ASSUME requests \in Seq(Exchange)
  PROVE  Asked \in Seq(AllReplies) /\ Len(Asked) = Len(requests) /\ DOMAIN requests = 1..Len(requests) /\ Len(requests) \in Nat
<1>1. Len(requests) \in Nat /\ DOMAIN requests = 1..Len(requests)
  BY LenProperties
<1>2. \A i \in 1..Len(requests) : requests[i].reply \in AllReplies
  <2>1. \A i \in 1..Len(requests) : requests[i] \in Exchange
    BY <1>1
  <2>2. \A c \in Exchange : c.reply \in AllReplies
    BY DEF Exchange
  <2> QED BY <2>1, <2>2
<1> DEFINE n == Len(requests)
<1>3. Asked = [i \in 1..n |-> Asked[i]] /\ \A i \in 1..n : Asked[i] \in AllReplies
  BY <1>1, <1>2 DEF Asked
<1> HIDE DEF n
<1>4. Asked \in Seq(AllReplies) /\ Len(Asked) = n
  BY <1>1, <1>3, SequenceIn DEF n
<1> QED BY <1>1, <1>4 DEF n

LEMMA AskedOneMore ==
  ASSUME requests \in Seq(Exchange), NEW r \in AllReplies, requests' = Append(requests, Connection(r))
  PROVE  Asked' = Append(Asked, r)
<1> DEFINE c == Connection(r)
           n == Len(requests)
           a == Append(Asked, r)
<1>1. c \in Exchange /\ c.reply = r
  <2>1. c.reply = r
    BY DEF Connection
  <2> QED BY <2>1, ChunksAreItems
<1>2. requests' = Append(requests, c)
  OBVIOUS
<1> HIDE DEF c
<1>3. /\ requests' \in Seq(Exchange) /\ Len(requests') = n + 1
      /\ (\A i \in 1..n : requests'[i] = requests[i]) /\ requests'[n + 1] = c
  BY <1>1, <1>2, AppendProperties
<1>4. n \in Nat /\ DOMAIN requests' = 1..(n + 1) /\ Asked \in Seq(AllReplies) /\ Len(Asked) = n /\ DOMAIN requests = 1..n
  BY <1>3, AskedShape, LenProperties
<1>5. /\ a \in Seq(AllReplies) /\ Len(a) = n + 1
      /\ (\A i \in 1..n : a[i] = Asked[i]) /\ a[n + 1] = r
  BY <1>4, AppendProperties
<1>6. a = [i \in 1..(n + 1) |-> a[i]]
  BY <1>5, LenProperties
<1>7. Asked' = [i \in 1..(n + 1) |-> requests'[i].reply]
  BY <1>4 DEF Asked
<1>8. \A i \in 1..n : Asked[i] = requests[i].reply
  BY <1>4 DEF Asked
<1> HIDE DEF a, n
<1>9. \A i \in 1..(n + 1) : a[i] = requests'[i].reply
  <2>1. \A i \in 1..n : a[i] = requests'[i].reply
    BY <1>3, <1>5, <1>8
  <2>2. a[n + 1] = requests'[n + 1].reply
    BY <1>1, <1>3, <1>5
  <2>3. \A i \in 1..(n + 1) : i \in 1..n \/ i = n + 1
    BY <1>4
  <2> QED BY <2>1, <2>2, <2>3
<1>10. Asked' = a
  BY <1>6, <1>7, <1>9
<1> QED BY <1>10 DEF a

(* The thread and the coroutine leave the replies of a request alone.      *)
LEMMA RepliesStay ==
  ASSUME requests \in Seq(Exchange), NEW i, NEW w, NEW q, NEW l,
         \/ requests' = requests
         \/ requests' = [requests EXCEPT ![i].worker = w]
         \/ requests' = [requests EXCEPT ![i].queue = q]
         \/ requests' = [requests EXCEPT ![i].stop = TRUE, ![i].closed = TRUE]
         \/ requests' = [requests EXCEPT ![i].queue = q, ![i].left = l]
         \/ requests' = [requests EXCEPT ![i].worker = w, ![i].queue = q]
         \/ requests' = [requests EXCEPT ![i].worker = w, ![i].closed = TRUE, ![i].queue = q]
  PROVE  Asked' = Asked
<1>1. DOMAIN requests' = DOMAIN requests
  OBVIOUS
<1>2. ASSUME NEW j \in DOMAIN requests  PROVE requests'[j].reply = requests[j].reply
  <2> DEFINE c == requests[j]
             d == requests'[j]
  <2>1. c \in Exchange
    OBVIOUS
  <2>2. \/ d = c \/ d = [c EXCEPT !.worker = w] \/ d = [c EXCEPT !.queue = q]
        \/ d = [c EXCEPT !.stop = TRUE, !.closed = TRUE] \/ d = [c EXCEPT !.queue = q, !.left = l]
        \/ d = [c EXCEPT !.worker = w, !.queue = q] \/ d = [c EXCEPT !.worker = w, !.closed = TRUE, !.queue = q]
    OBVIOUS
  <2> HIDE DEF c, d
  <2>3. d.reply = c.reply
    BY <2>1, <2>2 DEF Exchange
  <2> QED BY <2>3 DEF c, d
<1> QED BY <1>1, <1>2 DEF Asked

LEMMA AskedStays ==
  ASSUME CallInv, [Next]_vars, ~ Refused, ~ Accepted
  PROVE  Asked' = Asked
<1>1. requests \in Seq(Exchange)
  BY DEF CallInv
<1>2. CASE UNCHANGED requests
  BY <1>2 DEF Asked
<1>3. CASE requests' = Closed(Newest)
  BY <1>1, <1>3, RepliesStay DEF Closed
<1>4. CASE Taken
  BY <1>1, <1>4, RepliesStay DEF Taken
<1>5. CASE requests' = [requests EXCEPT ![Newest].worker = "next"]
  BY <1>1, <1>5, RepliesStay
<1>6. CASE \E i \in 1..MaxRequests : Worker(i)
  <2>1. PICK i : Worker(i)
    BY <1>6
  <2>2. CASE WorkerTakes(i)
    <3>1. \/ requests' = [requests EXCEPT ![i].worker = "end"]
          \/ requests' = [requests EXCEPT ![i].queue = Append(@, Head(requests[i].left)),
                                          ![i].left = IF The.endless THEN @ ELSE Tail(@)]
      BY <2>2, Zenon DEF WorkerTakes
    <3>2. CASE requests' = [requests EXCEPT ![i].worker = "end"]
      BY <1>1, <3>2, RepliesStay
    <3>3. CASE requests' = [requests EXCEPT ![i].queue = Append(@, Head(requests[i].left)),
                                            ![i].left = IF The.endless THEN @ ELSE Tail(@)]
      BY <1>1, <3>3, RepliesStay
    <3> QED BY <3>1, <3>2, <3>3
  <2>3. CASE WorkerEnds(i)
    BY <1>1, <2>3, RepliesStay DEF WorkerEnds
  <2>4. CASE WorkerFails(i)
    <3>1. PICK e : requests' = [requests EXCEPT ![i].worker = "end", ![i].queue = Append(@, Failure(e))]
      BY <2>4 DEF WorkerFails
    <3> QED BY <1>1, <3>1, RepliesStay
  <2>5. CASE WorkerGone(i)
    BY <1>1, <2>5, RepliesStay DEF WorkerGone
  <2> QED BY <2>1, <2>2, <2>3, <2>4, <2>5 DEF Worker
<1>7. CASE Call
  <2>1. \/ UNCHANGED requests \/ requests' = Closed(Newest) \/ Taken
        \/ requests' = [requests EXCEPT ![Newest].worker = "next"]
    BY <1>7, Zenon DEF Call, CancelledBefore, Complete, Started, GetEnd, GetFailure, GetError, GetText, GetFragment,
                       GetQuietly, Leaves, Finish, Retry, GiveUp, Compact
  <2> QED BY <1>2, <1>3, <1>4, <1>5, <2>1
<1>8. CASE CloseAbandoned
  BY <1>3, <1>8 DEF CloseAbandoned
<1>9. CASE Cancel \/ UNCHANGED vars
  BY <1>2, <1>9 DEF Cancel, vars
<1> QED BY <1>6, <1>7, <1>8, <1>9 DEF Next

LEMMA ProtocolInit == Init => Protocol!Init
<1> SUFFICES ASSUME Init  PROVE Protocol!Init
  OBVIOUS
<1>1. scene \in DOMAIN Scenes /\ requests = <<>> /\ outcome = "open" /\ answer = NoAnswer
  BY DEF Init
<1>2. MostRequests \in Nat
  BY <1>1, SceneFacts DEF MostRequests
<1>3. [i \in DOMAIN requests |-> requests[i].reply] = <<>>
  BY <1>1
<1>4. answer = Protocol!Nothing
  BY <1>1 DEF NoAnswer, Protocol!Nothing
<1> QED BY <1>1, <1>2, <1>3, <1>4 DEF Protocol!Init

(* The recoveries leave room for a request, as long as one can be sent.    *)
LEMMA RoomToAsk ==
  ASSUME CallInv, pc = "send"
  PROVE  Len(requests) < MostRequests
<1> DEFINE base == IF compacted = TRUE THEN The.retries + 1 ELSE 0
           l == Len(requests)
           R == The.retries
<1>1. attempt \in 0..R /\ l <= base + attempt + 0 /\ l \in Nat /\ R \in Nat
  BY SceneFacts DEF CallInv, Counted
<1>2. base = R + 1 \/ base = 0
  OBVIOUS
<1> HIDE DEF base, l, R
<1>3. l < 2 * (R + 1)
  BY <1>1, <1>2
<1> QED BY <1>3 DEF MostRequests, l, R

LEMMA AskStep ==
  ASSUME CallInv, outcome = "open", pc = "send", NEW r \in AllReplies, requests' = Append(requests, Connection(r)),
         UNCHANGED <<scene, outcome, answer>>
  PROVE  Protocol!Ask
<1>1. requests \in Seq(Exchange)
  BY DEF CallInv
<1>2. Len(Asked) < MostRequests
  BY <1>1, AskedShape, RoomToAsk
<1>3. Asked' = Append(Asked, r)
  BY <1>1, AskedOneMore
<1>4. MostRequests' = MostRequests
  BY DEF MostRequests, The
<1> QED BY <1>2, <1>3, <1>4 DEF Protocol!Ask, Asked

LEMMA AnswerStep ==
  ASSUME CallInv, pc \in {"reply", "finish"}, Asked' = Asked, outcome' = "answer", UNCHANGED scene, NEW r,
         r = requests[Newest].reply,
         \/ \E k \in 0..Len(r.text) : answer' = [text |-> SubSeq(r.text, 1, k), tools |-> <<>>]
         \/ answer' = [text |-> r.text, tools |-> Meant(r)]
  PROVE  Protocol!Answer
<1>1. requests \in Seq(Exchange) /\ requests # <<>> /\ outcome = "open"
  BY DEF CallInv, Answering
<1>2. Newest \in DOMAIN requests
  BY <1>1, NewestIsThere
<1>3. Asked # <<>> /\ Asked[Len(Asked)] = r
  <2>1. Len(Asked) = Len(requests) /\ Asked[Newest] = r
    BY <1>1, <1>2, AskedShape DEF Asked
  <2>2. Len(requests) # 0
    BY <1>1, EmptySeq
  <2>3. Asked # <<>>
    BY <2>1, <2>2
  <2> QED BY <2>1, <2>3 DEF Newest
<1>4. MostRequests' = MostRequests
  BY DEF MostRequests, The
<1>5. \/ \E k \in 0..Len(Said(r)) : answer' = [text |-> SubSeq(Said(r), 1, k), tools |-> <<>>]
      \/ answer' = [text |-> Said(r), tools |-> Meant(r)]
  BY DEF Said
<1> QED BY <1>1, <1>3, <1>4, <1>5 DEF Protocol!Answer, Asked

LEMMA FailStep ==
  ASSUME CallInv, outcome = "open", outcome' \in {"error", "cancelled"}, Asked' = Asked, UNCHANGED <<scene, answer>>
  PROVE  Protocol!Fail
<1>1. MostRequests' = MostRequests
  BY DEF MostRequests, The
<1> QED BY <1>1 DEF Protocol!Fail, Asked

LEMMA StutterStep ==
  ASSUME Asked' = Asked, UNCHANGED <<scene, outcome, answer>>
  PROVE  UNCHANGED Protocol!callVars
<1>1. MostRequests' = MostRequests
  BY DEF MostRequests, The
<1> QED BY <1>1 DEF Protocol!callVars, Asked

(* A reply in one piece is understood as it was meant.                     *)
LEMMA ParsedIsMeant ==
  ASSUME scene \in DOMAIN Scenes, NEW r \in The.replies
  PROVE  Parsed(r) = Meant(r)
<1>1. CASE The.provider = "anthropic"
  <2>1. Parsed(r) = Named(r.calls)
    BY <1>1 DEF Parsed
  <2> QED BY <1>1, <2>1, ReplyFacts
<1>2. CASE The.provider # "anthropic"
  <2>1. Named(r.calls) = [k \in DOMAIN r.calls |-> [id |-> r.calls[k].id, name |-> r.calls[k].name]]
    BY DEF Named
  <2> DEFINE whole == r.reason # "length" /\ \A k \in DOMAIN r.calls : r.calls[k].args = <<>> \/ IsObject(r.calls[k].args)
  <2>2. Parsed(r) = IF whole THEN Named(r.calls) ELSE <<>>
    BY <1>2, Zenon DEF Parsed
  <2>3. Meant(r) = IF whole THEN Named(r.calls) ELSE <<>>
    BY <2>1 DEF Meant, IsObject
  <2> QED BY <2>2, <2>3
<1> QED BY <1>1, <1>2

LEMMA ProtocolNext ==
  ASSUME CallInv, [Next]_vars
  PROVE  [Protocol!Next]_(Protocol!callVars)
<1>1. scene' = scene
  BY SceneStays
<1>2. CASE Refused
  <2>1. /\ pc = "send" /\ outcome = "open" /\ requests' = Append(requests, Connection(NoReply))
        /\ UNCHANGED <<outcome, answer>>
    BY <1>2 DEF Refused, Sends, ends
  <2>2. NoReply \in AllReplies
    BY DEF AllReplies
  <2> QED BY <1>1, <2>1, <2>2, AskStep DEF Protocol!Next
<1>3. CASE Accepted
  <2>1. pc = "send" /\ outcome = "open" /\ UNCHANGED <<outcome, answer>>
    BY <1>3 DEF Accepted, Sends, ends
  <2>2. PICK r \in The.replies : requests' = Append(requests, Connection(r))
    BY <1>3 DEF Accepted
  <2>3. r \in AllReplies
    BY <2>2, SceneFacts DEF CallInv
  <2> QED BY <1>1, <2>1, <2>2, <2>3, AskStep DEF Protocol!Next
<1>4. ASSUME ~ Refused, ~ Accepted  PROVE [Protocol!Next]_(Protocol!callVars)
  <2>1. Asked' = Asked
    BY <1>4, AskedStays
  <2>2. CASE UNCHANGED <<outcome, answer>>
    BY <1>1, <2>1, <2>2, StutterStep
  <2>3. CASE outcome = "open" /\ outcome' \in {"error", "cancelled"} /\ UNCHANGED answer
    BY <1>1, <2>1, <2>3, FailStep DEF Protocol!Next
  <2>4. CASE Complete
    <3>1. /\ pc = "reply" /\ outcome' = "answer"
          /\ answer' = [text |-> requests[Newest].reply.text, tools |-> Parsed(requests[Newest].reply)]
      BY <2>4 DEF Complete
    <3>2. PICK r : r = requests[Newest].reply
      OBVIOUS
    <3>3. r \in The.replies /\ scene \in DOMAIN Scenes
      BY <3>1, <3>2 DEF CallInv, Answering
    <3>4. answer' = [text |-> r.text, tools |-> Meant(r)]
      BY <3>1, <3>2, <3>3, ParsedIsMeant
    <3> QED BY <1>1, <2>1, <3>1, <3>2, <3>4, AnswerStep DEF Protocol!Next
  <2>5. CASE Finish /\ ~ Leaves
    <3>1. pc = "finish" /\ outcome' = "answer" /\ answer' = [text |-> text, tools |-> Assembled]
      BY <2>5 DEF Finish
    <3>2. PICK r : r = requests[Newest].reply
      OBVIOUS
    <3>3. r \in The.replies /\ scene \in DOMAIN Scenes /\ Streaming /\ \E n \in Nat : Holds(r.chunks, n)
      BY <3>1, <3>2 DEF CallInv, Answering
    <3>4. ComesInChunks(r) /\ r.chunks \in Seq(Range(r.chunks))
      BY <3>3, ReplyFacts
    <3>5. \/ Assembled = <<>> /\ \E k \in 0..Len(r.text) : text = SubSeq(r.text, 1, k)
          \/ Assembled = Meant(r) /\ text = r.text
      BY <3>3, <3>4, AnswerIsMeant
    <3>6. \/ \E k \in 0..Len(r.text) : answer' = [text |-> SubSeq(r.text, 1, k), tools |-> <<>>]
          \/ answer' = [text |-> r.text, tools |-> Meant(r)]
      BY <3>1, <3>5
    <3> QED BY <1>1, <2>1, <3>1, <3>2, <3>6, AnswerStep DEF Protocol!Next
  <2>6. ASSUME Leaves, pc # "done"  PROVE outcome = "open" /\ outcome' \in {"error", "cancelled"} /\ UNCHANGED answer
    BY <2>6 DEF CallInv, Leaves, Cancelled
  <2>7. CASE CancelledBefore
    BY <2>3, <2>7 DEF CancelledBefore, Cancelled
  <2>8. CASE Started \/ GetError \/ GetText \/ GetFragment \/ (Finish /\ Leaves)
    <3>1. pc # "done"
      BY <2>8 DEF Started, GetError, GetText, GetFragment, Got, Finish
    <3>2. Leaves \/ UNCHANGED <<outcome, answer>>
      BY <2>8, Zenon DEF Started, GetError, GetText, GetFragment, ends
    <3> QED BY <2>2, <2>3, <2>6, <3>1, <3>2
  <2>9. CASE GetEnd \/ GetFailure \/ GetQuietly \/ Retry
    BY <2>2, <2>9 DEF GetEnd, GetFailure, GetQuietly, Retry, ends
  <2>10. CASE GiveUp \/ Compact
    <3>1. outcome = "open"
      BY <2>10 DEF CallInv, GiveUp, Compact
    <3>2. UNCHANGED answer /\ (outcome' = "error" \/ UNCHANGED outcome)
      BY <2>10 DEF GiveUp, Compact
    <3> QED BY <2>2, <2>3, <3>1, <3>2
  <2>11. CASE CloseAbandoned \/ (\E i \in 1..MaxRequests : Worker(i)) \/ Cancel \/ UNCHANGED vars
    BY <2>2, <2>11 DEF CloseAbandoned, Worker, Cancel, vars, ends
  <2> QED BY <1>4, <2>4, <2>5, <2>7, <2>8, <2>9, <2>10, <2>11 DEF Next, Call
<1> QED BY <1>2, <1>3, <1>4

(* Whatever the replies, their chunks and the order they come in, wherever *)
(* the connection breaks and whenever the turn is cancelled: a call ends   *)
(* with the reply to the request sent last, all its tool calls after all   *)
(* its text or a beginning of the text, with an error, or cancelled, and   *)
(* sends no more requests than its recoveries allow.                       *)
THEOREM StreamIsACall == Spec => ImplementsProviderCall
<1>1. Init => Protocol!Init
  BY ProtocolInit
<1>2. CallInv /\ [Next]_vars => [Protocol!Next]_(Protocol!callVars)
  BY ProtocolNext
<1>3. Spec => []CallInv
  BY CallInvariance
<1> QED BY <1>1, <1>2, <1>3, PTL DEF Spec, ImplementsProviderCall, Protocol!Spec
=============================================================================
