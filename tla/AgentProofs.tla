---------------------------- MODULE AgentProofs -----------------------------
(***************************************************************************)
(* The quoting agent (QuoteAgent) for any number of instances, mids, ids   *)
(* and faults, and the session keys agents trade with (SessionKey) for any *)
(* number of keys, owners and orders.                                      *)
(***************************************************************************)
EXTENDS QuoteAgent, SessionKey, FiniteSetTheorems, TLAPS

-----------------------------------------------------------------------------
(***************************************************************************)
(* For any number of instances, any threshold and any faults: a tripped    *)
(* instance never adds a quote.                                            *)
(*                                                                         *)
(* The switch is read once per iteration, before the cancels, and not      *)
(* again before the places.  So the invariant says where a tripped         *)
(* instance can be: never past its cancels.                                *)
(***************************************************************************)
QuietOnceTripped ==
    /\ DOMAIN agent = Instances
    /\ \A i \in Instances :
        /\ DOMAIN agent[i] = {"pc", "bid", "ask", "lastMid", "tripped", "mid", "placed"}
        /\ agent[i].tripped => agent[i].pc \notin {"placeBid", "placeAsk"}

-----------------------------------------------------------------------------
\* A step of one instance.
LEMMA OthersKept ==
    ASSUME QuietOnceTripped, NEW i \in Instances, NEW a, Becomes(i, a),
           DOMAIN a = {"pc", "bid", "ask", "lastMid", "tripped", "mid", "placed"},
           a.tripped => a.pc \notin {"placeBid", "placeAsk"}
    PROVE  QuietOnceTripped'
BY DEF QuietOnceTripped, Becomes

\* The one step that trips the switch sends the instance to its cancels.
LEMMA FetchRiskStep ==
    ASSUME QuietOnceTripped, NEW i \in Instances, FetchRisk(i)
    PROVE  QuietOnceTripped'
<1> DEFINE a == [agent[i] EXCEPT !.tripped = Observed(@, losing)]
<1>1. DOMAIN agent[i] = {"pc", "bid", "ask", "lastMid", "tripped", "mid", "placed"}
  BY DEF QuietOnceTripped
<1>2. CASE Becomes(i, [a EXCEPT !.pc = "cancelBid", !.mid = IF a.tripped THEN None ELSE @])
  BY <1>1, <1>2, OthersKept, Zenon
<1>3. CASE Becomes(i, [a EXCEPT !.pc = "renew", !.mid = None])
  BY <1>1, <1>3, OthersKept, Zenon
<1>4. CASE Becomes(i, [agent[i] EXCEPT !.pc = "renew", !.mid = None])
  BY <1>1, <1>4, OthersKept, Zenon
<1>5. QED
  BY <1>2, <1>3, <1>4 DEF FetchRisk

\* Every step keeps tripped instances out of their places.
LEMMA QuoteInvStep == QuietOnceTripped /\ [QuoteNext]_quoteVars => QuietOnceTripped'
<1> SUFFICES ASSUME QuietOnceTripped, [QuoteNext]_quoteVars
             PROVE  QuietOnceTripped'
  OBVIOUS
<1>1. ASSUME NEW i \in Instances, Acquire(i) \/ Step(i) \/ Crash(i)
      PROVE  QuietOnceTripped'
  <2>1. DOMAIN agent[i] = {"pc", "bid", "ask", "lastMid", "tripped", "mid", "placed"}
    BY DEF QuietOnceTripped
  <2>2. CASE Acquire(i) \/ Crash(i)
    BY <2>2, OthersKept DEF Acquire, Crash, Started, Exited
  <2>3. CASE Renew(i)
    BY <2>1, <2>3, OthersKept DEF Renew, Exited
  <2>4. CASE FetchMid(i)
    BY <2>1, <2>4, OthersKept, Zenon DEF FetchMid
  <2>5. CASE FetchRisk(i)
    BY <2>5, FetchRiskStep
  <2>6. CASE CancelBid(i)
    BY <2>1, <2>6, OthersKept, Zenon DEF CancelBid
  <2>7. CASE CancelAsk(i)
    BY <2>1, <2>7, OthersKept, Zenon DEF CancelAsk
  <2>8. CASE PlaceBid(i)
    <3>1. ~agent[i].tripped
      BY <2>8 DEF PlaceBid, QuietOnceTripped
    <3>2. QED
      BY <2>1, <2>8, <3>1, OthersKept, Zenon DEF PlaceBid, PlaceFails
  <2>9. CASE PlaceAsk(i)
    BY <2>1, <2>9, OthersKept, Zenon DEF PlaceAsk, PlaceFails
  <2>10. QED
    BY <1>1, <2>2, <2>3, <2>4, <2>5, <2>6, <2>7, <2>8, <2>9 DEF Step
<1>2. CASE Expire \/ Fill \/ MidMoves \/ PnlMoves \/ UNCHANGED quoteVars
  BY <1>2 DEF Expire, Fill, MidMoves, PnlMoves, quoteVars, QuietOnceTripped
<1>3. QED
  BY <1>1, <1>2 DEF QuoteNext

-----------------------------------------------------------------------------
\* The quotes of an instance.
Quotes(i, f) == {x \in DOMAIN f : f[x].by = i}

\* What KilledStaysQuiet says of one step.
QuietStep ==
    \A i \in Instances : agent[i].tripped /\ agent'[i].tripped =>
        {x \in DOMAIN open' : open'[x].by = i} \subseteq {x \in DOMAIN open : open[x].by = i}

\* A place adds a quote of the instance that places, and of no other.
LEMMA PlacedByOne ==
    ASSUME NEW i, NEW j, i # j, NEW side
    PROVE  Quotes(i, QuoteRests(j, side)) \subseteq Quotes(i, open)
BY DEF Quotes, QuoteRests

\* An order that leaves the book adds no quote.
LEMMA NoneAdded ==
    ASSUME NEW i, NEW id
    PROVE  Quotes(i, Without(id)) \subseteq Quotes(i, open)
BY DEF Quotes, Without

\* So no step adds a quote of a tripped instance.
LEMMA TrippedIsQuiet == QuietOnceTripped /\ [QuoteNext]_quoteVars => QuietStep
<1> SUFFICES ASSUME QuietOnceTripped, [QuoteNext]_quoteVars, NEW i \in Instances, agent[i].tripped
             PROVE  Quotes(i, open') \subseteq Quotes(i, open)
  BY DEF QuietStep, Quotes
<1>1. CASE open' = open
  BY <1>1
<1>2. CASE \E id : open' = Without(id)
  BY <1>2, NoneAdded
<1>3. ASSUME NEW j \in Instances, NEW side, open' = QuoteRests(j, side), PlaceBid(j) \/ PlaceAsk(j)
      PROVE  Quotes(i, open') \subseteq Quotes(i, open)
  <2>1. i # j
    BY <1>3 DEF PlaceBid, PlaceAsk, QuietOnceTripped
  <2>2. QED
    BY <1>3, <2>1, PlacedByOne
<1>4. ASSUME NEW j \in Instances, PlaceBid(j) \/ PlaceAsk(j)
      PROVE  Quotes(i, open') \subseteq Quotes(i, open)
  BY <1>1, <1>3, <1>4, Zenon DEF PlaceBid, PlaceAsk, PlaceFails
<1>5. QED
  BY <1>1, <1>2, <1>4, Zenon DEF QuoteNext, Step, Acquire, Renew, FetchMid, FetchRisk, CancelBid, CancelAsk, Crash,
                          Expire, Fill, MidMoves, PnlMoves, quoteVars

(***************************************************************************)
(* Whatever the oracle, PnL, the lease and the edge do, and whoever else   *)
(* quotes: once the switch of an instance has tripped, its quotes on the   *)
(* edge only go (KillSwitch::observe, run_quote_iteration).                *)
(***************************************************************************)
THEOREM KilledIsQuiet == QuoteSpec => KilledStaysQuiet
<1>1. QuoteInit => QuietOnceTripped
  BY DEF QuoteInit, QuietOnceTripped, Exited
<1>2. QED
  BY <1>1, QuoteInvStep, TrippedIsQuiet, PTL DEF QuoteSpec, KilledStaysQuiet, QuietStep

-----------------------------------------------------------------------------
(***************************************************************************)
(* For any number of instances and any faults: how many quotes rest on the *)
(* edge.                                                                   *)
(*                                                                         *)
(* The bound on the orphans is not inductive: an instance that lost its    *)
(* lease goes on to the end of its iteration, may replace its quotes on    *)
(* the way, and leaves them when it next renews, a step that is no fault.  *)
(* The fault was the expiry.  So the invariant counts two quotes for every *)
(* instance that runs without the lease, whatever it holds now.            *)
(***************************************************************************)
Loose == {i \in Instances : agent[i].pc # "exited" /\ lease # i}

Fields == {"pc", "bid", "ask", "lastMid", "tripped", "mid", "placed"}

\* Where an instance may hold which ids.
Shape(a) ==
    /\ DOMAIN a = Fields
    /\ {a.bid, a.ask, a.placed} \subseteq Ids \cup {None}
    /\ a.pc = "exited" => a.bid = None /\ a.ask = None
    /\ a.pc \in {"cancelAsk", "placeBid", "placeAsk"} => a.bid = None
    /\ a.pc \in {"placeBid", "placeAsk"} => a.ask = None
    /\ a.pc # "placeAsk" => a.placed = None

\* The quotes an instance holds are its own, on the side it takes them for.
Ours(i, a, f) ==
    \A x \in DOMAIN f :
        /\ x \in {a.bid, a.placed} => f[x] = [by |-> i, side |-> "buy"]
        /\ x = a.ask => f[x] = [by |-> i, side |-> "sell"]

QuotesOK ==
    /\ lease \in Instances \cup {Nobody}
    /\ DOMAIN agent = Instances
    /\ \A i \in Instances : Shape(agent[i]) /\ Ours(i, agent[i], open)
    /\ DOMAIN open \subseteq Ids

QuotesCounted ==
    /\ faults \in 0 .. MaxFaults
    /\ IsFiniteSet(Loose)
    /\ Cardinality(Orphans) + 2 * Cardinality(Loose) <= 2 * faults

-----------------------------------------------------------------------------
\* One more element at most counts for one: an order id joins the set of ids
\* the book holds and the maker does not know.
LEMMA OneMore ==
    ASSUME NEW S, IsFiniteSet(S), NEW x
    PROVE  /\ IsFiniteSet(S \cup {x})
           /\ Cardinality(S) \in Nat /\ Cardinality(S \cup {x}) \in Nat
           /\ Cardinality(S \cup {x}) <= Cardinality(S) + 1
<1> DEFINE a == Cardinality(S)
           b == Cardinality(S \cup {x})
<1>1. IsFiniteSet(S \cup {x}) /\ (b = a \/ b = a + 1)
  BY FS_AddElement, Zenon
<1>2. a \in Nat /\ b \in Nat
  BY <1>1, FS_CardinalityType, Zenon
<1> HIDE DEF a, b
<1>3. b <= a + 1
  BY <1>1, <1>2
<1>4. QED
  BY <1>1, <1>2, <1>3, Zenon DEF a, b

\* Two more elements at most count for two.
LEMMA TwoMore ==
    ASSUME NEW S, IsFiniteSet(S), NEW x, NEW y, NEW T \in SUBSET (S \cup {x, y})
    PROVE  IsFiniteSet(T) /\ Cardinality(T) \in Nat /\ Cardinality(T) <= Cardinality(S) + 2
<1> DEFINE S1 == S \cup {x}
           S2 == S1 \cup {y}
<1>1. Cardinality(S) \in Nat
  BY FS_CardinalityType
<1>2. IsFiniteSet(S1) /\ Cardinality(S1) <= Cardinality(S) + 1
  BY OneMore, Zenon
<1>3. Cardinality(S1) \in Nat
  BY <1>2, FS_CardinalityType
<1>4. IsFiniteSet(S2) /\ Cardinality(S2) <= Cardinality(S1) + 1
  <2> HIDE DEF S1
  <2>1. QED
    BY <1>2, OneMore, Zenon
<1>5. T \in SUBSET S2
  OBVIOUS
<1>6. IsFiniteSet(T) /\ Cardinality(T) <= Cardinality(S2)
  <2> HIDE DEF S2
  <2>1. QED
    BY <1>4, <1>5, FS_Subset
<1>7. Cardinality(T) \in Nat /\ Cardinality(S2) \in Nat
  BY <1>4, <1>6, FS_CardinalityType
<1> HIDE DEF S1, S2
<1>8. QED
  BY <1>1, <1>2, <1>3, <1>4, <1>6, <1>7

\* The quotes nobody will cancel are finitely many.
LEMMA OrphansFinite ==
    ASSUME QuotesOK
    PROVE  IsFiniteSet(Orphans) /\ Cardinality(Orphans) \in Nat
<1>1. Orphans \in SUBSET Ids
  BY DEF Orphans, QuotesOK
<1>2. IsFiniteSet(Orphans)
  BY <1>1, QuoteAssumption, FS_Subset, Zenon
<1>3. QED
  BY <1>2, FS_CardinalityType

\* The first of the quotes an instance may hold.
FirstOf(a) == IF a.placed # None THEN a.placed ELSE a.bid

\* An instance holds two quotes at most: cycle forgets the old pair before it
\* places the new one.
LEMMA TwoHeld ==
    ASSUME NEW a, Shape(a)
    PROVE  {a.bid, a.ask, a.placed} \ {None} \subseteq {FirstOf(a), a.ask}
BY DEF Shape, FirstOf

\* The instances without the lease hold two quotes each at most.
LEMMA LooseHold ==
    ASSUME QuotesOK, IsFiniteSet(Loose)
    PROVE  /\ IsFiniteSet(UNION {Held(i) : i \in Loose})
           /\ Cardinality(UNION {Held(i) : i \in Loose}) <= 2 * Cardinality(Loose)
<1> DEFINE P == Loose \X {1, 2}
           f == [p \in P |-> IF p[2] = 1 THEN FirstOf(agent[p[1]]) ELSE agent[p[1]].ask]
           R == {f[p] : p \in P}
           H == UNION {Held(i) : i \in Loose}
<1>1. IsFiniteSet({1, 2}) /\ Cardinality({1, 2}) = 2
  <2>1. IsFiniteSet({1}) /\ Cardinality({1}) = 1
    BY FS_Singleton, Zenon
  <2>2. IsFiniteSet({1} \cup {2}) /\ Cardinality({1} \cup {2}) = 1 + 1
    <3>1. 2 \notin {1}
      OBVIOUS
    <3>2. QED
      BY <2>1, <3>1, FS_AddElement, Zenon
  <2>3. {1} \cup {2} = {1, 2}
    OBVIOUS
  <2>4. QED
    BY <2>2, <2>3
<1>2. IsFiniteSet(P) /\ Cardinality(P) = Cardinality(Loose) * 2
  BY <1>1, FS_Product
<1>3. f \in Surjection(P, R)
  BY Zenon DEF Surjection
<1>4. IsFiniteSet(R) /\ Cardinality(R) <= Cardinality(P)
  <2> HIDE DEF P, f, R
  <2>1. QED
    BY <1>2, <1>3, FS_Surjection, Zenon
<1>5. H \in SUBSET R
  <2>1. ASSUME NEW i \in Loose, NEW x \in Held(i)
        PROVE  x \in R
    <3>1. x \in {FirstOf(agent[i]), agent[i].ask}
      <4>1. Shape(agent[i])
        BY DEF QuotesOK, Loose
      <4>2. QED
        BY <4>1, TwoHeld DEF Held
    <3>2. f[<<i, 1>>] = FirstOf(agent[i]) /\ f[<<i, 2>>] = agent[i].ask
      OBVIOUS
    <3>3. <<i, 1>> \in P /\ <<i, 2>> \in P
      OBVIOUS
    <3> HIDE DEF f, P
    <3>4. QED
      BY <3>1, <3>2, <3>3, Zenon
  <2>2. QED
    BY <2>1, Zenon
<1>6. IsFiniteSet(H) /\ Cardinality(H) <= Cardinality(R)
  <2> HIDE DEF H, R
  <2>1. QED
    BY <1>4, <1>5, FS_Subset
<1>7. Cardinality(H) \in Nat /\ Cardinality(R) \in Nat /\ Cardinality(Loose) \in Nat
  BY <1>4, <1>6, FS_CardinalityType
<1> HIDE DEF P, f, R, H
<1>8. Cardinality(H) <= 2 * Cardinality(Loose)
  BY <1>2, <1>4, <1>6, <1>7
<1>9. QED
  BY <1>6, <1>8 DEF H

\* So a fresh id is there whenever one is needed.
LEMMA FreshIdIsNew ==
    ASSUME QuotesOK, QuotesCounted
    PROVE  FreshId \in Ids /\ FreshId \notin Used
<1> DEFINE H == UNION {Held(i) : i \in Loose}
           x == IF lease \in Instances THEN FirstOf(agent[lease]) ELSE None
           y == IF lease \in Instances THEN agent[lease].ask ELSE None
<1>1. IsFiniteSet(Orphans) /\ Cardinality(Orphans) \in Nat
  BY OrphansFinite
<1>2. IsFiniteSet(H) /\ Cardinality(H) <= 2 * Cardinality(Loose)
  BY LooseHold DEF QuotesCounted
<1>3. Used \in SUBSET ((Orphans \cup H) \cup {x, y})
  <2>1. ASSUME NEW i \in Instances, NEW z \in Held(i)
        PROVE  z \in H \cup {x, y}
    <3>1. Shape(agent[i])
      BY DEF QuotesOK
    <3>2. CASE agent[i].pc = "exited"
      BY <3>1, <3>2, <2>1 DEF Shape, Held
    <3>3. CASE agent[i].pc # "exited" /\ lease # i
      BY <3>3, <2>1 DEF Loose
    <3>4. CASE lease = i
      <4>1. z \in {FirstOf(agent[i]), agent[i].ask}
        BY <3>1, TwoHeld, <2>1 DEF Held
      <4>2. QED
        BY <4>1, <3>4
    <3>5. QED
      BY <3>2, <3>3, <3>4
  <2> HIDE DEF H, x, y
  <2>2. QED
    BY <2>1 DEF Used, Orphans
<1> HIDE DEF H, x, y
<1>4. Cardinality(H) \in Nat /\ Cardinality(Loose) \in Nat
  BY <1>2, FS_CardinalityType DEF QuotesCounted
<1>5. IsFiniteSet(Orphans \cup H) /\ Cardinality(Orphans \cup H) <= Cardinality(Orphans) + Cardinality(H)
  <2>1. IsFiniteSet(Orphans \cap H)
    BY <1>1, FS_Intersection
  <2>2. Cardinality(Orphans \cap H) \in Nat
    BY <2>1, FS_CardinalityType
  <2>3. QED
    <3>1. /\ IsFiniteSet(Orphans \cup H)
          /\ Cardinality(Orphans \cup H)
             = Cardinality(Orphans) + Cardinality(H) - Cardinality(Orphans \cap H)
      BY <1>1, <1>2, FS_Union, Zenon
    <3>2. QED
      BY <1>1, <1>4, <2>2, <3>1
<1>6. Cardinality(Orphans \cup H) \in Nat
  BY <1>5, FS_CardinalityType
<1>7. IsFiniteSet(Used) /\ Cardinality(Used) \in Nat /\ Cardinality(Used) <= Cardinality(Orphans \cup H) + 2
  BY <1>3, <1>5, TwoMore, Zenon
<1>8. Cardinality(Used) <= 2 * MaxFaults + 2
  BY <1>1, <1>2, <1>4, <1>5, <1>6, <1>7, QuoteAssumption DEF QuotesCounted
<1>9. ~(Ids \subseteq Used)
  <2>1. SUFFICES ASSUME Ids \subseteq Used PROVE FALSE
    OBVIOUS
  <2>2. Cardinality(Ids) <= Cardinality(Used) /\ Cardinality(Ids) \in Nat
    BY <1>7, <2>1, FS_Subset, FS_CardinalityType, QuoteAssumption, Zenon
  <2>3. QED
    BY <2>2, <1>7, <1>8, QuoteAssumption
<1>10. \E id \in Ids : id \notin Used
  BY <1>9
<1>11. QED
  BY <1>10, Zenon DEF FreshId

-----------------------------------------------------------------------------
\* What an instance holds after a step of its own.
Holds(a) == {a.bid, a.ask, a.placed} \ {None}

\* The orphans a step of one instance makes: what it placed, or held, and
\* does not hold now.
LEMMA OrphansMade ==
    ASSUME QuotesOK, NEW i \in Instances, NEW a, Becomes(i, a), NEW D,
           \A z \in DOMAIN open' : z \in Holds(a) \/ z \in D \/ (z \in DOMAIN open /\ z \notin Held(i))
    PROVE  Orphans' \in SUBSET (Orphans \cup D)
<1>1. \A j \in Instances : Held(j)' = IF j = i THEN Holds(a) ELSE Held(j)
  BY DEF Becomes, Held, Holds, QuotesOK
<1>2. Orphans' = DOMAIN open' \ UNION {Held(j)' : j \in Instances}
  BY DEF Orphans
<1>3. \A z \in Orphans' : \A j \in Instances : z \notin Held(j)'
  BY <1>2
<1>4. QED
  BY <1>1, <1>2, <1>3 DEF Orphans

\* A step that is no fault and leaves no quote behind.
LEMMA NothingLeft ==
    ASSUME QuotesOK, QuotesCounted, Orphans' \in SUBSET Orphans, Loose' \in SUBSET Loose, faults' = faults
    PROVE  QuotesCounted'
<1>1. IsFiniteSet(Orphans) /\ Cardinality(Orphans) \in Nat
  BY OrphansFinite
<1>2. IsFiniteSet(Orphans') /\ Cardinality(Orphans') <= Cardinality(Orphans)
  BY <1>1, FS_Subset, Zenon
<1>3. IsFiniteSet(Loose') /\ Cardinality(Loose') <= Cardinality(Loose)
  BY FS_Subset, Zenon DEF QuotesCounted
<1>4. Cardinality(Orphans') \in Nat /\ Cardinality(Loose) \in Nat /\ Cardinality(Loose') \in Nat
  BY <1>2, <1>3, FS_CardinalityType, Zenon DEF QuotesCounted
<1>5. QED
  BY <1>1, <1>2, <1>3, <1>4, QuoteAssumption DEF QuotesCounted

\* A fault, which may leave two.
LEMMA TwoLeft ==
    ASSUME QuotesOK, QuotesCounted, NEW x, NEW y, Orphans' \in SUBSET (Orphans \cup {x, y}),
           Loose' \in SUBSET Loose, Fault
    PROVE  QuotesCounted'
<1>1. IsFiniteSet(Orphans) /\ Cardinality(Orphans) \in Nat
  BY OrphansFinite
<1>2. IsFiniteSet(Orphans') /\ Cardinality(Orphans') \in Nat /\ Cardinality(Orphans') <= Cardinality(Orphans) + 2
  BY <1>1, TwoMore, Zenon
<1>3. IsFiniteSet(Loose') /\ Cardinality(Loose') <= Cardinality(Loose)
  BY FS_Subset, Zenon DEF QuotesCounted
<1>4. Cardinality(Loose) \in Nat /\ Cardinality(Loose') \in Nat
  BY <1>3, FS_CardinalityType, Zenon DEF QuotesCounted
<1>5. QED
  BY <1>1, <1>2, <1>3, <1>4, QuoteAssumption DEF QuotesCounted, Fault

\* An instance that lost its lease before is over, and may leave two.
LEMMA LooseLeaves ==
    ASSUME QuotesOK, QuotesCounted, NEW x, NEW y, Orphans' \in SUBSET (Orphans \cup {x, y}),
           NEW i \in Loose, Loose' \in SUBSET (Loose \ {i}), faults' = faults
    PROVE  QuotesCounted'
<1>1. IsFiniteSet(Orphans) /\ Cardinality(Orphans) \in Nat
  BY OrphansFinite
<1>2. IsFiniteSet(Orphans') /\ Cardinality(Orphans') \in Nat /\ Cardinality(Orphans') <= Cardinality(Orphans) + 2
  BY <1>1, TwoMore, Zenon
<1>3. Cardinality(Loose) \in Nat
  BY FS_CardinalityType DEF QuotesCounted
<1>4. IsFiniteSet(Loose \ {i}) /\ Cardinality(Loose \ {i}) = Cardinality(Loose) - 1
  BY FS_RemoveElement DEF QuotesCounted
<1>5. IsFiniteSet(Loose') /\ Cardinality(Loose') <= Cardinality(Loose \ {i})
  BY <1>4, FS_Subset, Zenon
<1>6. Cardinality(Loose') \in Nat
  BY <1>5, FS_CardinalityType, Zenon
<1>7. QED
  BY <1>1, <1>2, <1>3, <1>4, <1>5, <1>6, QuoteAssumption DEF QuotesCounted

\* The lease runs out under its holder.
LEMMA OneLoose ==
    ASSUME QuotesOK, QuotesCounted, Orphans' = Orphans, NEW i, Loose' \in SUBSET (Loose \cup {i}), Fault
    PROVE  QuotesCounted'
<1>1. IsFiniteSet(Orphans) /\ Cardinality(Orphans) \in Nat
  BY OrphansFinite
<1>2. Cardinality(Loose) \in Nat
  BY FS_CardinalityType DEF QuotesCounted
<1>3. IsFiniteSet(Loose \cup {i}) /\ Cardinality(Loose \cup {i}) <= Cardinality(Loose) + 1
  BY OneMore, Zenon DEF QuotesCounted
<1>4. IsFiniteSet(Loose') /\ Cardinality(Loose') <= Cardinality(Loose \cup {i})
  BY <1>3, FS_Subset, Zenon
<1>5. Cardinality(Loose') \in Nat /\ Cardinality(Loose \cup {i}) \in Nat
  BY <1>3, <1>4, FS_CardinalityType, Zenon
<1>6. QED
  BY <1>1, <1>2, <1>3, <1>4, <1>5, QuoteAssumption DEF QuotesCounted, Fault

-----------------------------------------------------------------------------
\* Whose quotes are whose, after a step of instance i.
LEMMA OneSteps ==
    ASSUME QuotesOK, NEW i \in Instances, NEW a, Becomes(i, a), lease' \in Instances \cup {Nobody},
           Shape(a), DOMAIN open' \subseteq Ids, Ours(i, a, open'),
           \A j \in Instances : j # i => Ours(j, agent[j], open')
    PROVE  QuotesOK'
<1>1. DOMAIN agent' = Instances /\ agent'[i] = a /\ \A j \in Instances : j # i => agent'[j] = agent[j]
  BY DEF QuotesOK, Becomes
<1>2. \A j \in Instances : Shape(agent'[j]) /\ Ours(j, agent'[j], open')
  BY <1>1 DEF QuotesOK
<1>3. (\A j \in Instances : Shape(agent[j]) /\ Ours(j, agent[j], open))'
  BY <1>2, Zenon DEF Shape, Ours
<1>4. QED
  BY <1>1, <1>3 DEF QuotesOK

\* No quote changes hands when one leaves the edge.
LEMMA OursWithout ==
    ASSUME NEW i, NEW a, Ours(i, a, open), NEW id
    PROVE  Ours(i, a, Without(id)) /\ DOMAIN Without(id) \subseteq DOMAIN open
BY DEF Ours, Without

\* An instance that places nothing holds fewer ids.
LEMMA DropsOK ==
    ASSUME QuotesOK, NEW i \in Instances, NEW a, Becomes(i, a), lease' \in Instances \cup {Nobody}, Shape(a),
           a.bid \in {agent[i].bid, None}, a.ask \in {agent[i].ask, None}, a.placed \in {agent[i].placed, None},
           open' = open \/ \E id : open' = Without(id)
    PROVE  QuotesOK'
<1>1. \A j \in Instances : Ours(j, agent[j], open')
  BY OursWithout DEF QuotesOK
<1>2. DOMAIN open' \subseteq Ids
  BY Zenon DEF QuotesOK, Without
<1>3. Ours(i, a, open')
  <2>1. None \notin DOMAIN open'
    BY <1>2, QuoteAssumption DEF None
  <2>2. QED
    BY <1>1, <2>1 DEF Ours
<1>4. QED
  BY <1>1, <1>2, <1>3, OneSteps, Zenon

\* A quote is added under an id that nobody holds.
LEMMA OursAfterPlace ==
    ASSUME QuotesOK, QuotesCounted, NEW i, NEW side, NEW j \in Instances
    PROVE  /\ Ours(j, agent[j], QuoteRests(i, side))
           /\ DOMAIN QuoteRests(i, side) = DOMAIN open \cup {FreshId}
           /\ DOMAIN QuoteRests(i, side) \subseteq Ids
           /\ QuoteRests(i, side)[FreshId] = [by |-> i, side |-> side]
<1>1. FreshId \in Ids /\ FreshId \notin Used
  BY FreshIdIsNew
<1>2. FreshId \notin Held(j) /\ FreshId # None
  BY <1>1, QuoteAssumption DEF Used, None
<1>3. FreshId \notin {agent[j].bid, agent[j].ask, agent[j].placed}
  BY <1>2 DEF Held
<1>4. Ours(j, agent[j], open) /\ DOMAIN open \subseteq Ids
  BY DEF QuotesOK
<1>5. QED
  BY <1>1, <1>3, <1>4, Zenon DEF QuoteRests, Ours

\* The instances without the lease, after a step that moves no lease.
LEMMA LooseKept ==
    ASSUME QuotesOK, NEW i \in Instances, NEW a, Becomes(i, a), lease' = lease,
           a.pc = "exited" \/ agent[i].pc # "exited"
    PROVE  Loose' \in SUBSET Loose /\ (a.pc = "exited" => Loose' \in SUBSET (Loose \ {i}))
<1>1. agent'[i] = a /\ \A j \in Instances : j # i => agent'[j] = agent[j]
  BY DEF QuotesOK, Becomes
<1>2. QED
  BY <1>1 DEF Loose

-----------------------------------------------------------------------------
QuoteInv == QuotesOK /\ QuotesCounted

\* A step between two awaits that touches no quote.
LEMMA SameIds ==
    ASSUME QuoteInv, NEW i \in Instances, NEW a, Becomes(i, a), Shape(a), UNCHANGED <<lease, open>>,
           a.bid = agent[i].bid, a.ask = agent[i].ask, a.placed = agent[i].placed,
           agent[i].pc # "exited", Fault \/ UNCHANGED faults
    PROVE  QuoteInv'
<1>1. QuotesOK /\ QuotesCounted
  BY DEF QuoteInv
<1>2. QuotesOK'
  BY <1>1, DropsOK, Zenon DEF QuotesOK
<1>3. Loose' \in SUBSET Loose
  BY <1>1, LooseKept
<1>4. Orphans' \in SUBSET (Orphans \cup {})
  <2>1. Holds(a) = Held(i)
    BY DEF Holds, Held
  <2>2. QED
    BY <1>1, <2>1, OrphansMade
<1>5. CASE Fault
  <2>1. Orphans' \in SUBSET (Orphans \cup {None, None})
    BY <1>4
  <2>2. QED
    BY <1>1, <1>2, <1>3, <1>5, <2>1, TwoLeft DEF QuoteInv
<1>6. CASE UNCHANGED faults
  BY <1>1, <1>2, <1>3, <1>4, <1>6, NothingLeft DEF QuoteInv
<1>7. QED
  BY <1>5, <1>6

\* The task ends: by a fault, or because its lease was gone.
LEMMA Exits ==
    ASSUME QuoteInv, NEW i \in Instances, Becomes(i, Exited), UNCHANGED <<lease, open>>,
           Fault \/ (i \in Loose /\ UNCHANGED faults)
    PROVE  QuoteInv'
<1>1. QuotesOK /\ QuotesCounted /\ Shape(agent[i])
  BY DEF QuoteInv, QuotesOK
<1>2. Exited.pc = "exited" /\ Exited.bid = None /\ Exited.ask = None /\ Exited.placed = None /\ Shape(Exited)
  BY DEF Exited, Shape, Fields
<1>3. QuotesOK'
  BY <1>1, <1>2, DropsOK, Zenon DEF QuotesOK
<1>4. Loose' \in SUBSET Loose /\ Loose' \in SUBSET (Loose \ {i})
  BY <1>1, <1>2, LooseKept
<1>5. Held(i) \subseteq {FirstOf(agent[i]), agent[i].ask}
  BY <1>1, TwoHeld DEF Held
<1>6. Orphans' \in SUBSET (Orphans \cup {FirstOf(agent[i]), agent[i].ask})
  BY <1>1, <1>5, OrphansMade
<1>7. CASE Fault
  BY <1>1, <1>3, <1>4, <1>6, <1>7, TwoLeft DEF QuoteInv
<1>8. CASE i \in Loose /\ UNCHANGED faults
  BY <1>1, <1>3, <1>4, <1>6, <1>8, LooseLeaves, Zenon DEF QuoteInv
<1>9. QED
  BY <1>7, <1>8

\* The lease backend, the oracle and the risk source answer, or do not.
LEMMA AnswersStep ==
    ASSUME QuoteInv, NEW i \in Instances, Renew(i) \/ FetchMid(i) \/ FetchRisk(i)
    PROVE  QuoteInv'
<1>1. Shape(agent[i]) /\ agent[i].pc \in {"renew", "fetch", "risk"} /\ UNCHANGED <<lease, open>>
  BY DEF QuoteInv, QuotesOK, Renew, FetchMid, FetchRisk
<1>2. ASSUME NEW a, Becomes(i, a), DOMAIN a = Fields, a.bid = agent[i].bid, a.ask = agent[i].ask,
             a.placed = agent[i].placed, a.pc \in {"renew", "fetch", "risk", "cancelBid"}, Fault \/ UNCHANGED faults
      PROVE  QuoteInv'
  <2>1. Shape(a) /\ agent[i].pc # "exited"
    BY <1>1, <1>2, Zenon DEF Shape
  <2>2. QED
    BY <1>1, <1>2, <2>1, SameIds
<1>3. DOMAIN agent[i] = Fields
  BY <1>1 DEF Shape
<1>4. CASE Renew(i)
  <2>1. CASE Becomes(i, Exited) /\ Fault
    BY <1>1, <2>1, Exits, Zenon
  <2>2. CASE lease # i /\ Becomes(i, Exited) /\ UNCHANGED faults
    BY <1>1, <2>2, Exits DEF Loose
  <2>3. CASE Becomes(i, [agent[i] EXCEPT !.pc = "fetch"]) /\ UNCHANGED faults
    BY <1>2, <1>3, <2>3 DEF Fields
  <2>4. QED
    BY <1>4, <2>1, <2>2, <2>3 DEF Renew
<1>5. CASE FetchMid(i)
  BY <1>2, <1>3, <1>5, Zenon DEF FetchMid, Fields
<1>6. CASE FetchRisk(i)
  <2> DEFINE a == [agent[i] EXCEPT !.tripped = Observed(@, losing)]
  <2>1. CASE Becomes(i, [a EXCEPT !.pc = "cancelBid", !.mid = IF a.tripped THEN None ELSE @]) /\ UNCHANGED faults
    BY <1>2, <1>3, <2>1, Zenon DEF Fields
  <2>2. CASE Becomes(i, [a EXCEPT !.pc = "renew", !.mid = None]) /\ UNCHANGED faults
    BY <1>2, <1>3, <2>2, Zenon DEF Fields
  <2>3. CASE Becomes(i, [agent[i] EXCEPT !.pc = "renew", !.mid = None]) /\ Fault
    BY <1>2, <1>3, <2>3, Zenon DEF Fields
  <2>4. QED
    BY <1>6, <2>1, <2>2, <2>3 DEF FetchRisk
<1>7. QED
  BY <1>4, <1>5, <1>6

\* A cancel: the id is forgotten, and its quote gone unless the call failed.
LEMMA CancelStep ==
    ASSUME QuoteInv, NEW i \in Instances, CancelBid(i) \/ CancelAsk(i)
    PROVE  QuoteInv'
<1>1. QuotesOK /\ QuotesCounted /\ Shape(agent[i]) /\ lease' = lease
  BY DEF QuoteInv, QuotesOK, CancelBid, CancelAsk
<1>2. ASSUME NEW a, Becomes(i, a), NEW id, Shape(a), agent[i].pc # "exited",
             a.bid \in {agent[i].bid, None}, a.ask \in {agent[i].ask, None}, a.placed \in {agent[i].placed, None},
             Held(i) \subseteq Holds(a) \cup {id},
             (open' = Without(id) /\ UNCHANGED faults) \/ (Fault /\ UNCHANGED open)
      PROVE  QuoteInv'
  <2>1. QuotesOK'
    <3>1. lease' \in Instances \cup {Nobody}
      BY <1>1 DEF QuotesOK
    <3>2. open' = open \/ \E x : open' = Without(x)
      BY <1>2, Zenon
    <3>3. QED
      BY <1>1, <1>2, <3>1, <3>2, DropsOK
  <2>2. Loose' \in SUBSET Loose
    BY <1>1, <1>2, LooseKept, Zenon
  <2>3. CASE open' = Without(id) /\ UNCHANGED faults
    <3>1. \A z \in DOMAIN open' : z \in DOMAIN open /\ z # id
      BY <2>3 DEF Without
    <3>2. Orphans' \in SUBSET (Orphans \cup {})
      BY <1>1, <1>2, <3>1, OrphansMade
    <3>3. QED
      BY <1>1, <2>1, <2>2, <2>3, <3>2, NothingLeft DEF QuoteInv
  <2>4. CASE Fault /\ UNCHANGED open
    <3>1. Orphans' \in SUBSET (Orphans \cup {id, id})
      BY <1>1, <1>2, <2>4, OrphansMade, Zenon
    <3>2. QED
      BY <1>1, <2>1, <2>2, <2>4, <3>1, TwoLeft DEF QuoteInv
  <2>5. QED
    BY <1>2, <2>3, <2>4
<1>3. CASE CancelBid(i)
  <2> DEFINE a == [agent[i] EXCEPT !.pc = "cancelAsk", !.bid = None]
  <2>1. /\ DOMAIN a = Fields /\ a.bid = None /\ a.ask = agent[i].ask /\ a.placed = agent[i].placed
        /\ a.pc = "cancelAsk"
    BY <1>1 DEF Shape, Fields
  <2>2. agent[i].pc = "cancelBid" /\ Becomes(i, a)
    BY <1>3 DEF CancelBid
  <2>3. (open' = Without(agent[i].bid) /\ UNCHANGED faults) \/ (Fault /\ UNCHANGED open)
    BY <1>3 DEF CancelBid
  <2> HIDE DEF a
  <2>4. Shape(a)
    BY <1>1, <2>1, <2>2, Zenon DEF Shape
  <2>5. Held(i) \subseteq Holds(a) \cup {agent[i].bid}
    BY <2>1 DEF Held, Holds
  <2>6. QED
    BY <1>2, <2>1, <2>2, <2>3, <2>4, <2>5
<1>4. CASE CancelAsk(i)
  <2> DEFINE a == [agent[i] EXCEPT !.pc = IF agent[i].tripped THEN "renew" ELSE "placeBid", !.ask = None]
  <2>1. /\ DOMAIN a = Fields /\ a.bid = agent[i].bid /\ a.ask = None /\ a.placed = agent[i].placed
        /\ a.pc \in {"renew", "placeBid"}
    BY <1>1, Zenon DEF Shape, Fields
  <2>2. agent[i].pc = "cancelAsk" /\ Becomes(i, a)
    BY <1>4, Zenon DEF CancelAsk
  <2>3. (open' = Without(agent[i].ask) /\ UNCHANGED faults) \/ (Fault /\ UNCHANGED open)
    BY <1>4 DEF CancelAsk
  <2> HIDE DEF a
  <2>4. Shape(a)
    BY <1>1, <2>1, <2>2, Zenon DEF Shape
  <2>5. Held(i) \subseteq Holds(a) \cup {agent[i].ask}
    BY <2>1 DEF Held, Holds
  <2>6. QED
    BY <1>2, <2>1, <2>2, <2>3, <2>4, <2>5, Zenon
<1>5. QED
  BY <1>3, <1>4

\* A place that fails leaves its own quote and the bid placed before it.
LEMMA PlaceFailsStep ==
    ASSUME QuoteInv, NEW i \in Instances, NEW side, PlaceFails(i, side), agent[i].pc \in {"placeBid", "placeAsk"}
    PROVE  QuoteInv'
<1> DEFINE a == [agent[i] EXCEPT !.pc = "renew", !.mid = None, !.placed = None]
<1>1. QuotesOK /\ QuotesCounted /\ Shape(agent[i]) /\ lease' = lease /\ Fault /\ Becomes(i, a)
  BY DEF QuoteInv, QuotesOK, PlaceFails
<1>2. DOMAIN a = Fields /\ a.bid = agent[i].bid /\ a.ask = agent[i].ask /\ a.placed = None /\ a.pc = "renew"
  BY <1>1 DEF Shape, Fields
<1> HIDE DEF a
<1>3. Shape(a) /\ agent[i].bid = None /\ agent[i].ask = None
  BY <1>1, <1>2, Zenon DEF Shape
<1>4. /\ DOMAIN open' \subseteq DOMAIN open \cup {FreshId}
      /\ DOMAIN open' \subseteq Ids
      /\ \A j \in Instances : Ours(j, agent[j], open')
  BY <1>1, OursAfterPlace, Zenon DEF PlaceFails, QuotesOK
<1>5. Ours(i, a, open')
  <2>1. None \notin DOMAIN open'
    BY <1>4, QuoteAssumption DEF None
  <2>2. QED
    BY <1>2, <1>3, <2>1 DEF Ours
<1>6. QuotesOK'
  <2>1. lease' \in Instances \cup {Nobody}
    BY <1>1 DEF QuotesOK
  <2>2. QED
    BY <1>1, <1>3, <1>4, <1>5, <2>1, OneSteps, Zenon
<1>7. Loose' \in SUBSET Loose
  BY <1>1, LooseKept
<1>8. Held(i) \subseteq {agent[i].placed}
  BY <1>3 DEF Held
<1>9. Orphans' \in SUBSET (Orphans \cup {FreshId, agent[i].placed})
  <2>1. \A z \in DOMAIN open' : z \in {FreshId, agent[i].placed} \/ (z \in DOMAIN open /\ z \notin Held(i))
    BY <1>4, <1>8
  <2>2. QED
    BY <1>1, <2>1, OrphansMade, Zenon
<1>10. QED
  BY <1>1, <1>6, <1>7, <1>9, TwoLeft, Zenon DEF QuoteInv

\* A quote that is placed is held.
LEMMA PlacesStep ==
    ASSUME QuoteInv, NEW i \in Instances, NEW side, NEW a, Becomes(i, a), Shape(a),
           agent[i].pc \in {"placeBid", "placeAsk"}, open' = QuoteRests(i, side), UNCHANGED <<lease, faults>>,
           \/ side = "buy" /\ a.placed = FreshId /\ a.bid = None /\ a.ask = None /\ agent[i].placed = None
           \/ side = "sell" /\ a.placed = None /\ a.bid = agent[i].placed /\ a.ask = FreshId
    PROVE  QuoteInv'
<1>1. QuotesOK /\ QuotesCounted /\ Shape(agent[i])
  BY Zenon DEF QuoteInv, QuotesOK
<1>2. agent[i].bid = None /\ agent[i].ask = None
  BY <1>1, Zenon DEF Shape
<1>3. /\ \A j \in Instances : Ours(j, agent[j], open')
      /\ DOMAIN open' = DOMAIN open \cup {FreshId}
      /\ DOMAIN open' \subseteq Ids
      /\ open'[FreshId] = [by |-> i, side |-> side]
  BY <1>1, OursAfterPlace, Zenon
<1>4. None \notin DOMAIN open' /\ FreshId # None /\ FreshId \notin Used
  BY <1>1, <1>3, FreshIdIsNew, QuoteAssumption DEF None
<1>5. FreshId # agent[i].placed
  BY <1>4 DEF Used, Held
<1>6. Ours(i, a, open')
  BY <1>2, <1>3, <1>4, <1>5 DEF Ours
<1>7. QuotesOK'
  <2>1. lease' \in Instances \cup {Nobody}
    BY <1>1, Zenon DEF QuotesOK
  <2>2. QED
    BY <1>1, <1>3, <1>6, <2>1, OneSteps, Zenon
<1>8. Loose' \in SUBSET Loose
  BY <1>1, LooseKept
<1>9. FreshId \in Holds(a) /\ Held(i) \subseteq Holds(a)
  BY <1>2, <1>4, Zenon DEF Holds, Held
<1>10. Orphans' \in SUBSET (Orphans \cup {})
  BY <1>1, <1>3, <1>9, OrphansMade
<1>11. QED
  BY <1>1, <1>7, <1>8, <1>10, NothingLeft DEF QuoteInv

\* A quote placed takes an id nobody holds, and nobody loses one.
LEMMA PlaceStep ==
    ASSUME QuoteInv, NEW i \in Instances, PlaceBid(i) \/ PlaceAsk(i)
    PROVE  QuoteInv'
<1>1. QuotesOK /\ QuotesCounted /\ Shape(agent[i]) /\ agent[i].pc \in {"placeBid", "placeAsk"}
  BY DEF QuoteInv, QuotesOK, PlaceBid, PlaceAsk
<1>2. FreshId \in Ids
  BY <1>1, FreshIdIsNew
<1>3. CASE PlaceFails(i, "buy") \/ PlaceFails(i, "sell")
  BY <1>1, <1>3, PlaceFailsStep
<1>4. CASE PlaceBid(i) /\ ~PlaceFails(i, "buy")
  <2> DEFINE a == [agent[i] EXCEPT !.pc = "placeAsk", !.placed = FreshId]
  <2>1. Becomes(i, a) /\ open' = QuoteRests(i, "buy") /\ UNCHANGED <<lease, faults>> /\ agent[i].pc = "placeBid"
    BY <1>4 DEF PlaceBid
  <2>2. DOMAIN a = Fields /\ a.bid = agent[i].bid /\ a.ask = agent[i].ask /\ a.placed = FreshId /\ a.pc = "placeAsk"
    BY <1>1 DEF Shape, Fields
  <2> HIDE DEF a
  <2>3. Shape(a) /\ a.bid = None /\ a.ask = None /\ agent[i].placed = None
    BY <1>1, <1>2, <2>1, <2>2, Zenon DEF Shape
  <2>4. QED
    BY <1>1, <2>1, <2>2, <2>3, PlacesStep, Zenon
<1>5. CASE PlaceAsk(i) /\ ~PlaceFails(i, "sell")
  <2> DEFINE a == [agent[i] EXCEPT !.pc = "renew", !.bid = agent[i].placed, !.ask = FreshId,
                                   !.lastMid = agent[i].mid, !.mid = None, !.placed = None]
  <2>1. Becomes(i, a) /\ open' = QuoteRests(i, "sell") /\ UNCHANGED <<lease, faults>>
    BY <1>5 DEF PlaceAsk
  <2>2. DOMAIN a = Fields /\ a.bid = agent[i].placed /\ a.ask = FreshId /\ a.placed = None /\ a.pc = "renew"
    BY <1>1 DEF Shape, Fields
  <2> HIDE DEF a
  <2>3. Shape(a)
    BY <1>1, <1>2, <2>2, Zenon DEF Shape
  <2>4. QED
    BY <1>1, <2>1, <2>2, <2>3, PlacesStep, Zenon
<1>6. QED
  BY <1>3, <1>4, <1>5

\* The steps of the world around the instances.
LEMMA WorldStep ==
    ASSUME QuoteInv, Expire \/ Fill \/ MidMoves \/ PnlMoves \/ UNCHANGED quoteVars
    PROVE  QuoteInv'
<1>1. QuotesOK /\ QuotesCounted
  BY DEF QuoteInv
<1>2. CASE Expire
  <2>1. UNCHANGED <<agent, open>> /\ lease' = Nobody /\ lease \in Instances
    BY <1>1, <1>2, Zenon DEF Expire, QuotesOK
  <2>2. QuotesOK' /\ Orphans' = Orphans
    BY <1>1, <2>1 DEF QuotesOK, Shape, Ours, Orphans, Held
  <2>3. CASE agent[lease].pc = "exited"
    <3>1. Loose' \in SUBSET Loose /\ faults' = faults
      BY <1>2, <2>1, <2>3 DEF Loose, Expire
    <3>2. QED
      BY <1>1, <2>2, <3>1, NothingLeft DEF QuoteInv
  <2>4. CASE agent[lease].pc # "exited"
    <3>1. Loose' \in SUBSET (Loose \cup {lease}) /\ Fault
      BY <1>2, <2>1, <2>4 DEF Loose, Expire
    <3>2. QED
      BY <1>1, <2>2, <3>1, OneLoose DEF QuoteInv
  <2>5. QED
    BY <2>3, <2>4
<1>3. CASE Fill \/ MidMoves \/ PnlMoves \/ UNCHANGED quoteVars
  <2>1. UNCHANGED <<lease, agent, faults>> /\ (open' = open \/ \E id : open' = Without(id))
    BY <1>3 DEF Fill, MidMoves, PnlMoves, quoteVars
  <2>2. DOMAIN open' \subseteq DOMAIN open /\ \A j \in Instances : Ours(j, agent[j], open')
    <3>1. DOMAIN open' \subseteq DOMAIN open
      BY <2>1, Zenon DEF Without
    <3>2. \A j \in Instances : Ours(j, agent[j], open)
      BY <1>1 DEF QuotesOK
    <3>3. QED
      BY <2>1, <3>1, <3>2, OursWithout, Zenon
  <2>3. QuotesOK'
    BY <1>1, <2>1, <2>2, Zenon DEF QuotesOK, Shape, Ours
  <2>4. Orphans' \in SUBSET Orphans /\ Loose' \in SUBSET Loose
    BY <2>1, <2>2, Zenon DEF Orphans, Held, Loose
  <2>5. QED
    BY <1>1, <2>1, <2>3, <2>4, NothingLeft DEF QuoteInv
<1>4. QED
  BY <1>2, <1>3

\* The invariant is inductive.
LEMMA QuotesStep == QuoteInv /\ [QuoteNext]_quoteVars => QuoteInv'
<1> SUFFICES ASSUME QuoteInv, [QuoteNext]_quoteVars
             PROVE  QuoteInv'
  OBVIOUS
<1>1. QuotesOK /\ QuotesCounted
  BY DEF QuoteInv
<1>2. ASSUME NEW i \in Instances, Acquire(i)
      PROVE  QuoteInv'
  <2>1. /\ Shape(agent[i]) /\ Shape(Started) /\ Becomes(i, Started) /\ open' = open /\ faults' = faults
        /\ agent[i].pc = "exited" /\ lease = Nobody /\ lease' = i
        /\ Started.bid = None /\ Started.ask = None /\ Started.placed = None
    BY <1>1, <1>2 DEF Acquire, QuotesOK, Shape, Started, Exited, Fields
  <2>2. QuotesOK'
    BY <1>1, <2>1, DropsOK, Zenon
  <2>3. Loose' \in SUBSET Loose
    <3>1. \A j \in Instances : j # i => agent'[j] = agent[j] /\ lease # j
      BY <1>1, <2>1, QuoteAssumption DEF QuotesOK, Becomes
    <3>2. QED
      BY <2>1, <3>1 DEF Loose
  <2>4. Orphans' \in SUBSET (Orphans \cup {})
    <3>1. Held(i) = {}
      BY <2>1, Zenon DEF Held, Shape
    <3>2. QED
      BY <1>1, <2>1, <3>1, OrphansMade
  <2>5. QED
    BY <1>1, <2>1, <2>2, <2>3, <2>4, NothingLeft DEF QuoteInv
<1>3. ASSUME NEW i \in Instances, Crash(i)
      PROVE  QuoteInv'
  BY <1>3, Exits DEF Crash
<1>4. ASSUME NEW i \in Instances, Step(i)
      PROVE  QuoteInv'
  BY <1>4, AnswersStep, CancelStep, PlaceStep DEF Step
<1>5. QED
  BY <1>2, <1>3, <1>4, WorldStep DEF QuoteNext

\* What the invariant says of the quotes on the edge.
LEMMA CountedIsBounded == QuoteInv => QuotesBounded
<1> SUFFICES ASSUME QuoteInv
             PROVE  QuotesBounded
  OBVIOUS
<1>1. QuotesOK /\ QuotesCounted
  BY DEF QuoteInv
<1>2. Cardinality(Orphans) \in Nat /\ Cardinality(Loose) \in Nat /\ IsFiniteSet(Orphans)
  BY <1>1, OrphansFinite, FS_CardinalityType DEF QuotesCounted
<1>3. OrphansBounded
  BY <1>1, <1>2 DEF OrphansBounded, QuotesCounted
<1>4. OneQuoter
  <2>1. SUFFICES ASSUME faults = 0, NEW x \in DOMAIN open, NEW y \in DOMAIN open
                 PROVE  open[x].by = open[y].by /\ (open[x].side = open[y].side => x = y)
    BY DEF OneQuoter
  <2>2. Cardinality(Orphans) = 0 /\ Cardinality(Loose) = 0
    BY <1>1, <1>2, <2>1 DEF QuotesCounted
  <2>3. Orphans = {} /\ Loose = {}
    BY <1>1, <1>2, <2>2, FS_EmptySet DEF QuotesCounted
  <2>4. ASSUME NEW z \in DOMAIN open
        PROVE  lease \in Instances /\ z \in Held(lease)
    <3>1. PICK i \in Instances : z \in Held(i)
      BY <2>3 DEF Orphans
    <3>2. agent[i].pc # "exited"
      BY <1>1, <3>1, Zenon DEF QuotesOK, Shape, Held
    <3>3. lease = i
      BY <2>3, <3>2 DEF Loose
    <3>4. QED
      BY <3>1, <3>3
  <2>5. lease \in Instances /\ x \in Held(lease) /\ y \in Held(lease)
    BY <2>4
  <2>6. Shape(agent[lease]) /\ Ours(lease, agent[lease], open)
    BY <1>1, <2>5 DEF QuotesOK
  <2>7. x # None /\ y # None
    BY <2>5 DEF Held
  <2>8. QED
    BY <2>5, <2>6, <2>7 DEF Shape, Ours, Held
<1>5. QED
  BY <1>3, <1>4 DEF QuotesBounded

(***************************************************************************)
(* However ticks, fills, takeovers, crashes and lost answers come, and     *)
(* whatever the number of instances: every fault leaves at most two quotes *)
(* that nobody will cancel, and without faults the edge holds one bid and  *)
(* one ask of one instance at most (run_quote_iteration, market_loop).     *)
(***************************************************************************)
THEOREM QuotesStayBounded == QuoteSpec => []QuotesBounded
<1>1. QuoteInit => QuoteInv
  <2>1. SUFFICES ASSUME QuoteInit
                 PROVE  QuoteInv
    OBVIOUS
  <2>2. Exited.pc = "exited" /\ Shape(Exited)
    BY Zenon DEF Exited, Shape, Fields
  <2>3. Orphans = {} /\ Loose = {}
    BY <2>1, <2>2 DEF QuoteInit, Orphans, Loose
  <2>4. QuotesOK
    BY <2>1, <2>2, Zenon DEF QuoteInit, QuotesOK, Ours
  <2>5. QuotesCounted
    BY <2>1, <2>3, FS_EmptySet, QuoteAssumption DEF QuoteInit, QuotesCounted
  <2>6. QED
    BY <2>4, <2>5 DEF QuoteInv
<1>2. QED
  BY <1>1, QuotesStep, CountedIsBounded, PTL DEF QuoteSpec

-----------------------------------------------------------------------------
(***************************************************************************)
(* For any keys, owners and orders in flight and either registry: sessions *)
(* pay for exactly what they were charged, within their caps.              *)
(*                                                                         *)
(* That a debit is the caller's is not in the debit, which does not see    *)
(* the caller.  It was tested when the session was looked up, so the       *)
(* invariant carries it from there: while the key has not been registered  *)
(* again the owner is still the caller (FoundIsCallers).                   *)
(***************************************************************************)
Session == [owner : Owners \cup {NoOwner}, expires : Nat, cap : Nat, spent : Nat, active : BOOLEAN]

SessionTypeOK ==
    /\ session \in [Keys -> Session]
    /\ DOMAIN order = Orders
    /\ charged \in [Keys -> Nat] /\ gen \in [Keys -> Nat]

FoundIsCallers ==
    \A r \in Orders : order[r].at = "found" =>
        /\ order[r].key \in Keys /\ order[r].amount \in Nat
        /\ order[r].gen \in Nat /\ order[r].gen <= gen[order[r].key]
        /\ order[r].gen = gen[order[r].key] => session[order[r].key].owner = order[r].caller

SessionInv == SessionTypeOK /\ FoundIsCallers /\ BudgetHolds

-----------------------------------------------------------------------------
\* register: a key that is registered again is a new generation.
LEMMA RegisterStep ==
    ASSUME SessionInv, NEW k \in Keys, NEW o \in Owners, NEW e \in 0..MaxKeyTime, NEW cap \in Caps,
           Register(k, o, e, cap)
    PROVE  SessionInv'
<1> USE DEF SessionInv
<1>1. Registered(o, e, cap) \in Session /\ Registered(o, e, cap).spent = 0 /\ Registered(o, e, cap).cap \in Nat
  BY SessionAssumption DEF Registered, Session
<1>2. /\ session' \in [Keys -> Session] /\ session'[k] = Registered(o, e, cap)
      /\ \A j \in Keys \ {k} : session'[j] = session[j]
  BY <1>1, Zenon DEF Register, SessionTypeOK
<1>3. /\ gen' \in [Keys -> Nat] /\ gen'[k] = gen[k] + 1 /\ gen[k] \in Nat
      /\ \A j \in Keys \ {k} : gen'[j] = gen[j]
  BY DEF Register, SessionTypeOK
<1>4. /\ charged' \in [Keys -> Nat] /\ charged'[k] = 0 /\ order' = order
      /\ \A j \in Keys \ {k} : charged'[j] = charged[j]
  BY Zenon DEF Register, SessionTypeOK
<1>5. SessionTypeOK'
  BY <1>2, <1>3, <1>4, Zenon DEF SessionTypeOK
<1>6. FoundIsCallers'
  BY <1>2, <1>3, <1>4 DEF FoundIsCallers
<1>7. BudgetHolds'
  BY <1>1, <1>2, <1>4 DEF BudgetHolds
<1>8. QED
  BY <1>5, <1>6, <1>7

\* revoke keeps the owner, the cap and what was spent.
LEMMA RevokeStep ==
    ASSUME SessionInv, NEW k \in Keys, NEW o \in Owners, Revoke(k, o)
    PROVE  SessionInv'
<1> USE DEF SessionInv
<1>1. session[k] \in Session
  BY DEF SessionTypeOK
<1>2. /\ session' \in [Keys -> Session]
      /\ \A j \in Keys : /\ session'[j].owner = session[j].owner
                         /\ session'[j].spent = session[j].spent /\ session'[j].cap = session[j].cap
  BY <1>1, Zenon DEF Revoke, SessionTypeOK, Session
<1>3. UNCHANGED <<order, charged, gen>>
  BY DEF Revoke
<1>4. QED
  BY <1>2, <1>3 DEF SessionTypeOK, FoundIsCallers, BudgetHolds

\* The lookup is where the owner is compared with the caller.
LEMMA LookupStep ==
    ASSUME SessionInv, NEW r \in Orders, NEW k \in Keys, NEW o \in Owners, NEW amount \in Amounts,
           Lookup(r, k, o, amount)
    PROVE  SessionInv'
<1> USE DEF SessionInv
<1>1. UNCHANGED <<session, charged, gen>> /\ amount \in Nat /\ gen[k] \in Nat
  BY SessionAssumption, Zenon DEF Lookup, SessionTypeOK
<1>2. CASE order' = order
  BY <1>1, <1>2, Zenon DEF SessionTypeOK, FoundIsCallers, BudgetHolds
<1>3. CASE order' # order
  <2> DEFINE found == [at |-> "found", key |-> k, caller |-> o, amount |-> amount,
                       seen |-> session[k], gen |-> gen[k]]
  <2>1. order' = [order EXCEPT ![r] = found] /\ session[k].owner = o
    BY <1>3, Zenon DEF Lookup
  <2>2. DOMAIN order' = Orders /\ order'[r] = found /\ \A q \in Orders \ {r} : order'[q] = order[q]
    BY <2>1, Zenon DEF SessionTypeOK
  <2>3. FoundIsCallers'
    BY <1>1, <2>1, <2>2 DEF FoundIsCallers
  <2>4. QED
    BY <1>1, <2>2, <2>3, Zenon DEF SessionTypeOK, BudgetHolds
<1>4. QED
  BY <1>2, <1>3

-----------------------------------------------------------------------------
(***************************************************************************)
(* The debit: on the session as it is, or not at all.                      *)
(***************************************************************************)
LEMMA Debited ==
    ASSUME SessionInv, NEW r \in Orders, Consume(r)
    PROVE  LET k == order[r].key IN
           /\ k \in Keys /\ UNCHANGED gen
           /\ DOMAIN order' = Orders /\ order'[r].at = "idle"
           /\ \A q \in Orders \ {r} : order'[q] = order[q]
           /\ \/ UNCHANGED <<session, charged>>
              \/ /\ Accepts(session[k], order[r].amount) /\ order[r].amount \in Nat
                 /\ session' = [session EXCEPT ![k].spent = @ + order[r].amount]
                 /\ charged' = [charged EXCEPT ![k] = @ + order[r].amount]
<1>1. order[r].key \in Keys /\ order[r].amount \in Nat
  BY Zenon DEF Consume, SessionInv, FoundIsCallers
<1>2. DOMAIN order' = Orders /\ order'[r].at = "idle" /\ \A q \in Orders \ {r} : order'[q] = order[q]
  BY DEF Consume, NoOrder, SessionInv, SessionTypeOK
<1>3. UNCHANGED gen
  BY DEF Consume
<1>4. \/ UNCHANGED <<session, charged>>
      \/ /\ Accepts(session[order[r].key], order[r].amount)
         /\ session' = [session EXCEPT ![order[r].key].spent = @ + order[r].amount]
         /\ charged' = [charged EXCEPT ![order[r].key] = @ + order[r].amount]
  BY Zenon DEF Consume
<1>5. QED
  BY <1>1, <1>2, <1>3, <1>4, Zenon

\* consume: the spend and the charge grow together, within the cap.
LEMMA ConsumeStep ==
    ASSUME SessionInv, NEW r \in Orders, Consume(r)
    PROVE  SessionInv'
<1> USE DEF SessionInv
<1> DEFINE k == order[r].key
           n == order[r].amount
<1>1. /\ gen' = gen /\ DOMAIN order' = Orders /\ order'[r].at = "idle"
      /\ \A q \in Orders \ {r} : order'[q] = order[q]
  BY Debited, Zenon
<1>2. CASE UNCHANGED <<session, charged>>
  BY <1>1, <1>2, Zenon DEF SessionTypeOK, FoundIsCallers, BudgetHolds
<1>3. CASE ~UNCHANGED <<session, charged>>
  <2>1. /\ k \in Keys /\ n \in Nat /\ Accepts(session[k], n)
        /\ session' = [session EXCEPT ![k].spent = @ + n]
        /\ charged' = [charged EXCEPT ![k] = @ + n]
    BY <1>3, Debited, Zenon
  <2>2. session[k] \in Session /\ charged[k] = session[k].spent /\ charged[k] \in Nat
    BY <2>1 DEF SessionTypeOK, BudgetHolds
  <2>3. session[k].spent + n <= session[k].cap
    BY <2>1, Zenon DEF Accepts
  <2> HIDE DEF k, n
  <2>4. /\ session' \in [Keys -> Session]
        /\ session'[k].spent = session[k].spent + n /\ session'[k].cap = session[k].cap
        /\ \A j \in Keys : session'[j].owner = session[j].owner
        /\ \A j \in Keys \ {k} : session'[j] = session[j]
    <3> DEFINE paid == [session[k] EXCEPT !.spent = @ + n]
    <3>1. /\ paid \in Session /\ paid.spent = session[k].spent + n
          /\ paid.cap = session[k].cap /\ paid.owner = session[k].owner
      BY <2>1, <2>2 DEF Session
    <3>2. session' = [session EXCEPT ![k] = paid]
      BY <2>1
    <3> HIDE DEF paid
    <3>3. QED
      BY <2>1, <3>1, <3>2 DEF SessionTypeOK
  <2>5. /\ charged' \in [Keys -> Nat] /\ charged'[k] = charged[k] + n
        /\ \A j \in Keys \ {k} : charged'[j] = charged[j]
    BY <2>1, <2>2 DEF SessionTypeOK
  <2>6. SessionTypeOK' /\ FoundIsCallers'
    BY <1>1, <2>4, <2>5 DEF SessionTypeOK, FoundIsCallers
  <2>7. BudgetHolds'
    BY <2>1, <2>2, <2>3, <2>4, <2>5 DEF BudgetHolds
  <2>8. QED
    BY <2>6, <2>7
<1>4. QED
  BY <1>2, <1>3

\* Every step of the registry and of the orders keeps the invariant.
LEMMA SessionInvStep == SessionInv /\ [KeyNext]_keyVars => SessionInv'
<1> SUFFICES ASSUME SessionInv, [KeyNext]_keyVars
             PROVE  SessionInv'
  OBVIOUS
<1>1. CASE \E k \in Keys, o \in Owners, e \in 0..MaxKeyTime, cap \in Caps : Register(k, o, e, cap)
  BY <1>1, RegisterStep
<1>2. CASE \E k \in Keys, o \in Owners : Revoke(k, o)
  BY <1>2, RevokeStep
<1>3. CASE \E r \in Orders, k \in Keys, o \in Owners, amount \in Amounts : Lookup(r, k, o, amount)
  BY <1>3, LookupStep
<1>4. CASE \E r \in Orders : Consume(r)
  BY <1>4, ConsumeStep
<1>5. CASE SecondPasses \/ (\E isEdge \in BOOLEAN : SetConsumer(isEdge)) \/ UNCHANGED keyVars
  <2>1. UNCHANGED <<session, order, charged, gen>>
    BY <1>5 DEF SecondPasses, SetConsumer, keyVars
  <2>2. QED
    BY <2>1, Zenon DEF SessionInv, SessionTypeOK, FoundIsCallers, BudgetHolds
<1>6. QED
  BY <1>1, <1>2, <1>3, <1>4, <1>5 DEF KeyNext

-----------------------------------------------------------------------------
\* What DebitsAreDue says of one step.
DueStep ==
    \A r \in Orders :
        order[r].at = "found" /\ order'[r].at = "idle" /\ Debit(order[r].key) =>
            LET s == session[order[r].key] IN
            Valid(s) /\ (s.owner = order[r].caller \/ gen[order[r].key] # order[r].gen)

\* Only a debit both ends a chain and charges, and it charges a live session.
LEMMA DebitIsDue == SessionInv /\ [KeyNext]_keyVars => DueStep
<1> SUFFICES ASSUME SessionInv, [KeyNext]_keyVars, NEW r \in Orders,
                    order[r].at = "found", order'[r].at = "idle", Debit(order[r].key)
             PROVE  LET s == session[order[r].key] IN
                    Valid(s) /\ (s.owner = order[r].caller \/ gen[order[r].key] # order[r].gen)
  BY Zenon DEF DueStep
<1> DEFINE k == order[r].key
<1>1. k \in Keys /\ charged[k] \in Nat /\ gen[k] \in Nat
      /\ (order[r].gen = gen[k] => session[k].owner = order[r].caller)
  BY Zenon DEF SessionInv, SessionTypeOK, FoundIsCallers
<1>2. gen'[k] = gen[k] /\ charged'[k] # charged[k]
  BY <1>1 DEF Debit
<1>3. PICK q \in Orders : Consume(q)
  <2>1. ASSUME NEW c \in Keys, NEW o \in Owners, NEW e \in 0..MaxKeyTime, NEW cap \in Caps,
               Register(c, o, e, cap)
        PROVE  FALSE
    BY <2>1, <1>1, <1>2, Zenon DEF Register, SessionInv, SessionTypeOK
  <2>2. QED
    BY <2>1, <1>2 DEF KeyNext, Revoke, SetConsumer, Lookup, SecondPasses, keyVars
<1>4. q = r
  BY <1>3, Debited, Zenon
<1>5. Accepts(session[k], order[r].amount)
  BY <1>2, <1>3, <1>4, Debited, Zenon
<1>6. Valid(session[k])
  BY <1>5, Zenon DEF Accepts
<1>7. QED
  BY <1>1, <1>6, Zenon

(***************************************************************************)
(* However many chains run at once, and whatever is registered, revoked or *)
(* expires between their lookup and their debit: a session's account is    *)
(* what was debited, it stays within the cap, and each debit is from a     *)
(* live session of the caller, or of a key registered anew                 *)
(* (verify_order_chain, SessionRegistry::consume, SessionKey.consume).     *)
(***************************************************************************)
THEOREM SessionsPayTheirOrders == KeySpec => SessionsPay
<1>1. KeyInit => SessionInv
  BY DEF KeyInit, SessionInv, SessionTypeOK, FoundIsCallers, BudgetHolds, NoSession, NoOrder, Session
<1>2. SessionInv => BudgetHolds
  BY DEF SessionInv
<1>3. KeySpec => [][DueStep]_keyVars
  BY <1>1, SessionInvStep, DebitIsDue, PTL DEF KeySpec
<1>4. KeySpec => []BudgetHolds
  BY <1>1, <1>2, SessionInvStep, PTL DEF KeySpec
<1>5. QED
  BY <1>3, <1>4, PTL DEF SessionsPay, DebitsAreDue, DueStep
=============================================================================
