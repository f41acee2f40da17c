---------------------------- MODULE Market_proofs ----------------------------
(***************************************************************************)
(* Proofs about Market, for any offers, prices, GPUs, configuration and    *)
(* requests: types, that what the monitor recommends is an upgrade and the *)
(* cheapest one it could have seen, and that no dominated offer is rented. *)
(***************************************************************************)
EXTENDS Market, TLAPS

-----------------------------------------------------------------------------
(* The operators.                                                           *)

LEMMA SmallerOfTwo ==
    ASSUME NEW x \in Nat, NEW y \in Nat
    PROVE  Min({x, y}) \in Nat /\ Min({x, y}) <= x /\ Min({x, y}) <= y
<1>1. CASE x <= y
  <2>1. x \in {x, y} /\ \A z \in {x, y} : x =< z
    BY <1>1
  <2> QED BY <2>1 DEF Min
<1>2. CASE ~(x <= y)
  <2>1. y \in {x, y} /\ \A z \in {x, y} : y =< z
    BY <1>2
  <2> QED BY <2>1 DEF Min
<1> QED BY <1>1, <1>2

LEMMA LargestOfThree ==
    ASSUME NEW x \in Nat, NEW y \in Nat, NEW z \in Nat
    PROVE  /\ Max({x, y, z}) \in {x, y, z}
           /\ x <= Max({x, y, z}) /\ y <= Max({x, y, z}) /\ z <= Max({x, y, z})
<1>1. \E m \in {x, y, z} : \A n \in {x, y, z} : m >= n
  <2>1. CASE x >= y /\ x >= z
    BY <2>1
  <2>2. CASE y >= x /\ y >= z
    BY <2>2
  <2>3. CASE z >= x /\ z >= y
    BY <2>3
  <2> QED BY <2>1, <2>2, <2>3
<1> QED BY <1>1 DEF Max

\* The faster of two links takes no longer.
LEMMA FasterIsSooner ==
    ASSUME NEW n \in Nat, NEW slow \in Nat \ {0}, NEW fast \in Nat, slow <= fast
    PROVE  n \div fast \in Nat /\ n \div slow \in Nat /\ n \div fast <= n \div slow
<1> DEFINE q == n \div fast
           r == n \div slow
<1>1. /\ q \in Nat /\ q * fast <= n
      /\ r \in Nat /\ n < (r + 1) * slow
  OBVIOUS
<1>2. ASSUME r < q PROVE FALSE
  <2> HIDE DEF q, r
  <2>1. (r + 1) * slow <= q * slow
    BY <1>1, <1>2
  <2>2. q * slow <= q * fast
    BY <1>1
  <2> QED BY <1>1, <2>1, <2>2
<1> QED BY <1>1, <1>2

\* What is asked for is not above what may be paid, nor above the bid.
LEMMA Ceiling ==
    ASSUME NEW cap \in Nat \cup {None}, NEW bid \in Nat \cup {None}
    PROVE  MaxDph(cap, bid) \in Nat /\ (bid # None => MaxDph(cap, bid) <= bid)
  BY SmallerOfTwo, ConfigAssumption DEF MaxDph

\* An offer that is listed has a price, a bid for it too.
LEMMA PriceOfAMatch ==
    ASSUME price \in [Offers -> Amounts], NEW p \in Profiles, NEW o \in Matches(p), NEW kind
    PROVE  /\ o \in Offers /\ o \in Listed[p] /\ price[o] > 0
           /\ Dph(kind, o) \in 1..Highest
  BY OfferAssumption, BoundsAssumption DEF Matches, Dph, Amounts

-----------------------------------------------------------------------------
(* Type correctness.                                                        *)

LEMMA BidTypes ==
    ASSUME NEW r \in Requests
    PROVE  BidPrice(r.interruptible, r.bid, r.cap) \in Nat \cup {None}
  BY RequestsAssumption, ConfigAssumption DEF BidPrice

\* What `up` or `replace` has chosen from.
LEMMA SelectionOf ==
    ASSUME price \in [Offers -> Amounts], NEW p \in Profiles, NEW cap, NEW bid, NEW pin, NEW skips,
           NEW mode, NEW o, Selects(p, cap, bid, pin, skips, mode, o)
    PROVE  o \in Matches(p)
  BY DEF Selects, Answers

LEMMA MachinesAreSkippable ==
    ASSUME NEW o \in Offers PROVE Offer[o].machine \in Skippable
<1> DEFINE machines == {Offer[x].machine : x \in Offers}
<1>1. Offer[o].machine \in machines
  OBVIOUS
<1>2. machines \subseteq Skippable
  BY Zenon DEF Skippable
<1> QED BY <1>1, <1>2

\* What a request makes of state.json.
LEMMA RentTypes ==
    ASSUME TypeOK, NEW p \in Profiles, NEW r \in Requests, Rents(p, r)
    PROVE  /\ file' \in Deployments
           /\ rented' \in [cap : Nat, pin : Offers \cup {None}, chosen : Deployments,
                           market : [Offers -> Amounts]]
<1> DEFINE bid == BidPrice(r.interruptible, r.bid, r.cap)
           skips == Config.blocklist \cup r.skips
                    \cup (IF file # None /\ r.pin = None THEN {Offer[file.offer].machine} ELSE {})
<1>1. PICK o \in Offers :
        /\ Selects(p, r.cap, bid, r.pin, skips, r.mode, o)
        /\ file' = Deployment(p, o, bid, skips)
        /\ rented' = [cap |-> MaxDph(r.cap, bid), pin |-> r.pin, chosen |-> file', market |-> price]
  BY DEF Rents
<1>2. bid \in Nat \cup {None}
  BY BidTypes
<1>3. skips \subseteq Skippable
  <2> SUFFICES ASSUME NEW x \in skips PROVE x \in Skippable
    OBVIOUS
  <2>1. CASE x \in Config.blocklist
    BY <2>1 DEF Skippable
  <2>2. CASE x \in r.skips
    BY <2>2 DEF Skippable
  <2>3. CASE file # None /\ x = Offer[file.offer].machine
    <3>1. file.offer \in Offers
      BY <2>3 DEF TypeOK, Deployments
    <3> QED BY <2>3, <3>1, MachinesAreSkippable
  <2> QED BY <2>1, <2>2, <2>3
<1> HIDE DEF bid, skips
<1>4. o \in Matches(p) /\ price \in [Offers -> Amounts]
  BY <1>1, SelectionOf DEF TypeOK
<1>5. Dph(Kind(bid), o) \in 1..Highest
  BY <1>4, PriceOfAMatch
<1>6. file' \in Deployments
  BY <1>1, <1>2, <1>3, <1>5, OfferAssumption DEF Deployment, Deployments
<1>7. MaxDph(r.cap, bid) \in Nat
  BY <1>2, Ceiling, RequestsAssumption
<1> QED BY <1>1, <1>4, <1>6, <1>7, RequestsAssumption

\* What a search adds.
Candidates(profile, answer) ==
    {[offer |-> x, dph |-> Dph(terms.kind, x), by |-> profile] : x \in answer}

\* A search asks for what is not above what was settled.
Asked(profile) == {x \in Matches(profile) : Dph(terms.kind, x) <= terms.max}

LEMMA SearchTypes ==
    ASSUME TypeOK, NEW p \in Profiles, NEW answer \in SUBSET Matches(p)
    PROVE  Candidates(p, answer) \subseteq [offer : Offers, dph : 1..Highest, by : Profiles]
  BY PriceOfAMatch DEF Candidates, TypeOK

LEMMA StepTypes == TypeOK /\ [Next]_vars => TypeOK'
<1> SUFFICES ASSUME TypeOK, [Next]_vars PROVE TypeOK'
  OBVIOUS
<1> USE BoundsAssumption DEF TypeOK, monitor
<1>1. ASSUME NEW p \in Profiles, NEW r \in Requests, Rents(p, r)
      PROVE  TypeOK'
  <2>1. commands' \in 0..MaxCommands
    BY <1>1 DEF Rents
  <2> QED BY <1>1, <2>1, RentTypes DEF Rents
<1>2. CASE Down
  BY <1>2 DEF Down
<1>3. CASE Looks /\ rented' = None
  BY <1>3 DEF Looks
<1>9. CASE Loads /\ rented' = None
  <2>1. CASE file = None
    BY <1>9, <2>1 DEF Loads
  <2>2. CASE file # None
    BY <1>9, <2>2, SearchableAssumption DEF Loads, Targets, Deployments
  <2> QED BY <2>1, <2>2
<1>10. CASE Asks /\ rented' = None
  <2>1. terms' \in [kind : {"on-demand", "bid"}, max : Nat]
    <3>1. PICK bid : /\ bid = (IF file # None THEN data.bid ELSE None)
                     /\ terms' = [kind |-> Kind(bid), max |-> MaxDph(PriceCap, bid)]
      BY <1>10 DEF Asks
    <3>2. bid \in Nat \cup {None} /\ PriceCap \in Nat \cup {None}
      BY <1>10, <3>1 DEF Asks, PriceCap, Deployments
    <3>3. MaxDph(PriceCap, bid) \in Nat
      BY <3>2, Ceiling, Zenon
    <3>4. Kind(bid) \in {"on-demand", "bid"}
      BY DEF Kind
    <3>5. \A k \in {"on-demand", "bid"}, m \in Nat :
             [kind |-> k, max |-> m] \in [kind : {"on-demand", "bid"}, max : Nat]
      OBVIOUS
    <3> QED BY <3>1, <3>3, <3>4, <3>5
  <2> QED BY <1>10, <2>1 DEF Asks
<1>4. CASE Searches /\ rented' = None
  <2>1. PICK p \in left :
          /\ left' = left \ {p}
          /\ \/ \E answer \in Answers(Asked(p), terms.kind, Config.maxResults) :
                  found' = found \cup Candidates(p, answer) /\ UNCHANGED faults
             \/ faults < MaxFaults /\ faults' = faults + 1 /\ UNCHANGED found
    BY <1>4 DEF Searches, Asked, Candidates
  <2>2. found' \subseteq [offer : Offers, dph : 1..Highest, by : Profiles]
    BY <2>1, SearchTypes DEF Answers, Asked
  <2> QED BY <1>4, <2>1, <2>2 DEF Searches
<1>5. CASE Ranks /\ rented' = None
  BY <1>5 DEF Ranks, Rests, AlertKey
<1>6. CASE (FindsItGone \/ Sleeps) /\ rented' = None
  BY <1>6 DEF FindsItGone, Sleeps, Rests
<1>7. CASE Moves
  <2>1. price' \in [Offers -> Amounts] /\ kept' \subseteq Offers
    BY <1>7 DEF Moves
  <2> QED BY <1>7, <2>1 DEF Moves
<1>8. CASE UNCHANGED vars
  BY <1>8 DEF vars
<1> QED BY <1>1, <1>2, <1>3, <1>4, <1>5, <1>6, <1>7, <1>8, <1>9, <1>10 DEF Next, Monitor

LEMMA InitTypes == Init => TypeOK
  BY OpeningsAssumption, BoundsAssumption DEF Init, TypeOK

\* Every reachable state is well typed: what is rented and what is recommended
\* was listed, at a price (search_offers, _fill_fresh_state, _search_profiles).
THEOREM TypeCorrectness == Spec => []TypeOK
<1> QED BY InitTypes, StepTypes, PTL DEF Spec

-----------------------------------------------------------------------------
(* The monitor recommends an upgrade.                                       *)

\* Of what the user has ruled out nothing is forgotten, and the GPU that is
\* compared with is that of the machine that runs.
Records(d) ==
    d # None => Config.blocklist \subseteq d.skips /\ d.gpu = Offer[d.offer].gpu

\* What did not change since the round began is listed still.
KeptIsListed == \A o \in kept : price[o] > 0

\* A bid is searched for up to the deployment's own.
AskedByTheBid ==
    pc \in {"search", "alert"} /\ terms.kind = "bid" => terms.max <= data.bid /\ data.bid # None

\* A candidate is from its profile's listing, and not above what was asked for.
FoundIsAsked ==
    \A f \in found : pc \in {"search", "alert"} /\ f.offer \in Listed[f.by] /\ f.dph <= terms.max

\* What could have been found with a candidate, and is cheaper, was found too:
\* the provider shows its cheapest matches.
FoundWithTheCheaper ==
    \A f \in found : \A o \in kept \cap Listed[f.by] :
       /\ Config.requireFreeTraffic => Offer[o].downCost <= Config.maxDownCost
       /\ Offer[o].space >= Config.diskGb
       /\ Dph(terms.kind, o) < f.dph
       => \E g \in found : g.offer = o /\ g.dph = Dph(terms.kind, o)

\* The alert is for the cheapest of what would do, whatever state.json said of
\* the price when they were ranked.
AlertIsBest ==
    pc = "alert" =>
      \E f \in found : /\ last = AlertKey(f) /\ Fits(f) /\ IsWorthAnAlert(f.dph)
                       /\ \A g \in found : Fits(g) => f.dph <= g.dph

IInv ==
    /\ TypeOK
    /\ Records(file) /\ Records(data)
    /\ KeptIsListed /\ AskedByTheBid /\ FoundIsAsked /\ FoundWithTheCheaper /\ AlertIsBest

\* Types first; what the conjuncts of IInv read of the state.
monitorView == <<price, pc, data, left, terms, found, last, kept>>

LEMMA ViewUnchanged ==
    ASSUME IInv, TypeOK', UNCHANGED monitorView, Records(file)' PROVE IInv'
  BY DEF IInv, monitorView, Records, KeptIsListed, AskedByTheBid, FoundIsAsked, FoundWithTheCheaper,
     AlertIsBest, Fits, IsWorthAnAlert, Dph, AlertKey, IsExcluded

LEMMA RentRecords ==
    ASSUME NEW p \in Profiles, NEW r \in Requests, Rents(p, r)
    PROVE  Records(file)' /\ UNCHANGED monitorView
  BY DEF Rents, Records, Deployment, monitorView, monitor

\* The search of one profile.
LEMMA SearchInv ==
    ASSUME IInv, TypeOK', Searches
    PROVE  FoundIsAsked' /\ FoundWithTheCheaper'
<1> DEFINE kind == terms.kind
<1>1. PICK p \in left :
        \/ \E answer \in Answers(Asked(p), kind, Config.maxResults) :
              found' = found \cup Candidates(p, answer)
        \/ UNCHANGED found
  BY DEF Searches, Asked, Candidates
<1>2. /\ UNCHANGED <<price, data, terms, kept>>
      /\ terms \in [kind : {"on-demand", "bid"}, max : Nat] /\ pc = "search" /\ pc' = "search"
  BY DEF Searches, IInv, TypeOK
<1>3. CASE UNCHANGED found
  BY <1>2, <1>3 DEF IInv, FoundIsAsked, FoundWithTheCheaper, Dph
<1>4. ASSUME NEW answer \in Answers(Asked(p), kind, Config.maxResults),
             found' = found \cup Candidates(p, answer)
      PROVE  FoundIsAsked' /\ FoundWithTheCheaper'
  <2>1. answer \subseteq Asked(p) /\ p \in Profiles
    BY <1>4 DEF Answers, IInv, TypeOK
  <2>2. \A x \in answer, y \in Asked(p) \ answer : Dph(kind, x) <= Dph(kind, y)
    BY <1>4 DEF Answers
  <2>3. price \in [Offers -> Amounts] /\ terms.max \in Nat
    BY <1>2 DEF IInv, TypeOK
  <2>5. ASSUME NEW x \in Asked(p)
        PROVE  /\ x \in Offers /\ x \in Listed[p] /\ Dph(kind, x) \in 1..Highest
               /\ Dph(kind, x) <= terms.max
    BY <2>1, <2>3, <2>5, PriceOfAMatch DEF Asked
  <2>6. FoundIsAsked'
    <3> SUFFICES ASSUME NEW f \in found'
        PROVE f.offer \in Listed[f.by] /\ f.dph <= terms.max
      BY <1>2 DEF FoundIsAsked
    <3>1. CASE f \in found
      BY <3>1 DEF IInv, FoundIsAsked
    <3>2. CASE f \in Candidates(p, answer)
      <4>1. PICK x \in answer : f = [offer |-> x, dph |-> Dph(kind, x), by |-> p]
        BY <3>2 DEF Candidates
      <4>2. f.offer = x /\ f.dph = Dph(kind, x) /\ f.by = p
        BY <4>1
      <4> QED BY <2>1, <2>5, <4>2
    <3> QED BY <1>4, <3>1, <3>2
  <2>7. FoundWithTheCheaper'
    <3> SUFFICES
          ASSUME NEW f \in found', NEW o \in kept \cap Listed[f.by],
                 Config.requireFreeTraffic => Offer[o].downCost <= Config.maxDownCost,
                 Offer[o].space >= Config.diskGb, Dph(kind, o) < f.dph
          PROVE  \E g \in found' : g.offer = o /\ g.dph = Dph(kind, o)
      BY <1>2 DEF FoundWithTheCheaper, Dph
    <3>1. CASE f \in found
      BY <1>4, <3>1 DEF IInv, FoundWithTheCheaper
    <3>2. CASE f \in Candidates(p, answer)
      <4>1. PICK x \in answer : f = [offer |-> x, dph |-> Dph(kind, x), by |-> p]
        BY <3>2 DEF Candidates
      <4>2. f.dph = Dph(kind, x) /\ f.by = p /\ x \in Asked(p)
        BY <2>1, <4>1
      <4>3. o \in Matches(p)
        BY <4>2 DEF Matches, IInv, KeptIsListed
      <4>4. Dph(kind, o) \in 1..Highest
        BY <2>1, <2>3, <4>3, PriceOfAMatch
      <4>5. o \in Asked(p)
        BY <2>3, <2>5, <4>2, <4>3, <4>4, BoundsAssumption DEF Asked
      <4>6. o \in answer
        BY <2>2, <2>5, <4>2, <4>4, <4>5, BoundsAssumption
      <4>7. [offer |-> o, dph |-> Dph(kind, o), by |-> p] \in found'
        BY <1>4, <4>6 DEF Candidates
      <4> QED BY <4>7
    <3> QED BY <1>4, <3>1, <3>2
  <2> QED BY <2>6, <2>7
<1> QED BY <1>1, <1>3, <1>4

LEMMA StepInv == IInv /\ [Next]_vars => IInv'
<1> SUFFICES ASSUME IInv, [Next]_vars PROVE IInv'
  OBVIOUS
<1>0. TypeOK'
  BY StepTypes DEF IInv
<1>1. ASSUME NEW p \in Profiles, NEW r \in Requests, Rents(p, r)
      PROVE  IInv'
  BY <1>0, <1>1, RentRecords, ViewUnchanged
<1>2. CASE Down
  BY <1>0, <1>2, ViewUnchanged DEF Down, Records, monitorView, monitor
<1>3. CASE Looks \/ Loads
  <2>1. /\ UNCHANGED <<price, file, terms, found, last, kept>> /\ found = {}
        /\ pc' \notin {"search", "alert"} /\ data' \in {file, data}
    BY <1>3 DEF Looks, Loads, IInv, TypeOK, FoundIsAsked
  <2> QED BY <1>0, <2>1 DEF IInv, Records, KeptIsListed, AskedByTheBid, FoundIsAsked, FoundWithTheCheaper,
            AlertIsBest
<1>9. CASE Asks
  <2>1. /\ UNCHANGED <<price, file, data, found, last>> /\ found = {} /\ pc' = "search"
        /\ kept' = {o \in Offers : price[o] > 0}
    BY <1>9 DEF Asks, IInv, TypeOK, FoundIsAsked
  <2>2. AskedByTheBid'
    <3>1. PICK bid : /\ bid = (IF file # None THEN data.bid ELSE None)
                     /\ terms' = [kind |-> Kind(bid), max |-> MaxDph(PriceCap, bid)]
      BY <1>9 DEF Asks
    <3>2. /\ bid \in Nat \cup {None} /\ PriceCap \in Nat \cup {None}
      BY <1>9, <3>1, BoundsAssumption DEF Asks, PriceCap, Deployments, IInv, TypeOK
    <3>3. CASE bid = None
      BY <3>1, <3>3 DEF AskedByTheBid, Kind
    <3>4. CASE bid # None
      BY <2>1, <3>1, <3>2, <3>4, Ceiling DEF AskedByTheBid
    <3> QED BY <3>3, <3>4
  <2> QED BY <1>0, <2>1, <2>2 DEF IInv, Records, KeptIsListed, FoundIsAsked, FoundWithTheCheaper, AlertIsBest
<1>4. CASE Searches
  <2>1. UNCHANGED <<price, file, pc, data, terms, kept>> /\ pc = "search"
    BY <1>4 DEF Searches
  <2>2. Records(file)' /\ Records(data)' /\ KeptIsListed' /\ AskedByTheBid' /\ AlertIsBest'
    BY <2>1 DEF IInv, Records, KeptIsListed, AskedByTheBid, AlertIsBest
  <2> QED BY <1>0, <1>4, <2>2, SearchInv DEF IInv
<1>5. CASE Ranks
  <2>1. CASE Rests
    BY <1>0, <1>5, <2>1 DEF Ranks, Rests, IInv, Records, KeptIsListed, AskedByTheBid, FoundIsAsked,
       FoundWithTheCheaper, AlertIsBest
  <2>2. CASE ~Rests
    <3>1. UNCHANGED <<price, file, data, terms, found, kept>> /\ pc = "search" /\ pc' = "alert"
      BY <1>5, <2>2 DEF Ranks
    <3>2. AlertIsBest'
      <4>1. PICK f \in found : /\ IsUpgrade(f) /\ \A g \in found : IsUpgrade(g) => f.dph <= g.dph
                               /\ IsWorthAnAlert(f.dph) /\ last' = AlertKey(f)
        BY <1>5, <2>2 DEF Ranks
      <4> DEFINE most == IF file # None THEN data.dph ELSE Config.maxDph
      <4>2. most \in Nat
        BY <1>5, ConfigAssumption, BoundsAssumption DEF Ranks, IInv, TypeOK, Deployments
      <4>3. \A g \in found : g.dph \in Nat
        BY BoundsAssumption DEF IInv, TypeOK
      <4>4. \A g \in found : IsUpgrade(g) <=> Fits(g) /\ g.dph <= most
        BY DEF IsUpgrade
      <4> HIDE DEF most
      <4>5. Fits(f) /\ \A g \in found : Fits(g) => f.dph <= g.dph
        BY <4>1, <4>2, <4>3, <4>4
      <4> QED BY <3>1, <4>1, <4>5 DEF AlertIsBest, Fits, IsWorthAnAlert, IsExcluded, AlertKey
    <3> QED BY <1>0, <3>1, <3>2 DEF IInv, Records, KeptIsListed, AskedByTheBid, FoundIsAsked,
            FoundWithTheCheaper, Dph
  <2> QED BY <2>1, <2>2
<1>6. CASE FindsItGone \/ Sleeps
  BY <1>0, <1>6 DEF FindsItGone, Sleeps, Rests, IInv, Records, KeptIsListed, AskedByTheBid, FoundIsAsked,
     FoundWithTheCheaper, AlertIsBest
<1>7. CASE Moves
  <2>1. PICK o \in Moving, amount \in Amounts :
          price' = [price EXCEPT ![o] = amount] /\ kept' = kept \ {o}
    BY <1>7 DEF Moves
  <2>2. UNCHANGED <<file, pc, data, left, terms, found, last>>
    BY <1>7 DEF Moves, monitor
  <2>3. \A x \in kept' : x \in kept /\ x \in Offers /\ price'[x] = price[x]
    BY <2>1 DEF IInv, TypeOK
  <2>4. KeptIsListed'
    BY <2>3 DEF IInv, KeptIsListed
  <2>5. FoundWithTheCheaper'
    BY <2>2, <2>3 DEF IInv, FoundWithTheCheaper, Dph
  <2>6. AlertIsBest' /\ AskedByTheBid' /\ FoundIsAsked' /\ Records(file)' /\ Records(data)'
    BY <2>2 DEF IInv, AlertIsBest, AskedByTheBid, FoundIsAsked, Records, Fits, IsWorthAnAlert, IsExcluded, AlertKey
  <2> QED BY <1>0, <2>4, <2>5, <2>6 DEF IInv
<1>8. CASE UNCHANGED vars
  BY <1>0, <1>8, ViewUnchanged DEF vars, monitor, monitorView, IInv, Records
<1> QED BY <1>1, <1>2, <1>3, <1>4, <1>5, <1>6, <1>7, <1>8, <1>9 DEF Next, Monitor

\* Whatever the market does and whoever changes state.json meanwhile, an alert
\* names an upgrade, and the cheapest that stayed listed (cmd_monitor_watch,
\* _ranked_best_for_monitor).
THEOREM AlertsAreUpgrades == Spec => []RecommendsAnUpgrade
<1>1. Init => IInv
  BY InitTypes DEF Init, IInv, Records, KeptIsListed, AskedByTheBid, FoundIsAsked,
     FoundWithTheCheaper, AlertIsBest
<1>2. IInv => RecommendsAnUpgrade
  <2> SUFFICES ASSUME IInv, pc = "alert" PROVE RecommendsAnUpgrade
    BY DEF RecommendsAnUpgrade
  <2> DEFINE Suits(o) == /\ Offer[o].machine \notin data.skips /\ o \notin data.skips
                         /\ Offer[o].country \notin data.skips
                         /\ o # data.offer => \/ Offer[o].gpu = data.gpu
                                              \/ /\ {Gpu[Offer[o].gpu].rank, Gpu[data.gpu].rank} \subseteq Nat
                                                 /\ Gpu[Offer[o].gpu].rank >= Gpu[data.gpu].rank
             listings == UNION {Listed[f.by] : f \in {g \in found : AlertKey(g) = last}}
  <2>1. data \in Deployments /\ Config.blocklist \subseteq data.skips /\ data.gpu = Offer[data.offer].gpu
    BY DEF IInv, TypeOK, Records
  <2>2. \A o \in Offers : Offer[o].gpu \in DOMAIN Gpu
    BY OfferAssumption
  <2>3. \A o \in Offers :
          ~IsExcluded(o, Config.blocklist \cup data.skips)
            <=> Offer[o].machine \notin data.skips /\ o \notin data.skips /\ Offer[o].country \notin data.skips
    BY <2>1 DEF IsExcluded
  <2>4. \A o \in Offers :
          IsSameOrBetterGpu(data.gpu, Offer[o].gpu)
            <=> \/ Offer[o].gpu = data.gpu
                \/ /\ {Gpu[Offer[o].gpu].rank, Gpu[data.gpu].rank} \subseteq Nat
                   /\ Gpu[Offer[o].gpu].rank >= Gpu[data.gpu].rank
    <3> TAKE o \in Offers
    <3>1. /\ Gpu[Offer[o].gpu].rank \in Nat \cup {None}
          /\ Gpu[data.gpu].rank \in Nat \cup {None}
      BY <2>1, <2>2, GpuAssumption DEF Deployments
    <3> QED BY <3>1, NoneAssumption DEF IsSameOrBetterGpu
  <2>5. \A o \in Offers :
          Suits(o) <=> /\ ~IsExcluded(o, Config.blocklist \cup data.skips)
                      /\ IsSameOrBetterGpu(data.gpu, Offer[o].gpu)
    BY <2>1, <2>3, <2>4
  <2> HIDE DEF Suits
  <2>6. PICK f \in found : /\ last = AlertKey(f) /\ Fits(f) /\ IsWorthAnAlert(f.dph)
                           /\ \A g \in found : Fits(g) => f.dph <= g.dph
    BY DEF IInv, AlertIsBest
  <2>7. /\ last.offer = f.offer /\ last.dph = f.dph /\ f.offer \in Offers /\ f.dph \in 1..Highest
    BY <2>6 DEF AlertKey, IInv, TypeOK
  <2>8. Suits(last.offer) /\ last.dph < data.dph
    BY <2>1, <2>5, <2>6, <2>7, BoundsAssumption DEF Fits, IsWorthAnAlert, Deployments
  <2>9. terms.kind = "bid" => last.dph <= data.bid
    <3>1. terms.max \in Nat /\ f.dph <= terms.max /\ data.bid \in Nat \cup {None}
      BY <2>1 DEF IInv, FoundIsAsked, TypeOK, Deployments
    <3> QED BY <2>7, <3>1, BoundsAssumption DEF IInv, AskedByTheBid
  <2>10. ASSUME NEW o \in kept \cap listings, Suits(o), Offer[o].downCost <= Config.maxDownCost,
                Offer[o].space >= Config.diskGb, Dph(terms.kind, o) < last.dph
         PROVE  FALSE
    <3>1. PICK h \in found : AlertKey(h) = last /\ o \in Listed[h.by]
      BY <2>10
    <3>2. h.dph = last.dph
      BY <3>1 DEF AlertKey
    <3>3. PICK g \in found : g.offer = o /\ g.dph = Dph(terms.kind, o)
      BY <2>10, <3>1, <3>2 DEF IInv, FoundWithTheCheaper
    <3>4. o \in Offers /\ g.dph \in 1..Highest
      BY <2>10, <3>3 DEF IInv, TypeOK
    <3>5. Fits(g)
      BY <2>5, <2>10, <3>3, <3>4 DEF Fits
    <3> QED BY <2>6, <2>7, <2>10, <3>3, <3>4, <3>5, BoundsAssumption
  <2>11. ASSUME NEW o \in kept \cap listings, Suits(o), Offer[o].downCost <= Config.maxDownCost,
                Offer[o].space >= Config.diskGb
         PROVE  Dph(terms.kind, o) >= last.dph
    <3>1. Dph(terms.kind, o) \in Int /\ last.dph \in Int
      BY <2>7, BoundsAssumption DEF IInv, TypeOK, Dph, Amounts
    <3> QED BY <2>10, <2>11, <3>1
  <2> QED BY <2>8, <2>9, <2>11 DEF RecommendsAnUpgrade, Suits
<1> QED BY <1>1, <1>2, StepInv, PTL DEF Spec

-----------------------------------------------------------------------------
(* up and replace rent no offer that is dominated.                          *)

\* Of two offers of one GPU, the one that is cheaper and in no respect worse.
Dominates(a, o) ==
    /\ Offer[a].gpu = Offer[o].gpu
    /\ Offer[a].down >= Offer[o].down /\ Offer[a].disk >= Offer[o].disk
    /\ Offer[a].downCost <= Offer[o].downCost
    /\ price[a] < price[o]

LEMMA DownloadNoSlower ==
    ASSUME NEW a \in Offers, NEW o \in Offers, Dominates(a, o), Offer[o].down > 0, Offer[o].disk > 0
    PROVE  /\ DownloadSeconds(a) \in Nat \ {0} /\ DownloadSeconds(o) \in Nat \ {0}
           /\ DownloadSeconds(a) <= DownloadSeconds(o)
<1> DEFINE net(x) == (SizeGb * 8000) \div Offer[x].down
           copy(x) == (SizeGb * 2048) \div Offer[x].disk
           floor == Config.minStartup
<1>1. /\ Offer[o].down \in Nat \ {0} /\ Offer[a].down \in Nat \ {0} /\ Offer[o].down <= Offer[a].down
      /\ Offer[o].disk \in Nat \ {0} /\ Offer[a].disk \in Nat \ {0} /\ Offer[o].disk <= Offer[a].disk
      /\ floor \in Nat \ {0}
  BY OfferAssumption, ConfigAssumption DEF Dominates
<1>2. SizeGb * 8000 \in Nat /\ SizeGb * 2048 \in Nat
  BY ConfigAssumption DEF SizeGb
<1>3. net(a) \in Nat /\ net(o) \in Nat /\ net(a) <= net(o)
  <2> DEFINE n == SizeGb * 8000
  <2>1. n \in Nat
    BY <1>2
  <2> HIDE DEF n
  <2>2. n \div Offer[a].down \in Nat /\ n \div Offer[o].down \in Nat /\ n \div Offer[a].down <= n \div Offer[o].down
    BY <1>1, <2>1, FasterIsSooner
  <2> QED BY <2>2 DEF n
<1>4. copy(a) \in Nat /\ copy(o) \in Nat /\ copy(a) <= copy(o)
  <2> DEFINE n == SizeGb * 2048
  <2>1. n \in Nat
    BY <1>2
  <2> HIDE DEF n
  <2>2. n \div Offer[a].disk \in Nat /\ n \div Offer[o].disk \in Nat /\ n \div Offer[a].disk <= n \div Offer[o].disk
    BY <1>1, <2>1, FasterIsSooner
  <2> QED BY <2>2 DEF n
<1>5. /\ DownloadSeconds(a) = Max({floor, net(a), copy(a)})
      /\ DownloadSeconds(o) = Max({floor, net(o), copy(o)})
  <2>1. /\ {floor} \cup {net(a)} \cup {copy(a)} = {floor, net(a), copy(a)}
        /\ {floor} \cup {net(o)} \cup {copy(o)} = {floor, net(o), copy(o)}
    OBVIOUS
  <2>2. /\ (IF Offer[a].down > 0 THEN {net(a)} ELSE {}) = {net(a)}
        /\ (IF Offer[o].down > 0 THEN {net(o)} ELSE {}) = {net(o)}
        /\ (IF Offer[a].disk > 0 THEN {copy(a)} ELSE {}) = {copy(a)}
        /\ (IF Offer[o].disk > 0 THEN {copy(o)} ELSE {}) = {copy(o)}
    BY <1>1
  <2>3. /\ DownloadSeconds(a) = Max({floor} \cup (IF Offer[a].down > 0 THEN {net(a)} ELSE {})
                                              \cup (IF Offer[a].disk > 0 THEN {copy(a)} ELSE {}))
        /\ DownloadSeconds(o) = Max({floor} \cup (IF Offer[o].down > 0 THEN {net(o)} ELSE {})
                                              \cup (IF Offer[o].disk > 0 THEN {copy(o)} ELSE {}))
    BY DEF DownloadSeconds
  <2> HIDE DEF net, copy, floor
  <2> QED BY <2>1, <2>2, <2>3
<1> HIDE DEF net, copy, floor
<1>6. /\ Max({floor, net(a), copy(a)}) \in {floor, net(a), copy(a)}
      /\ floor <= Max({floor, net(a), copy(a)})
  BY <1>1, <1>3, <1>4, LargestOfThree
<1>7. /\ Max({floor, net(o), copy(o)}) \in {floor, net(o), copy(o)}
      /\ floor <= Max({floor, net(o), copy(o)})
      /\ net(o) <= Max({floor, net(o), copy(o)})
      /\ copy(o) <= Max({floor, net(o), copy(o)})
  BY <1>1, <1>3, <1>4, LargestOfThree
<1> QED BY <1>1, <1>3, <1>4, <1>5, <1>6, <1>7

LEMMA StartsNoLater ==
    ASSUME NEW a \in Offers, NEW o \in Offers, Dominates(a, o), Offer[o].down > 0, Offer[o].disk > 0
    PROVE  /\ StartupSeconds(a) \in Nat \ {0} /\ StartupSeconds(o) \in Nat \ {0}
           /\ StartupSeconds(a) <= StartupSeconds(o)
<1>1. Offer[a].gpu = Offer[o].gpu /\ Offer[o].gpu \in DOMAIN Gpu
  BY OfferAssumption DEF Dominates
<1>2. Gpu[Offer[o].gpu].startup \in Nat
  BY <1>1, GpuAssumption
<1> QED BY <1>1, <1>2, DownloadNoSlower DEF StartupSeconds

LEMMA TransferNoDearer ==
    ASSUME NEW a \in Offers, NEW o \in Offers, Dominates(a, o)
    PROVE  /\ TransferCost(a) \in Nat /\ TransferCost(o) \in Nat
           /\ TransferCost(a) <= TransferCost(o)
<1>1. SizeGb \in Nat
  BY ConfigAssumption DEF SizeGb
<1>2. Offer[a].downCost \in Nat /\ Offer[o].downCost \in Nat /\ Offer[a].downCost <= Offer[o].downCost
  BY OfferAssumption DEF Dominates
<1>3. \A n, x, y \in Nat : x <= y => n * x \in Nat /\ n * y \in Nat /\ n * x <= n * y
  OBVIOUS
<1> QED BY <1>1, <1>2, <1>3 DEF TransferCost

LEMMA SpeedsArePositive ==
    ASSUME NEW o \in Offers
    PROVE  Tps(o).prompt \in Nat \ {0} /\ Tps(o).decode \in Nat \ {0}
<1>1. Gpu[Offer[o].gpu].prompt \in Nat /\ Gpu[Offer[o].gpu].decode \in Nat
  BY OfferAssumption, GpuAssumption
<1> QED BY <1>1 DEF Tps

LEMMA StrictlyMore ==
    ASSUME NEW x \in Nat, NEW y \in Nat, x < y, NEW n \in Nat \ {0}
    PROVE  x * n < y * n
  OBVIOUS

\* Whatever the scoring, it has the better score.
LEMMA DominatingIsBetter ==
    ASSUME price \in [Offers -> Amounts], NEW a \in Offers, NEW o \in Offers, NEW kind, NEW mode,
           Dominates(a, o), Offer[o].down > 0, Offer[o].disk > 0, price[a] > 0
    PROVE  ~IsNoDearer(Score(o, kind, mode), Score(a, kind, mode))
<1> DEFINE x == Dph(kind, a)
           y == Dph(kind, o)
<1>1. x \in Nat /\ y \in Nat /\ x < y
  BY BoundsAssumption DEF Dph, Amounts, Dominates
<1> HIDE DEF x, y
<1>2. CASE mode = "perf" /\ Config.promptWeight + Config.decodeWeight > 0
  <2> DEFINE prompt == Tps(o).prompt
             decode == Tps(o).decode
             work == Config.promptWeight * decode + Config.decodeWeight * prompt
  <2>1. prompt \in Nat \ {0} /\ decode \in Nat \ {0}
    BY SpeedsArePositive
  <2>2. Tps(a).prompt = prompt /\ Tps(a).decode = decode
    BY DEF Tps, Dominates
  <2>3. work \in Nat \ {0}
    <3>1. \A p, d \in Nat, m, n \in Nat \ {0} : p + d > 0 => p * n + d * m \in Nat \ {0}
      OBVIOUS
    <3> QED BY <1>2, <2>1, <3>1, ConfigAssumption
  <2>4. Score(o, kind, mode) = <<y * work, prompt * decode>>
    BY <1>2 DEF Score, y
  <2>5. Score(a, kind, mode) = <<x * work, prompt * decode>>
    BY <1>2, <2>2 DEF Score, x
  <2> HIDE DEF work, prompt, decode
  <2>6. x * work \in Nat /\ y * work \in Nat /\ x * work < y * work
    BY <1>1, <2>3, StrictlyMore
  <2>7. prompt * decode \in Nat \ {0}
    BY <2>1
  <2>8. (x * work) * (prompt * decode) < (y * work) * (prompt * decode)
    BY <2>6, <2>7, StrictlyMore
  <2>9. IsNoDearer(Score(o, kind, mode), Score(a, kind, mode))
          <=> (y * work) * (prompt * decode) <= (x * work) * (prompt * decode)
    BY <2>4, <2>5 DEF IsNoDearer
  <2> QED BY <2>6, <2>7, <2>8, <2>9
<1>3. CASE mode = "session"
  <2> DEFINE s == StartupSeconds(a) + Config.session
             t == StartupSeconds(o) + Config.session
             c == 3600 * TransferCost(a)
             d == 3600 * TransferCost(o)
  <2>1. s \in Nat \ {0} /\ t \in Nat \ {0} /\ s <= t
    BY StartsNoLater, ConfigAssumption
  <2>2. c \in Nat /\ d \in Nat /\ c <= d
    BY TransferNoDearer
  <2>3. Score(o, kind, mode) = <<y * t + d, 1>> /\ Score(a, kind, mode) = <<x * s + c, 1>>
    BY <1>3 DEF Score, x, y
  <2> HIDE DEF s, t, c, d
  <2>4. x * s < y * s /\ y * s <= y * t /\ x * s \in Nat /\ y * t \in Nat
    <3>1. y * s <= y * t
      BY <1>1, <2>1
    <3> QED BY <1>1, <2>1, <3>1, StrictlyMore
  <2>5. x * s + c < y * t + d
    BY <1>1, <2>1, <2>2, <2>4
  <2>6. IsNoDearer(Score(o, kind, mode), Score(a, kind, mode)) <=> (y * t + d) * 1 <= (x * s + c) * 1
    BY <2>3 DEF IsNoDearer
  <2> QED BY <2>2, <2>4, <2>5, <2>6
<1>4. CASE ~(mode = "perf" /\ Config.promptWeight + Config.decodeWeight > 0) /\ mode # "session"
  <2>1. Score(o, kind, mode) = <<y, 1>> /\ Score(a, kind, mode) = <<x, 1>>
    BY <1>4 DEF Score, x, y
  <2> QED BY <1>1, <2>1 DEF IsNoDearer
<1> QED BY <1>2, <1>3, <1>4

\* The choice of one command is not dominated by what it was allowed to choose.
LEMMA RentsUndominated ==
    ASSUME TypeOK, NEW p \in Profiles, NEW r \in Requests, Rents(p, r)
    PROVE  RentsTheUndominated'
<1> DEFINE bid == BidPrice(r.interruptible, r.bid, r.cap)
           skips == Config.blocklist \cup r.skips
                    \cup (IF file # None /\ r.pin = None THEN {Offer[file.offer].machine} ELSE {})
<1>1. PICK o \in Offers :
        /\ Selects(p, r.cap, bid, r.pin, skips, r.mode, o)
        /\ file' = Deployment(p, o, bid, skips)
        /\ rented' = [cap |-> MaxDph(r.cap, bid), pin |-> r.pin, chosen |-> file', market |-> price]
  BY DEF Rents
<1>2. bid \in Nat \cup {None}
  BY BidTypes
<1> HIDE DEF bid, skips
<1> DEFINE kind == Kind(bid)
           max == MaxDph(r.cap, bid)
<1>3. max \in Nat /\ price \in [Offers -> Amounts]
  BY <1>2, Ceiling, RequestsAssumption DEF TypeOK
<1>4. /\ rented'.cap = max /\ rented'.pin = r.pin /\ rented'.chosen = Deployment(p, o, bid, skips)
      /\ rented'.market = price
  BY <1>1
<1>5. /\ rented'.chosen.offer = o /\ rented'.chosen.profile = p
      /\ rented'.chosen.skips = skips /\ rented'.chosen.dph = Dph(kind, o)
  BY <1>4 DEF Deployment
<1> HIDE DEF max
<1> SUFFICES
      ASSUME r.pin = None
      PROVE  /\ Dph(kind, o) <= max
             /\ Offer[o].down > 0 /\ Offer[o].disk > 0 =>
                  \A a \in Offers :
                    ~(/\ price[a] # 0 /\ price[a] < price[o] /\ a \in Listed[p] /\ ~IsExcluded(a, skips)
                      /\ Offer[a].gpu = Offer[o].gpu /\ Offer[a].space >= Config.diskGb
                      /\ Offer[a].down >= Offer[o].down /\ Offer[a].disk >= Offer[o].disk
                      /\ Offer[a].downCost <= Offer[o].downCost)
  BY <1>4, <1>5 DEF RentsTheUndominated
<1> DEFINE matching == {m \in Matches(p) : Dph(kind, m) <= max}
<1>6. PICK answer \in Answers(matching, kind, Config.limit) :
        /\ o \in answer /\ ~IsExcluded(o, skips) /\ Dph(kind, o) <= max
        /\ \A e \in answer : ~IsExcluded(e, skips) /\ Dph(kind, e) <= max
                               => IsNoDearer(Score(o, kind, r.mode), Score(e, kind, r.mode))
  <2>1. {m \in Matches(p) : r.pin # None \/ Dph(kind, m) <= max} = matching
    OBVIOUS
  <2> QED BY <1>1, <2>1 DEF Selects, Eligible, max
<1>7. /\ answer \subseteq matching
      /\ \A x \in answer, y \in matching \ answer : Dph(kind, x) <= Dph(kind, y)
  BY DEF Answers
<1>8. ASSUME Offer[o].down > 0, Offer[o].disk > 0, NEW a \in Offers, price[a] # 0, a \in Listed[p],
             ~IsExcluded(a, skips), Dominates(a, o), Offer[a].space >= Config.diskGb
      PROVE  FALSE
  <2>1. /\ price[a] \in Nat /\ price[o] \in Nat /\ price[a] > 0 /\ price[a] < price[o]
        /\ Dph(kind, a) \in Int /\ Dph(kind, o) \in Int /\ Dph(kind, a) < Dph(kind, o)
    BY <1>3, <1>8, BoundsAssumption DEF Amounts, Dph, Dominates
  <2>2. o \in Matches(p)
    BY <1>6, <1>7
  <2>3. Config.requireFreeTraffic => Offer[a].downCost <= Config.maxDownCost
    <3>1. /\ Offer[a].downCost \in Nat /\ Offer[o].downCost \in Nat /\ Config.maxDownCost \in Nat
          /\ Offer[a].downCost <= Offer[o].downCost
      BY <1>8, OfferAssumption, ConfigAssumption DEF Dominates
    <3> QED BY <2>2, <3>1 DEF Matches
  <2>4. a \in Matches(p)
    BY <1>8, <2>1, <2>3 DEF Matches
  <2>5. Dph(kind, a) <= max
    BY <1>3, <1>6, <2>1
  <2>6. a \in answer
    BY <1>6, <1>7, <2>1, <2>4, <2>5
  <2>7. IsNoDearer(Score(o, kind, r.mode), Score(a, kind, r.mode))
    BY <1>6, <1>8, <2>5, <2>6
  <2> QED BY <1>3, <1>8, <2>1, <2>7, DominatingIsBetter
<1> QED BY <1>6, <1>8 DEF Dominates

\* Whatever the market, the scoring mode and the measurements, `up` and
\* `replace` keep to the price cap and rent no offer with a cheaper one of the
\* same GPU beside it that is in no respect worse (select_offer, score_offer).
THEOREM UndominatedIsRented == Spec => []RentsTheUndominated
<1>1. Init => TypeOK /\ RentsTheUndominated
  BY InitTypes DEF Init, RentsTheUndominated
<1>2. TypeOK /\ RentsTheUndominated /\ [Next]_vars => RentsTheUndominated'
  <2> SUFFICES ASSUME TypeOK, RentsTheUndominated, [Next]_vars PROVE RentsTheUndominated'
    OBVIOUS
  <2>1. ASSUME NEW p \in Profiles, NEW r \in Requests, Rents(p, r)
        PROVE  RentsTheUndominated'
    BY <2>1, RentsUndominated
  <2>2. CASE Down \/ Monitor \/ Moves
    BY <2>2 DEF Down, Monitor, Moves, RentsTheUndominated
  <2>3. CASE UNCHANGED vars
    BY <2>3 DEF vars, RentsTheUndominated, IsExcluded
  <2> QED BY <2>1, <2>2, <2>3 DEF Next
<1> QED BY <1>1, <1>2, StepTypes, PTL DEF Spec
============================================================================
