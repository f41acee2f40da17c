------------------------------- MODULE Market -------------------------------
(***************************************************************************)
(* How an offer is chosen: the search, filter and scores of market.py, as  *)
(* `up` and `replace` use them, and the monitor daemon that looks for a    *)
(* cheaper machine (commands/monitor.py) while the offers and state.json   *)
(* change under it.                                                        *)
(*                                                                         *)
(* Prices are whole numbers per hour.  The provider answers a query with   *)
(* its cheapest matches, up to a limit (order dph_total); what the query   *)
(* says of the host is Listed.  A skip list is a set of machines, offers   *)
(* and countries.                                                          *)
(***************************************************************************)
EXTENDS Integers, FiniteSets, FiniteSetsExt

CONSTANTS
    Offers, Profiles, Searchable, \* Searchable: monitor_search
    Group,    \* [Profiles -> ...]: monitor_group and context size; None for no group
    Listed,   \* [Profiles -> SUBSET Offers]: what a profile's gpu_query names
    Offer,    \* [Offers -> [machine, country, gpu, down, disk, downCost]]
    Gpu,      \* [gpu -> [rank, samples, prompt, decode, startups, startup]]
    Config,   \* hostai.toml and profiles.json
    Requests, \* the options of `up` and `replace`: --max-price, --interruptible,
              \* --bid, --offer, --skip-* and --scoring-mode
    Openings, Highest, \* the prices at first; the highest price
    Moving,   \* the offers whose price changes, or that come and go
    MaxCommands, MaxMoves, MaxFaults, \* bounds
    None

\* A bid is for one less than the price, and is not for nothing.
Amounts == (0..Highest) \ {1}

ASSUME SearchableAssumption == Searchable \subseteq Profiles
ASSUME MovingAssumption == Moving \subseteq Offers
ASSUME BoundsAssumption == {MaxCommands, MaxMoves, MaxFaults, Highest} \subseteq Nat
ASSUME NoneAssumption == None \notin Nat
ASSUME OpeningsAssumption == Openings \subseteq [Offers -> Amounts]
ASSUME OfferAssumption ==
    /\ \A p \in Profiles : Listed[p] \subseteq Offers
    /\ \A o \in Offers : /\ {Offer[o].down, Offer[o].disk, Offer[o].downCost, Offer[o].space} \subseteq Nat
                         /\ Offer[o].gpu \in DOMAIN Gpu
ASSUME GpuAssumption ==
    \A g \in DOMAIN Gpu :
        /\ {Gpu[g].samples, Gpu[g].prompt, Gpu[g].decode, Gpu[g].startups, Gpu[g].startup} \subseteq Nat
        /\ Gpu[g].rank \in Nat \cup {None}
ASSUME ConfigAssumption ==
    /\ {Config.maxDph, Config.maxDownCost, Config.diskGb, Config.imageGb, Config.modelGb,
        Config.minSamples, Config.promptWeight, Config.decodeWeight, Config.session} \subseteq Nat
    /\ Config.minStartup \in Nat \ {0}
ASSUME RequestsAssumption ==
    \A r \in Requests : {r.cap, r.bid} \subseteq Nat \cup {None} /\ r.pin \in Offers \cup {None}

VARIABLES
    price,    \* [Offers -> 0..Highest]; 0 is an offer that is not listed
    file,     \* state.json: a deployment, or None
    pc, data, left, terms, found, last, \* the monitor: its step, the state it
              \* loaded, profiles to search, the offers it asks for,
              \* candidates, and the last alert
    kept,     \* the offers that have not changed since its search began
    rented,   \* the last choice of `up` or `replace`: what it was made from
    commands, moves, faults

monitor == <<pc, data, left, terms, found, last>>
vars == <<price, file, monitor, kept, rented, commands, moves, faults>>

-----------------------------------------------------------------------------
(* Offers.                                                                  *)

\* OfferExclusions.is_excluded
IsExcluded(o, skips) == {o, Offer[o].machine, Offer[o].country} \cap skips # {}

\* What the provider asks for: a bid offer is let for less.
Dph(kind, o) == IF kind = "bid" THEN price[o] - 1 ELSE price[o]

Kind(bid) == IF bid = None THEN "on-demand" ELSE "bid"

\* Mutant: an unknown GPU is as good as any.
IsNotWorseGpu(current, candidate) ==
    \/ Gpu[current].rank = None \/ Gpu[candidate].rank = None
    \/ Gpu[candidate].rank >= Gpu[current].rank

\* is_same_or_better_gpu
IsSameOrBetterGpu(current, candidate) ==
    IF Gpu[current].rank = None \/ Gpu[candidate].rank = None
    THEN current = candidate
    ELSE Gpu[candidate].rank >= Gpu[current].rank

\* Mutant: the query does not say rentable=True.
MatchesTheRented(profile) ==
    {o \in Listed[profile] :
       /\ Config.requireFreeTraffic => Offer[o].downCost <= Config.maxDownCost
       /\ Offer[o].space >= Config.diskGb}

\* build_search_query, but for the price: the profile's hosts, with free
\* traffic and the disk that is to be rented.
Matches(profile) ==
    {o \in Listed[profile] :
       /\ price[o] > 0
       /\ Config.requireFreeTraffic => Offer[o].downCost <= Config.maxDownCost
       /\ Offer[o].space >= Config.diskGb}

\* ... and its ceiling.
MaxDph(cap, bid) ==
    LET dph == IF cap = None THEN Config.maxDph ELSE cap
    IN  IF bid = None THEN dph ELSE Min({dph, bid})

\* What the provider may answer: the cheapest of what matches.
Answers(matching, kind, limit) ==
    {answer \in SUBSET matching :
       /\ Cardinality(answer) = Min({limit, Cardinality(matching)})
       /\ \A a \in answer, b \in matching \ answer : Dph(kind, a) <= Dph(kind, b)}

-----------------------------------------------------------------------------
(* Scores.                                                                  *)

\* offer_download_estimate: a persistent volume has the model already; the
\* slower of network and disk counts, one that is unknown (0) does not.
SizeGb == Config.imageGb + IF Config.volume THEN 0 ELSE Config.modelGb

DownloadSeconds(o) ==
    Max({Config.minStartup}
        \cup (IF Offer[o].down > 0 THEN {(SizeGb * 8000) \div Offer[o].down} ELSE {})
        \cup (IF Offer[o].disk > 0 THEN {(SizeGb * 2048) \div Offer[o].disk} ELSE {}))

TransferCost(o) == SizeGb * Offer[o].downCost

\* estimate_startup_seconds: the median of past runs, if there are enough.
StartupSeconds(o) ==
    LET gpu == Gpu[Offer[o].gpu]
    IN  IF gpu.startups >= Config.minSamples /\ gpu.startup > 0
        THEN gpu.startup ELSE DownloadSeconds(o)

\* _performance_for_offer and the fallbacks of _seconds_per_token
Tps(o) ==
    LET gpu == Gpu[Offer[o].gpu]
        known == gpu.samples >= Config.minSamples
    IN  [prompt |-> IF known /\ gpu.prompt > 0 THEN gpu.prompt ELSE 10,
         decode |-> IF known /\ gpu.decode > 0 THEN gpu.decode ELSE 50]

\* Mutant: the price of an hour is left out of the cost of a token.
ScoreBySpeed(o, kind, mode) ==
    LET dph == Dph(kind, o)
        wp == Config.promptWeight  wd == Config.decodeWeight
    IN  IF mode = "perf" /\ wp + wd > 0
        THEN <<wp * Tps(o).decode + wd * Tps(o).prompt, Tps(o).prompt * Tps(o).decode>>
        ELSE IF mode = "session"
        THEN <<dph * (StartupSeconds(o) + Config.session) + 3600 * TransferCost(o), 1>>
        ELSE <<dph, 1>>

\* score_offer, a fraction: lower is better.  Of a session, 3600 times its cost;
\* of a token, the 3600 and the sum of the weights, which every offer is
\* divided by, are left out.
Score(o, kind, mode) ==
    LET dph == Dph(kind, o)
        prompt == Tps(o).prompt  decode == Tps(o).decode
        wp == Config.promptWeight  wd == Config.decodeWeight
    IN  IF mode = "perf" /\ wp + wd > 0
        THEN <<dph * (wp * decode + wd * prompt), prompt * decode>>
        ELSE IF mode = "session"
        THEN <<dph * (StartupSeconds(o) + Config.session) + 3600 * TransferCost(o), 1>>
        ELSE <<dph, 1>>

\* How score_offers sorts.
IsNoDearer(score, other) == score[1] * other[2] <= other[1] * score[2]

-----------------------------------------------------------------------------
(* up and replace.                                                          *)

\* _resolve_bid_price: what is offered for an interruptible machine, which a
\* bid asks for too.
BidPrice(interruptible, bid, cap) ==
    IF ~interruptible /\ bid = None THEN None
    ELSE IF bid # None THEN bid ELSE IF cap # None THEN cap ELSE Config.maxDph

\* filter_eligible_offers for `up`: a pinned offer has no price cap.
Eligible(o, pin, max, kind, skips) ==
    /\ ~IsExcluded(o, skips)
    /\ IF pin # None THEN o = pin ELSE Dph(kind, o) <= max

\* search_offers and select_offer
Selects(profile, cap, bid, pin, skips, mode, o) ==
    LET kind == Kind(bid)
        max == MaxDph(cap, bid)
        matching == {m \in Matches(profile) : pin # None \/ Dph(kind, m) <= max}
    IN  \E answer \in Answers(matching, kind, IF pin # None THEN 100 ELSE Config.limit) :
          LET eligible == {e \in answer : Eligible(e, pin, max, kind, skips)}
          IN  o \in eligible /\ \A e \in eligible : IsNoDearer(Score(o, kind, mode), Score(e, kind, mode))

\* Of _fill_fresh_state, what the monitor goes by.
Deployment(profile, o, bid, skips) ==
    [profile |-> profile, offer |-> o, gpu |-> Offer[o].gpu, dph |-> Dph(Kind(bid), o),
     bid |-> bid, skips |-> skips]

\* `up` with no deployment, `replace` with one.  The machine that is replaced
\* is skipped, but for a pin; what else was skipped before is not.
Rents(profile, request) ==
    LET bid == BidPrice(request.interruptible, request.bid, request.cap)
        skips == Config.blocklist \cup request.skips
                 \cup (IF file # None /\ request.pin = None THEN {Offer[file.offer].machine} ELSE {})
    IN  /\ request.pin \notin skips
        /\ commands < MaxCommands /\ commands' = commands + 1
        /\ \E o \in Offers :
             /\ Selects(profile, request.cap, bid, request.pin, skips, request.mode, o)
             /\ file' = Deployment(profile, o, bid, skips)
             /\ rented' = [cap |-> MaxDph(request.cap, bid), pin |-> request.pin,
                           chosen |-> file', market |-> price]
        /\ UNCHANGED <<price, monitor, kept, moves, faults>>

\* A `monitor watch` in a terminal does not end with the deployment.
Down ==
    /\ file # None /\ file' = None
    /\ commands < MaxCommands /\ commands' = commands + 1
    /\ rented' = None
    /\ UNCHANGED <<price, monitor, kept, moves, faults>>

-----------------------------------------------------------------------------
(* The monitor.                                                             *)

\* _targets_for_running_instance
Targets(d) ==
    {d.profile} \cup {p \in Searchable : Group[p] # None /\ Group[p] = Group[d.profile]}

\* State.exists looks for the file each time, so what follows is asked of a
\* state.json that may be gone since State.load.  _monitor_price_cap, of a watch
\* without --max-price:
PriceCap == IF file # None /\ data.dph > 0 THEN data.dph ELSE None

\* time.sleep
Rests == pc' = "idle" /\ data' = None /\ terms' = None /\ found' = {} /\ kept' = {}

\* State.load looks whether there is a file.  Without a deployment there is
\* nothing to compare with: the round only prints.
Looks ==
    /\ pc = "idle" /\ file # None /\ pc' = "load"
    /\ UNCHANGED <<price, file, data, left, terms, found, last, kept, commands, moves, faults>>

\* ... and reads it.  Nothing catches it if a `down` was in between: the watch
\* ends.
Loads ==
    /\ pc = "load"
    /\ IF file = None THEN pc' = "ended" /\ UNCHANGED <<data, left>>
       ELSE pc' = "ask" /\ data' = file /\ left' = Targets(file)
    /\ UNCHANGED <<price, file, terms, found, last, kept, commands, moves, faults>>

\* The targets and the price to beat are the file's too: if it is gone before
\* they are read, the round only prints.
FindsItGone ==
    /\ pc = "ask" /\ file = None /\ left' = {} /\ Rests
    /\ UNCHANGED <<price, file, last, commands, moves, faults>>

\* _search_profiles settles what is asked for; of a bid it knows by the file.
Asks ==
    /\ pc = "ask" /\ pc' = "search"
    /\ LET bid == IF file # None THEN data.bid ELSE None
       IN  terms' = [kind |-> Kind(bid), max |-> MaxDph(PriceCap, bid)]
    /\ kept' = {o \in Offers : price[o] > 0}
    /\ UNCHANGED <<price, file, data, left, found, last, commands, moves, faults>>

\* ... and asks, for one profile; an exception passes it over.
Searches ==
    /\ pc = "search"
    /\ \E profile \in left :
         LET matching == {o \in Matches(profile) : Dph(terms.kind, o) <= terms.max}
         IN  /\ left' = left \ {profile}
             /\ \/ \E answer \in Answers(matching, terms.kind, Config.maxResults) :
                     /\ found' = found \cup
                          {[offer |-> o, dph |-> Dph(terms.kind, o), by |-> profile] : o \in answer}
                     /\ UNCHANGED faults
                \/ /\ faults < MaxFaults /\ faults' = faults + 1 /\ UNCHANGED found
    /\ UNCHANGED <<price, file, pc, data, terms, last, kept, commands, moves>>

\* Of _ranked_best_for_monitor, the filter: what the deployment could be
\* replaced by, and at what price.
Fits(f) ==
    /\ ~IsExcluded(f.offer, Config.blocklist \cup data.skips)
    /\ IsSameOrBetterGpu(data.gpu, Offer[f.offer].gpu)

IsUpgrade(f) == Fits(f) /\ f.dph <= IF file # None THEN data.dph ELSE Config.maxDph

\* The saving that is worth an alert, in percent.
IsWorthAnAlert(dph) == data.dph > dph /\ (data.dph - dph) * 100 >= Config.threshold * data.dph

AlertKey(f) == [offer |-> f.offer, dph |-> f.dph]

\* Mutant: only what is cheaper than the last alert is news.
IsCheaper(f) == last # None => f.dph < last.dph

IsNews(f) == last # AlertKey(f)

\* The best of the candidates; a notification, unless it was the last one too.
Ranks ==
    /\ pc = "search" /\ left = {}
    /\ LET upgrades == {f \in found : IsUpgrade(f)}
           best == {f \in upgrades : \A g \in upgrades : f.dph <= g.dph}
       IN  \/ \E f \in best : /\ IsWorthAnAlert(f.dph) /\ IsNews(f)
                              /\ pc' = "alert" /\ last' = AlertKey(f)
                              /\ UNCHANGED <<data, terms, found, kept>>
          \/ /\ \A f \in best : IsWorthAnAlert(f.dph) => \E g \in best : ~IsNews(g)
             /\ Rests /\ UNCHANGED last
    /\ UNCHANGED <<price, file, left, commands, moves, faults>>

Sleeps ==
    /\ pc = "alert" /\ Rests
    /\ UNCHANGED <<price, file, left, last, commands, moves, faults>>

Monitor ==
    /\ Looks \/ Loads \/ FindsItGone \/ Asks \/ Searches \/ Ranks \/ Sleeps
    /\ rented' = None

-----------------------------------------------------------------------------
(* The market moves.                                                        *)

Moves ==
    /\ moves < MaxMoves /\ moves' = moves + 1
    /\ \E o \in Moving, p \in Amounts :
         /\ p # price[o] /\ price' = [price EXCEPT ![o] = p] /\ kept' = kept \ {o}
    /\ rented' = None
    /\ UNCHANGED <<file, monitor, commands, faults>>

Init ==
    /\ price \in Openings
    /\ file = None /\ rented = None
    /\ pc = "idle" /\ data = None /\ left = {} /\ terms = None /\ found = {} /\ last = None
    /\ kept = {} /\ commands = 0 /\ moves = 0 /\ faults = 0

Next == (\E p \in Profiles, r \in Requests : Rents(p, r)) \/ Down \/ Monitor \/ Moves

\* The loop of `watch` goes round, as long as it runs.
Spec == Init /\ [][Next]_vars /\ WF_vars(Monitor)

-----------------------------------------------------------------------------
(* Properties.                                                              *)

\* What can be on a skip list: what is blocked, what a request skips, and the
\* machine that is replaced.
Skippable ==
    Config.blocklist \cup {Offer[o].machine : o \in Offers} \cup (UNION {r.skips : r \in Requests})

Deployments == [profile : Profiles, offer : Offers, gpu : DOMAIN Gpu, dph : 1..Highest,
                bid : Nat \cup {None}, skips : SUBSET Skippable]

TypeOK ==
    /\ price \in [Offers -> Amounts]
    /\ file \in Deployments \cup {None} /\ data \in Deployments \cup {None}
    /\ pc \in {"idle", "load", "ended", "ask", "search", "alert"}
    /\ pc \in {"idle", "load", "ended"} <=> data = None
    /\ IF pc \in {"search", "alert"} THEN terms \in [kind : {"on-demand", "bid"}, max : Nat]
       ELSE terms = None
    /\ left \subseteq Profiles /\ kept \subseteq Offers
    /\ found \subseteq [offer : Offers, dph : 1..Highest, by : Profiles]
    /\ last \in [offer : Offers, dph : 1..Highest] \cup {None}
    /\ rented \in [cap : Nat, pin : Offers \cup {None}, chosen : Deployments,
                   market : [Offers -> Amounts]] \cup {None}
    /\ commands \in 0..MaxCommands /\ moves \in 0..MaxMoves /\ faults \in 0..MaxFaults

\* The monitor "only alerts for an offer that uses the active/equivalent local
\* profile, an equal-or-better GPU, and has a lower hourly price" and that the
\* user has not ruled out, and no other that it could have seen in that
\* profile's listing all through the round is cheaper.  That is, for the
\* deployment that the round began with; if a `down` removes it meanwhile, the
\* search is for machines on demand, and its bid is forgotten.
RecommendsAnUpgrade ==
    pc = "alert" =>
      LET Suits(o) == /\ Offer[o].machine \notin data.skips /\ o \notin data.skips
                      /\ Offer[o].country \notin data.skips
                      /\ o # data.offer => \/ Offer[o].gpu = data.gpu
                                           \/ /\ {Gpu[Offer[o].gpu].rank, Gpu[data.gpu].rank} \subseteq Nat
                                              /\ Gpu[Offer[o].gpu].rank >= Gpu[data.gpu].rank
          listings == UNION {Listed[f.by] : f \in {g \in found : AlertKey(g) = last}}
      IN  /\ Suits(last.offer) /\ last.dph < data.dph
          /\ terms.kind = "bid" => last.dph <= data.bid
          /\ \A o \in kept \cap listings :
               /\ Suits(o) /\ Offer[o].downCost <= Config.maxDownCost /\ Offer[o].space >= Config.diskGb
               => Dph(terms.kind, o) >= last.dph

\* `up` and `replace` never rent an offer when another that they were allowed
\* to rent, with the same GPU, is cheaper and in no respect worse, whatever the
\* scoring and although the provider only shows the cheapest of the market.  An
\* offer whose bandwidth is unknown is left out.
RentsTheUndominated ==
    rented # None /\ rented.pin = None =>
      LET o == rented.chosen.offer
          Less(a) == /\ rented.market[a] # 0 /\ rented.market[a] < rented.market[o]
                     /\ a \in Listed[rented.chosen.profile]
                     /\ ~IsExcluded(a, rented.chosen.skips)
          NoWorse(a) == /\ Offer[a].gpu = Offer[o].gpu /\ Offer[a].space >= Config.diskGb
                        /\ Offer[a].down >= Offer[o].down /\ Offer[a].disk >= Offer[o].disk
                        /\ Offer[a].downCost <= Offer[o].downCost
      IN  /\ rented.chosen.dph <= rented.cap
          /\ Offer[o].down > 0 /\ Offer[o].disk > 0 => \A a \in Offers : ~(Less(a) /\ NoWorse(a))

\* The offer that the running deployment should be told of, where it is among
\* the MONITOR_MAX_RESULTS of a search.
BestUpgrade(o) ==
    LET kind == Kind(file.bid)
        targets == {p \in Targets(file) : o \in Matches(p)}
        suits(x) == /\ ~IsExcluded(x, file.skips) /\ IsSameOrBetterGpu(file.gpu, Offer[x].gpu)
                    /\ file.bid # None => Dph(kind, x) <= file.bid
    IN  /\ file # None
        /\ (file.dph - Dph(kind, o)) * 100 >= Config.threshold * file.dph
        /\ suits(o)
        /\ \A p \in Targets(file) : \A x \in Matches(p) \ {o} : suits(x) => Dph(kind, x) > Dph(kind, o)
        /\ \E p \in targets :
             Cardinality({x \in Matches(p) : Dph(kind, x) <= Dph(kind, o)}) <= Config.maxResults

\* A saving that stays the best one is what the user was told last, however
\* the market and the deployment moved before: the alerts that are left out as
\* repeated, the searches that fail and the rounds on an old state.json, or on
\* one that is gone, hide none for good.  That is, while the watch runs: a
\* `down` just before it reads state.json ends it (monitor.py:324).
IsToldInTheEnd ==
    \A o \in Offers :
      <>[](BestUpgrade(o) /\ pc # "ended") => <>[](file # None /\ last = [offer |-> o, dph |-> Dph(Kind(file.bid), o)])
=============================================================================
