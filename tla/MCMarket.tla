------------------------------ MODULE MCMarket ------------------------------
(* A small market: two hosts with the same GPU, of which one is slow, one    *)
(* with a weaker GPU and one with a GPU that has no rank.                    *)
EXTENDS Market

TheOffers == {"fast", "slow", "weak", "odd"}

TheListed == [p \in {"exact", "value"} |-> IF p = "exact" THEN {"fast", "slow"}
                                           ELSE {"slow", "weak", "odd"}]

TheGroup == [p \in {"exact", "value"} |-> "q4-64k"]

TheOffer ==
    [o \in TheOffers |->
       [machine |-> IF o \in {"slow", "odd"} THEN "m2" ELSE "m1",
        country |-> IF o = "weak" THEN "far" ELSE "near",
        gpu |-> CASE o \in {"fast", "slow"} -> "A6000" [] o = "weak" -> "A40" [] OTHER -> "X1",
        down |-> CASE o = "slow" -> 300 [] o = "odd" -> 0 [] OTHER -> 1000,
        disk |-> CASE o = "slow" -> 200 [] OTHER -> 1000,
        space |-> 40,
        downCost |-> IF o = "slow" THEN 1 ELSE 0]]

TheGpu ==
    [g \in {"A6000", "A40", "X1"} |->
       [rank |-> CASE g = "A6000" -> 110 [] g = "A40" -> 100 [] OTHER -> None,
        samples |-> IF g = "A6000" THEN 6 ELSE 0, prompt |-> 400, decode |-> 40,
        startups |-> IF g = "A40" THEN 5 ELSE 0, startup |-> 60]]

TheConfig ==
    [maxDph |-> 3, requireFreeTraffic |-> TRUE, maxDownCost |-> 1, diskGb |-> 35,
     limit |-> 2, maxResults |-> 1, volume |-> FALSE, imageGb |-> 5, modelGb |-> 22,
     minStartup |-> 30, minSamples |-> 3, promptWeight |-> 1, decodeWeight |-> 2,
     session |-> 3600, blocklist |-> {}, threshold |-> 25]

Plain == [cap |-> None, interruptible |-> FALSE, bid |-> None, pin |-> None, skips |-> {},
          mode |-> "session"]

\* Prices of fast, slow, weak and odd.
Prices(f, s, w, x) ==
    [o \in TheOffers |-> CASE o = "fast" -> f [] o = "slow" -> s [] o = "weak" -> w [] OTHER -> x]

TheOpenings == {Prices(4, 3, 4, 2)}

TheRequests ==
    {Plain,
     [Plain EXCEPT !.mode = "perf"],
     [Plain EXCEPT !.cap = 4, !.interruptible = TRUE, !.skips = {"far"}, !.mode = "dph"],
     [Plain EXCEPT !.bid = 2, !.skips = {"m2"}],
     [Plain EXCEPT !.pin = "fast", !.skips = {"far"}]}
=============================================================================
