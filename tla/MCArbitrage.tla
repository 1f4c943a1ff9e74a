---------------------------- MODULE MCArbitrage -----------------------------
(* Files and listings of two or three contracts, every reason to refuse    *)
(* one among them, and three Polymarket catalogues.                        *)
EXTENDS Arbitrage

K(n) == [venue |-> "Kalshi", key |-> n]
P(n) == [venue |-> "Polymarket", key |-> n]

Of(c)          == [contract |-> c, side |-> "yes", strike |-> NoStrike]
Rung(c, s)     == [contract |-> c, side |-> "yes", strike |-> s]
GroupIs(k, v, m)  == [kind |-> k, verified |-> v, members |-> m]
EventIs(e, t, gs) == [id |-> e, resolves |-> t, groups |-> gs]
File(es)       == [from |-> "file", events |-> es]
Single(t, gs)  == File(<<EventIs(1, t, gs)>>)

Complement1 == GroupIs("complement", "absent", <<Of(K(1))>>)
Exhaustive(a, b) == GroupIs("exhaustive", "absent", <<Of(a), Of(b)>>)

GoodFiles == {
    Single(48, <<GroupIs("monotone", "absent", <<Rung(K(2), 70), Rung(K(1), 80)>>),
                 Complement1>>),
    Single(48, <<GroupIs("exhaustive", "absent", <<Of(K(2)), Of(K(1))>>)>>),
    Single(48, <<GroupIs("equivalent", "yes", <<Of(P(1)), Of(K(1))>>)>>),
    Single(9000, <<GroupIs("implies", "absent", <<Of(K(1)), Of(K(2))>>)>>),
    Single(48, <<GroupIs("equivalent", "no", <<Of(K(1)), Of(P(1))>>)>>) }

BadFiles == {
    File(<<>>),
    File(<<EventIs(1, 48, <<Complement1>>), EventIs(1, 48, <<>>)>>),
    File(<<EventIs(1, 48, <<Complement1>>), EventIs(2, 72, <<Complement1>>)>>),
    Single(48, <<GroupIs("equivalent", "absent", <<Of(K(1)), Of(P(1))>>)>>),
    Single(48, <<GroupIs("monotone", "absent", <<Rung(K(1), 80), Rung(K(2), 70)>>)>>),
    Single(48, <<GroupIs("implies", "absent", <<Of(K(1))>>)>>),
    Single(48, <<GroupIs("exhaustive", "absent", <<Of(K(1)), Of(K(1))>>)>>),
    Single(48, <<Exhaustive(K(1), K(2)), Exhaustive(K(2), K(3))>>),
    Single(48, <<GroupIs("complement", "absent", <<Of(P(1))>>)>>) }

Market(k, e, type, strike, close) ==
    [key |-> k, event |-> e, type |-> type, strike |-> strike, open |-> TRUE, close |-> close]
Closed(m) == [m EXCEPT !.open = FALSE]
ListedEvent(k, x)   == [key |-> k, exclusive |-> x]
Listing(ms, es)     == [from |-> "listing", markets |-> ms, events |-> es]

Listings == {
    Listing(<<Market(1, 1, "greater", 80, 48), Closed(Market(3, 1, "greater", 75, 48)),
              Market(2, 1, "greater", 70, NoTime)>>,
            <<ListedEvent(1, FALSE)>>),
    Listing(<<Market(2, 1, "less", 70, 48), Market(1, 1, "less", 80, 48),
              Market(2, 1, "less", 70, 48)>>, <<ListedEvent(1, FALSE)>>),
    Listing(<<Market(2, 1, "less", 70, 48), Market(1, 1, "less", 80, 0)>>,
            <<ListedEvent(1, FALSE)>>),
    Listing(<<Market(1, 1, "less", 80, 48), Market(2, 1, "greater", 70, 48)>>,
            <<ListedEvent(1, FALSE)>>),
    Listing(<<Market(1, 1, "custom", NoStrike, NoTime), Market(2, 2, "custom", NoStrike, 48)>>,
            <<ListedEvent(1, FALSE)>>),
    Listing(<<Market(1, 1, "custom", NoStrike, 48)>>,
            <<ListedEvent(1, FALSE), ListedEvent(1, TRUE)>>) }

Partition ==
    Listing(<<Market(2, 1, "custom", NoStrike, 48), Market(1, 1, "custom", NoStrike, 72)>>,
            <<ListedEvent(1, TRUE)>>)

Lone == Listing(<<Market(1, 1, "custom", NoStrike, 48)>>, <<ListedEvent(1, TRUE)>>)

MCSources == GoodFiles \cup BadFiles \cup Listings \cup {Partition, Lone}

(* The hypothesis of the theorem about Guaranteed, here.                   *)
ASSUME PlainSources == \A s \in MCSources : Plain(s)

Gamma(k, ends, enabled, type) ==
    [key |-> k, ends |-> ends, feesEnabled |-> enabled, feeType |-> type]

Busy  == <<Gamma(2, NoTime, TRUE, "sports"), Gamma(1, 48, TRUE, "unheard_of"),
           Gamma(1, 48, TRUE, "politics")>>
Quiet1 == <<Gamma(1, NoTime, FALSE, "crypto")>>
MCCatalogues ==
    [s \in MCSources |->
        IF s = Lone THEN {Busy}
        ELSE IF s.from = "file" /\ \E i \in DOMAIN Mentions(s) : Mentions(s)[i].contract = P(1)
             THEN {Busy, Quiet1} ELSE {}]

(* One question on two venues, the second of which lists its negation.     *)
Negated == {Single(48, <<GroupIs("equivalent", "yes",
                                 <<Of(K(1)), [Of(P(1)) EXCEPT !.side = "no"]>>)>>)}
NoCatalogue == [s \in Negated |-> {}]

(* The one contract is offered for 30 cents, or the other for 40; thin or  *)
(* deep enough to reach a second price; or barely below what fees cost.    *)
At(p, n) == [price |-> p, size |-> n]
Bids(yes, no) == [yes |-> yes, no |-> no]
Empty == Bids(<<>>, <<>>)
MCShapes == {
    Empty,
    Bids(<<At(28, 4)>>, <<At(70, 2), At(64, 4)>>),
    Bids(<<At(60, 3)>>, <<At(45, 4)>>),
    Bids(<<At(49, 2), At(47, 2)>>, <<At(52, 4)>>) }
=============================================================================
