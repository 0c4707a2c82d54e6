------------------------------ MODULE MCMarket ------------------------------
(* Small samples of a query for phones: a private lot and its reposts, a shop,  *)
(* and listings that name little; at most five prices make a statistic.          *)
EXTENDS Market

Lot == [title |-> {"phone", "red"}, age |-> 5, condition |-> "used", seller |-> "private",
        region |-> [names |-> {{"minsk"}}, code |-> {"7"}], account |-> "a1",
        storage |-> 128, ram |-> 0]
ShopLot == [title |-> {"phone", "pro"}, age |-> 30, condition |-> None, seller |-> "shop",
            region |-> [names |-> {}, code |-> {"7"}], account |-> None,
            storage |-> 64, ram |-> 8]

With(lot, i, p) == [id |-> i, price |-> p, title |-> lot.title, age |-> lot.age,
    condition |-> lot.condition, seller |-> lot.seller, region |-> lot.region,
    account |-> lot.account, storage |-> lot.storage, ram |-> lot.ram]

\* The first two listings of a first sample are of either kind, the others lots; in
\* later samples the price of the first lot moves and the second listing varies.
MCArrival(n, first) ==
    IF first THEN IF n > 2 THEN {With(Lot, n, p) : p \in {5, 14, 20}}
                  ELSE {With(lot, i, p) : lot \in {Lot, ShopLot}, i \in 1 .. 2,
                                          p \in {0, 1, 3, 13, 20}}
    ELSE {With(Lot, 1, p) : p \in {0, 2, 3, 5}} \cup {With(Lot, 2, 3), With(ShopLot, 2, 5)}

MCQuery == [words |-> {"phone"}, storage |-> 128, ram |-> 8]

Demanding == [discount |-> NoBound, price |-> 4, seller |-> "private", condition |-> "used",
              region |-> {"minsk"}, keyword |-> {"phone"}, unique |-> TRUE]

\* One tracker asks for a discount, one for everything else.
MCFilter == [t \in Tracker |-> IF t = "bargains" THEN [NoFilter EXCEPT !.discount = 800]
                               ELSE Demanding]
=============================================================================
