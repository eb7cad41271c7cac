-------------------------------- MODULE MCPro --------------------------------
(* Bounds for ProEngine: a post-only bid and an ask that may take; books in  *)
(* which each of them rests or crosses, and one that shows an empty level.   *)
EXTENDS ProEngine, TLC

CONSTANTS b1, b2, s1

Book(bids, asks) == [bids |-> bids, asks |-> asks]
Trd(side, price, size) == [side |-> side, price |-> price, size |-> size]

Bid(size, postOnly) == [side |-> BUY, price |-> 10, size |-> size, postOnly |-> postOnly]
Ask(size, postOnly) == [side |-> SELL, price |-> 12, size |-> size, postOnly |-> postOnly]

BidAndAsk  == b1 :> Bid(2, TRUE) @@ s1 :> Ask(2, FALSE)
TwoBidsAndAsk == b2 :> Bid(2, TRUE) @@ BidAndAsk

Quiet      == Book(10 :> 2, 12 :> 2)
Thinner    == Book(10 :> 1, 12 :> 2)
AskCrossed == Book(9 :> 3, 10 :> 1)
BidCrossed == Book(12 :> 1 @@ 10 :> 1, 13 :> 2)
EmptyLevel == Book(12 :> 0 @@ 10 :> 1, 13 :> 2)

NoTrades    == <<>>
SellPrinted == <<Trd(SELL, 10, 4)>>
BothPrinted == <<Trd(BUY, 12, 3), Trd(SELL, 10, 2)>>

AllBooks  == {Quiet, AskCrossed, BidCrossed, EmptyLevel}
AllTrades == {NoTrades, SellPrinted, BothPrinted}
=============================================================================
