----------------------------- MODULE QueueClient -----------------------------
(***************************************************************************)
(* Any sequence of calls to a FIFOQueueSimulator (QueueCalls), with the    *)
(* history its promises are about: what stood in front of an order when it *)
(* joined, the volume that has matched it since, and the cancels its       *)
(* position was credited with.                                             *)
(***************************************************************************)
EXTENDS QueueCalls

VARIABLES
    joined, \* history: id -> qty_in_front at registration
    volume, \* history: id -> size of the trades that matched it
    gone    \* history: id -> cancels credited to it

history == <<joined, volume, gone>>
vars    == <<queueVars, callVars, history>>

\* The history of an order is kept while it rests or its fill is not returned.
Forget(ids) ==
    /\ joined' = Without(joined, ids)
    /\ volume' = Without(volume, ids)
    /\ gone'   = Without(gone, ids)

Init ==
    /\ CallInit
    /\ joined = front /\ volume = front /\ gone = front

RegisterOrder(id, book) ==
    /\ CallRegister(id, book)
    /\ joined' = Put(joined, id, QtyInFront(OrderOf[id], book))
    /\ volume' = Put(volume, id, 0)
    /\ gone' = Put(gone, id, 0)

CancelOrder(id) == CallCancel(id) /\ Forget({id})

SkipTick(t) == CallSkip(t) /\ UNCHANGED history

StartTick(t, trades) ==
    /\ CallStart(t, trades)
    /\ gone' = [id \in DOMAIN gone |->
                   gone[id] + IF id \in DOMAIN front
                              THEN Cancelled(OrderOf[id].price, t) ELSE 0]
    /\ UNCHANGED <<joined, volume>>

NextTrade ==
    /\ CallTrade
    /\ volume' = [id \in DOMAIN volume |->
                     volume[id] + IF id \in DOMAIN front /\ Matches(Head(todo), OrderOf[id])
                                  THEN Head(todo).size ELSE 0]
    /\ UNCHANGED <<joined, gone>>

EndTick == CallEnd /\ UNCHANGED history

Return == CallReturn /\ Forget({h.id : h \in hits})

Next ==
    \/ \E id \in OrderIds, b \in Books : RegisterOrder(id, b)
    \/ \E id \in OrderIds : CancelOrder(id)
    \/ \E t \in Ticks, trades \in TradeLists : SkipTick(t) \/ StartTick(t, trades)
    \/ NextTrade
    \/ EndTick
    \/ Return

Spec == Init /\ [][Next]_vars
-----------------------------------------------------------------------------

\* Estimates stay natural, and the accounts are of the orders that rest or are
\* about to be returned as filled.
TypeOK ==
    /\ QueueTypeOK
    /\ pc \in {"ready", "matching", "returning"}
    /\ tick \in Ticks \cup {NoTick}
    /\ todo \in Seq(Trade) /\ ticks \in Nat
    /\ DOMAIN joined = DOMAIN front \cup {h.id : h \in hits}
    /\ DOMAIN volume = DOMAIN joined /\ DOMAIN gone = DOMAIN joined
    /\ \A id \in DOMAIN joined : joined[id] \in Nat /\ volume[id] \in Nat /\ gone[id] \in Nat

\* What stays in front of a resting order is what it joined behind, less the
\* cancels credited to it and less the volume that matched it: never more
\* (a queue position that does not move would starve the order), and never
\* less than the largest cancel ratio explains (fifo.py process_trade,
\* _infer_cancels).
FrontAccounted ==
    \A id \in DOMAIN front :
        /\ front[id] <= Monus(joined[id], volume[id] + gone[id])
        /\ RatioDen * front[id] >=
              RatioDen * (joined[id] - gone[id]) - (RatioDen + MaxRatio) * volume[id]

\* No starvation: an order still rests only while the volume that matched it
\* has not exceeded what it joined behind.
FilledInTime == \A id \in DOMAIN front : volume[id] <= joined[id]

\* No early or oversized fill: the volume that matched the order, swollen by
\* the largest cancel ratio, and the cancels credited to it cover both what it
\* joined behind and the size it fills.
NoEarlyFill ==
    \A h \in hits :
        RatioDen * (joined[h.id] + h.size) <=
            (RatioDen + MaxRatio) * volume[h.id] + RatioDen * gone[h.id]

SameQueue(a, b) == /\ OrderOf[a].side = OrderOf[b].side
                   /\ OrderOf[a].price = OrderOf[b].price

\* Time priority among a strategy's own orders: at one price, an order with no
\* more in front than another never falls behind it, and no trade or inferred
\* cancel fills the other and leaves it resting.
PriorityKept ==
    [][pc = "matching" \/ pc' = "matching" =>
         \A a, b \in DOMAIN front :
            SameQueue(a, b) /\ front[a] <= front[b] /\ a \in DOMAIN front' =>
                b \in DOMAIN front' /\ front'[a] <= front'[b]]_vars
=============================================================================
