------------------------------ MODULE FIFOQueue ------------------------------
(***************************************************************************)
(* FIFOQueueSimulator (queue/fifo.py): the queue position of every resting *)
(* order of one strategy.  The operations a caller may use are register,   *)
(* cancel and process_tick; process_tick is split at its loop over the     *)
(* trades into InferCancels, one MatchTrade per trade, and UpdateBook.     *)
(*                                                                         *)
(* The Rust core (src/lib.rs) keeps the same state; it ignores the known   *)
(* cancels, so it is this module on ticks whose truth is NoTruth.          *)
(***************************************************************************)
EXTENDS Market

VARIABLES
    front,    \* resting order id -> qty_in_front      (_states)
    prevBook, \* the book of the last processed tick   (_prev_book)
    hits      \* fills process_tick has made so far and will return

queueVars == <<front, prevBook, hits>>

QueueInit ==
    /\ front = [id \in {} |-> 0]
    /\ prevBook = EmptyBook
    /\ hits = {}

QueueTypeOK ==
    /\ DOMAIN front \subseteq OrderIds
    /\ \A id \in DOMAIN front : front[id] \in Nat
    /\ prevBook \in Books \cup {EmptyBook}
    /\ hits \subseteq [id : OrderIds, size : Nat \ {0}, left : Nat]

Without(f, ids) == [id \in DOMAIN f \ ids |-> f[id]]
Put(f, id, v)   == [x \in DOMAIN f \cup {id} |-> IF x = id THEN v ELSE f[x]]

Register(id, book) ==
    /\ front' = Put(front, id, QtyInFront(OrderOf[id], book))
    /\ UNCHANGED <<prevBook, hits>>

\* Cancelling an order that does not rest does nothing.
Cancel(id) ==
    /\ front' = Without(front, {id})
    /\ UNCHANGED <<prevBook, hits>>

-----------------------------------------------------------------------------
(* process_tick                                                            *)

\* What the order's queue is taken to have lost to cancels before the trades
\* of this tick: the size the feed reports as cancelled at its price or,
\* without that, the whole drop of the displayed size.
Cancelled(price, tick) ==
    IF tick.truth # NoTruth
    THEN IF price \in DOMAIN tick.truth THEN tick.truth[price] ELSE 0
    ELSE Monus(SizeAt(prevBook, price), SizeAt(tick.book, price))

\* Faulty: no clip at zero.
InferCancels_unclipped(tick) ==
    /\ front' = [id \in DOMAIN front |-> front[id] - Cancelled(OrderOf[id].price, tick)]
    /\ UNCHANGED <<prevBook, hits>>

InferCancels(tick) ==
    /\ front' = [id \in DOMAIN front |->
                    Monus(front[id], Cancelled(OrderOf[id].price, tick))]
    /\ UNCHANGED <<prevBook, hits>>

\* The orders a trade fills.  Each order meets the whole trade.
HitBy(t) == {id \in DOMAIN front :
                /\ Matches(t, OrderOf[id])
                /\ FillSize(front[id], OrderOf[id], t) > 0}

\* Faulty: filled orders are not removed.
MatchTrade_keepsFilled(t, left) ==
    /\ hits' = hits \cup
           {[id |-> id, size |-> FillSize(front[id], OrderOf[id], t), left |-> left] :
               id \in HitBy(t)}
    /\ front' = [id \in DOMAIN front |->
                    IF Matches(t, OrderOf[id]) THEN NewFront(front[id], t) ELSE front[id]]
    /\ UNCHANGED prevBook

\* A filled order leaves the queue with whatever size it had left; left is
\* the number of trades not matched yet, which orders the fills.
MatchTrade(t, left) ==
    /\ hits' = hits \cup
           {[id |-> id, size |-> FillSize(front[id], OrderOf[id], t), left |-> left] :
               id \in HitBy(t)}
    /\ front' = [id \in DOMAIN front \ HitBy(t) |->
                    IF Matches(t, OrderOf[id]) THEN NewFront(front[id], t) ELSE front[id]]
    /\ UNCHANGED prevBook

UpdateBook(tick) ==
    /\ prevBook' = tick.book
    /\ UNCHANGED <<front, hits>>
=============================================================================
