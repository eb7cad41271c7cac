------------------------------ MODULE FIFOCore ------------------------------
(***************************************************************************)
(* FIFOQueueCore, the Rust queue (src/lib.rs), and the calls the Python    *)
(* wrapper makes to it.  It keeps its own copy of the orders in a hash map *)
(* and of the last book, meets the orders of the map one after another in  *)
(* an order nobody chooses, and removes the filled ones only when all      *)
(* trades of the tick are done.                                            *)
(*                                                                         *)
(* CoreIsQueue: it is the Python queue of QueueCalls, on ticks that carry  *)
(* no known cancels (fifo.py process_tick drops them on this path).        *)
(***************************************************************************)
EXTENDS Market

CONSTANT MaxTicks  \* bound: calls of process_tick

VARIABLES
    slots,     \* order id -> qty_in_front               (slots)
    prevMap,   \* displayed sizes of the last tick       (prev_book)
    filledIds, \* orders the tick has filled so far      (filled_ids)
    filled,    \* their fills, to be returned            (fills)
    pc,        \* "ready" | "matching" | "returning"
    book,      \* book of the process_tick call under way
    todo,      \* trades not begun
    trade,     \* the trade being matched
    unmet,     \* orders it has not met yet
    ticks      \* calls of process_tick so far

vars == <<slots, prevMap, filledIds, filled, pc, book, todo, trade, unmet, ticks>>

NoTrade == [side |-> BUY, price |-> 0, size |-> 0]

Init ==
    /\ slots = [id \in {} |-> 0]
    /\ prevMap = EmptyBook
    /\ filledIds = {} /\ filled = {} /\ unmet = {}
    /\ pc = "ready" /\ book = EmptyBook /\ todo = <<>> /\ trade = NoTrade
    /\ ticks = 0

\* slots.insert
CoreRegister(id, b) ==
    /\ pc = "ready" /\ id \notin DOMAIN slots
    /\ slots' = [x \in DOMAIN slots \cup {id} |->
                    IF x = id THEN QtyInFront(OrderOf[id], b) ELSE slots[x]]
    /\ UNCHANGED <<prevMap, filledIds, filled, pc, book, todo, trade, unmet, ticks>>

CoreCancel(id) ==
    /\ pc = "ready" /\ id \in DOMAIN slots
    /\ slots' = [x \in DOMAIN slots \ {id} |-> slots[x]]
    /\ UNCHANGED <<prevMap, filledIds, filled, pc, book, todo, trade, unmet, ticks>>

-----------------------------------------------------------------------------
(* process_tick                                                            *)

SkipTick(b) ==
    /\ pc = "ready" /\ ticks < MaxTicks
    /\ DOMAIN slots = {}
    /\ prevMap' = b
    /\ ticks' = ticks + 1
    /\ UNCHANGED <<slots, filledIds, filled, pc, book, todo, trade, unmet>>

\* infer_cancels: the drop of the displayed size at the order's price.
Delta(id, b) == Monus(SizeAt(prevMap, OrderOf[id].price), SizeAt(b, OrderOf[id].price))

\* Faulty: no clip at zero.
StartTick_unclipped(b, trades) ==
    /\ pc = "ready" /\ ticks < MaxTicks
    /\ DOMAIN slots # {}
    /\ slots' = [id \in DOMAIN slots |-> slots[id] - Delta(id, b)]
    /\ pc' = "matching" /\ book' = b /\ todo' = trades /\ ticks' = ticks + 1
    /\ UNCHANGED <<prevMap, filledIds, filled, trade, unmet>>

StartTick(b, trades) ==
    /\ pc = "ready" /\ ticks < MaxTicks
    /\ DOMAIN slots # {}
    /\ slots' = [id \in DOMAIN slots |-> Monus(slots[id], Delta(id, b))]
    /\ pc' = "matching" /\ book' = b /\ todo' = trades /\ ticks' = ticks + 1
    /\ UNCHANGED <<prevMap, filledIds, filled, trade, unmet>>

NextTrade ==
    /\ pc = "matching" /\ unmet = {} /\ todo # <<>>
    /\ trade' = Head(todo) /\ todo' = Tail(todo) /\ unmet' = DOMAIN slots
    /\ UNCHANGED <<slots, prevMap, filledIds, filled, pc, book, ticks>>

\* try_fill on one slot; an order the tick has filled before is passed over.
Fills(id) ==
    /\ id \notin filledIds
    /\ Matches(trade, OrderOf[id])
    /\ FillSize(slots[id], OrderOf[id], trade) > 0

TheFill(id) == [id |-> id, size |-> FillSize(slots[id], OrderOf[id], trade),
                left |-> Len(todo) + 1]

Meet(id) ==
    /\ pc = "matching" /\ id \in unmet
    /\ unmet' = unmet \ {id}
    /\ filledIds' = IF Fills(id) THEN filledIds \cup {id} ELSE filledIds
    /\ filled' = IF Fills(id) THEN filled \cup {TheFill(id)} ELSE filled
    /\ slots' = IF id \notin filledIds /\ Matches(trade, OrderOf[id])
                THEN [slots EXCEPT ![id] = NewFront(@, trade)] ELSE slots
    /\ UNCHANGED <<prevMap, pc, book, todo, trade, ticks>>

\* Faulty: the filled orders stay in the map.
EndTick_keepsFilled ==
    /\ pc = "matching" /\ unmet = {} /\ todo = <<>>
    /\ prevMap' = book
    /\ pc' = "returning" /\ filledIds' = {} /\ book' = EmptyBook /\ trade' = NoTrade
    /\ UNCHANGED <<slots, filled, todo, unmet, ticks>>

EndTick ==
    /\ pc = "matching" /\ unmet = {} /\ todo = <<>>
    /\ slots' = [id \in DOMAIN slots \ filledIds |-> slots[id]]
    /\ prevMap' = book
    /\ pc' = "returning" /\ filledIds' = {} /\ book' = EmptyBook /\ trade' = NoTrade
    /\ UNCHANGED <<filled, todo, unmet, ticks>>

Return ==
    /\ pc = "returning"
    /\ filled' = {} /\ pc' = "ready"
    /\ UNCHANGED <<slots, prevMap, filledIds, book, todo, trade, unmet, ticks>>

Next ==
    \/ \E id \in OrderIds, b \in Books : CoreRegister(id, b)
    \/ \E id \in OrderIds : CoreCancel(id) \/ Meet(id)
    \/ \E b \in Books : SkipTick(b) \/ (\E trades \in TradeLists : StartTick(b, trades))
    \/ NextTrade \/ EndTick \/ Return

Spec == Init /\ [][Next]_vars
-----------------------------------------------------------------------------

\* Estimates and open quantities stay natural, and every map is about the orders
\* the core holds (lib.rs).
TypeOK ==
    /\ DOMAIN slots \subseteq OrderIds /\ \A id \in DOMAIN slots : slots[id] \in Nat
    /\ prevMap \in Books \cup {EmptyBook} /\ book \in Books \cup {EmptyBook}
    /\ filledIds \subseteq DOMAIN slots /\ unmet \subseteq DOMAIN slots
    /\ filled \subseteq [id : OrderIds, size : Nat \ {0}, left : Nat]
    /\ pc \in {"ready", "matching", "returning"}
    /\ todo \in Seq(Trade) /\ ticks \in Nat

\* The Python queue meets all orders in one step when the Rust queue begins a
\* trade: orders still unmet are seen as the trade will leave them, and filled
\* ones as gone.
Due == {id \in unmet : Fills(id)}

Front == [id \in DOMAIN slots \ (filledIds \cup Due) |->
             IF id \in unmet /\ Matches(trade, OrderOf[id])
             THEN NewFront(slots[id], trade) ELSE slots[id]]

Calls == INSTANCE QueueCalls WITH
    front <- Front, prevBook <- prevMap, hits <- filled \cup {TheFill(id) : id \in Due},
    tick <- [book |-> book, truth |-> NoTruth]

\* The Rust queue implements the Python queue: same positions, same fills,
\* whatever order the map yields the orders in (lib.rs "mirrors", fifo.py).
CoreIsQueue == Calls!CallSpec
=============================================================================
