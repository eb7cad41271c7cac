------------------------------ MODULE QueueCalls ------------------------------
(***************************************************************************)
(* The calls a FIFOQueueSimulator may be given, in the order an engine or  *)
(* a test can make them: register, cancel, and process_tick step by step   *)
(* up to the return of its fills.                                          *)
(***************************************************************************)
EXTENDS FIFOQueue

CONSTANT MaxTicks  \* bound: calls of process_tick

VARIABLES
    pc,     \* "ready" | "matching" | "returning"
    tick,   \* argument of the process_tick call under way
    todo,   \* trades it has not matched yet
    ticks   \* calls of process_tick so far

callVars == <<pc, tick, todo, ticks>>

Ticks  == [book : Books, truth : Truths \cup {NoTruth}]
NoTick == [book |-> EmptyBook, truth |-> NoTruth]

CallInit ==
    /\ QueueInit
    /\ pc = "ready" /\ todo = <<>> /\ ticks = 0
    /\ tick = NoTick

CallRegister(id, book) ==
    /\ pc = "ready"
    /\ id \notin DOMAIN front
    /\ Register(id, book)
    /\ UNCHANGED callVars

CallCancel(id) ==
    /\ pc = "ready"
    /\ id \in DOMAIN front
    /\ Cancel(id)
    /\ UNCHANGED callVars

\* With nothing resting process_tick only remembers the book.
CallSkip(t) ==
    /\ pc = "ready" /\ ticks < MaxTicks
    /\ front = [id \in {} |-> 0]
    /\ UpdateBook(t)
    /\ ticks' = ticks + 1
    /\ UNCHANGED <<pc, tick, todo>>

CallStart(t, trades) ==
    /\ pc = "ready" /\ ticks < MaxTicks
    /\ front # [id \in {} |-> 0]
    /\ InferCancels(t)
    /\ pc' = "matching" /\ tick' = t /\ todo' = trades /\ ticks' = ticks + 1

CallTrade ==
    /\ pc = "matching" /\ todo # <<>>
    /\ MatchTrade(Head(todo), Len(todo))
    /\ todo' = Tail(todo)
    /\ UNCHANGED <<pc, tick, ticks>>

CallEnd ==
    /\ pc = "matching" /\ todo = <<>>
    /\ UpdateBook(tick)
    /\ pc' = "returning" /\ tick' = NoTick
    /\ UNCHANGED <<todo, ticks>>

CallReturn ==
    /\ pc = "returning"
    /\ hits' = {}
    /\ pc' = "ready"
    /\ UNCHANGED <<front, prevBook, tick, todo, ticks>>

CallNext ==
    \/ \E id \in OrderIds, b \in Books : CallRegister(id, b)
    \/ \E id \in OrderIds : CallCancel(id)
    \/ \E t \in Ticks : CallSkip(t) \/ (\E trades \in TradeLists : CallStart(t, trades))
    \/ CallTrade
    \/ CallEnd
    \/ CallReturn

CallSpec == CallInit /\ [][CallNext]_<<queueVars, callVars>>
=============================================================================
