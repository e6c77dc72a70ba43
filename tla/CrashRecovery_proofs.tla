----------------------- MODULE CrashRecovery_proofs -----------------------
(***************************************************************************)
(* What crashes, shutdowns and cancelled coroutines leave of a decision to *)
(* buy, for any decisions and any number of restarts.  The five properties *)
(* need three more facts: a decision that has not been executed was        *)
(* ordered only in earlier lives; the file lags behind the ledger for      *)
(* unsaved decisions only; and a row that is not written is being written. *)
(***************************************************************************)
EXTENDS CrashRecovery, TLAPS

-----------------------------------------------------------------------------
(* The invariants *)

\* TypeOK with its functions spelled out
Typed ==
    /\ loop \in Loop
    /\ step \in [Proposal -> Step]
    /\ chat \subseteq Proposal
    /\ queued \subseteq Proposal /\ overdue \subseteq Trade /\ mirror \subseteq Proposal
    /\ told \in [Proposal -> {"nothing", "failed"} \cup Settled]
    /\ orders \in [Trade -> Nat] /\ coins \in [Trade -> Nat]
    /\ booked \in [Trade -> Nat] /\ file \in [Trade -> Nat]
    /\ pos \in [Trade -> Nat] /\ counted \in [Trade -> Nat] /\ rows \in [Trade -> Nat]
    /\ stop \subseteq Trade
    /\ restarts \in 0..MaxRestarts
    /\ revived \in [Proposal -> Nat]
    /\ unsaved \subseteq Trade /\ cut \subseteq Trade
    /\ unwatched \subseteq Trade /\ rowLost \subseteq Trade

\* A queued decision waits for its answer and for nothing else.
QueuedWait == \A p \in Proposal : p \in queued <=> step[p] = "asked"

\* A decision that is not being executed was ordered in earlier lives only.
NotYetOrdered ==
    \A t \in Trade : step[t] \in {"new", "asked", "scheduled"} => orders[t] <= revived[t]

\* The file lags behind the ledger only where something was booked since.
FileCurrent == \A t \in Trade \ unsaved : file[t] = booked[t]

\* Nobody verifies an order while there is no process.
NoneVerifiesDown ==
    loop = "down" => \A t \in Trade : step[t] = "verifying" => t \in cut

BeingWritten(t) == IF step[t] \in {"writing", "orphan"} THEN 1 ELSE 0

\* What is booked or saved has a row, or its row is being written.
RowsFollow ==
    \A t \in Trade \ (chat \cup rowLost) :
        /\ booked[t] <= rows[t] + BeingWritten(t)
        /\ file[t] <= rows[t] + BeingWritten(t)

Orders == QueuedWait /\ NotYetOrdered /\ OrderedOnce /\ AnswersStand

Books == FileCurrent /\ NoneVerifiesDown /\ OrdersAreBooked /\ RowsFollow /\ BookedBuysCount

IInv == Typed /\ Orders /\ Books /\ PositionsHaveStops

\* The two ways to write the types mean the same.
LEMMA TypedIsTypeOK == Typed <=> TypeOK
  BY DEF Typed, TypeOK

\* Trades and swaps are different decisions.
LEMMA Decisions == Trade \subseteq Proposal /\ Trade \cap Swap = {}
  BY RecoveryAssumption DEF RecoveryAssumption, Proposal

\* Moving one decision on leaves the others where they are.
LEMMA StepMoves ==
    ASSUME step \in [Proposal -> Step], NEW p \in Proposal, NEW s \in Step,
           step' = [step EXCEPT ![p] = s]
    PROVE  /\ step' \in [Proposal -> Step] /\ step'[p] = s
           /\ \A q \in Proposal \ {p} : step'[q] = step[q]
  OBVIOUS

\* At the start nothing is decided.
LEMMA InitInv == Init => IInv
<1> SUFFICES ASSUME Init PROVE IInv
  OBVIOUS
<1>1. Typed
  BY RecoveryAssumption DEF RecoveryAssumption, Init, Typed, Loop, Step
<1>2. Orders
  BY Decisions DEF Init, Orders, QueuedWait, NotYetOrdered, OrderedOnce, AnswersStand
<1>3. Books
  BY Decisions
     DEF Init, Books, FileCurrent, NoneVerifiesDown, OrdersAreBooked, RowsFollow,
         BookedBuysCount, BeingWritten
<1>4. PositionsHaveStops
  BY DEF Init, PositionsHaveStops
<1> QED
  BY <1>1, <1>2, <1>3, <1>4 DEF IInv

-----------------------------------------------------------------------------
(* Execution *)

\* An order that is booked keeps all the books.
LEMMA BookKeeps ==
    ASSUME IInv, NEW t \in Trade, Book(t), loop # "down",
           \/ step[t] \in {"new", "scheduled"} /\ orders' = More(orders, t) /\ coins' = More(coins, t)
           \/ step[t] = "verifying" /\ UNCHANGED exchange,
           UNCHANGED <<loop, chat, disk, approvals, restarts>>
    PROVE  IInv'
<1>1. Typed /\ Orders /\ Books /\ PositionsHaveStops /\ t \in Proposal
  BY Decisions DEF IInv
<1>2. /\ booked' = More(booked, t) /\ pos' = More(pos, t) /\ counted' = More(counted, t)
      /\ unsaved' = unsaved \cup {t}
      /\ UNCHANGED <<loop, chat, file, rows, queued, overdue, mirror, told, restarts, stop,
                     revived, cut, unwatched, rowLost>>
  BY DEF Book, disk, approvals
<1>3. /\ step' \in [Proposal -> Step]
      /\ step'[t] = IF t \in chat THEN "done" ELSE "writing"
      /\ \A q \in Proposal \ {t} : step'[q] = step[q]
  <2>1. (IF t \in chat THEN "done" ELSE "writing") \in Step
    BY DEF Step
  <2> QED
    BY <1>1, <2>1, StepMoves DEF Book, Typed
<1>4. /\ booked' \in [Trade -> Nat] /\ booked'[t] = booked[t] + 1
      /\ \A u \in Trade \ {t} : booked'[u] = booked[u]
      /\ counted' \in [Trade -> Nat] /\ counted'[t] = counted[t] + 1
      /\ \A u \in Trade \ {t} : counted'[u] = counted[u]
      /\ pos' \in [Trade -> Nat] /\ pos'[t] = pos[t] + 1
      /\ \A u \in Trade \ {t} : pos'[u] = pos[u]
  <2>1. /\ booked' \in [Trade -> Nat] /\ booked'[t] = booked[t] + 1
        /\ \A u \in Trade \ {t} : booked'[u] = booked[u]
    BY <1>1, <1>2 DEF Typed, More
  <2>2. /\ counted' \in [Trade -> Nat] /\ counted'[t] = counted[t] + 1
        /\ \A u \in Trade \ {t} : counted'[u] = counted[u]
    BY <1>1, <1>2 DEF Typed, More
  <2>3. /\ pos' \in [Trade -> Nat] /\ pos'[t] = pos[t] + 1
        /\ \A u \in Trade \ {t} : pos'[u] = pos[u]
    BY <1>1, <1>2 DEF Typed, More
  <2> QED
    BY <2>1, <2>2, <2>3
<1>5. /\ orders' \in [Trade -> Nat] /\ coins' \in [Trade -> Nat]
      /\ \/ step[t] \in {"new", "scheduled"} /\ orders'[t] = orders[t] + 1
         \/ step[t] = "verifying" /\ orders'[t] = orders[t]
      /\ \A u \in Trade \ {t} : orders'[u] = orders[u]
  <2>1. CASE step[t] = "verifying" /\ UNCHANGED exchange
    BY <1>1, <2>1 DEF Typed, exchange
  <2>2. CASE /\ step[t] \in {"new", "scheduled"}
             /\ orders' = More(orders, t) /\ coins' = More(coins, t)
    <3>1. /\ orders' \in [Trade -> Nat] /\ orders'[t] = orders[t] + 1
          /\ \A u \in Trade \ {t} : orders'[u] = orders[u]
      BY <1>1, <2>2 DEF Typed, More
    <3>2. coins' \in [Trade -> Nat]
      BY <1>1, <2>2 DEF Typed, More
    <3> QED
      BY <2>2, <3>1, <3>2
  <2> QED
    BY <2>1, <2>2
<1>6. Typed'
  BY <1>1, <1>2, <1>3, <1>4, <1>5 DEF Typed
<1>7. QueuedWait'
  BY <1>1, <1>2, <1>3, <1>5 DEF Orders, QueuedWait
<1>8. NotYetOrdered' /\ OrderedOnce'
  BY <1>1, <1>2, <1>3, <1>5, Decisions DEF Orders, NotYetOrdered, OrderedOnce, Typed
<1>9. AnswersStand'
  <2>1. step[t] # "over"
    BY <1>5
  <2> QED
    BY <1>1, <1>2, <1>3, <1>5, <2>1, Decisions DEF Orders, AnswersStand
<1>10. FileCurrent' /\ NoneVerifiesDown'
  BY <1>1, <1>2, <1>3, <1>4, Decisions DEF Books, FileCurrent, NoneVerifiesDown
<1>11. OrdersAreBooked'
  BY <1>1, <1>2, <1>3, <1>4, <1>5, Decisions DEF Books, OrdersAreBooked, Typed
<1>12. RowsFollow'
  <2>1. BeingWritten(t) = 0 /\ (t \notin chat => BeingWritten(t)' = 1)
    BY <1>3, <1>5 DEF BeingWritten
  <2>2. \A u \in Trade \ {t} : BeingWritten(u)' = BeingWritten(u)
    BY <1>3, Decisions DEF BeingWritten
  <2> QED
    BY <1>1, <1>2, <1>4, <2>1, <2>2 DEF Books, RowsFollow, Typed
<1>13. BookedBuysCount'
  BY <1>1, <1>2, <1>4 DEF Books, BookedBuysCount, Typed
<1>14. PositionsHaveStops'
  BY <1>1, <1>2, <1>3, <1>4, Decisions DEF PositionsHaveStops
<1> QED
  BY <1>6, <1>7, <1>8, <1>9, <1>10, <1>11, <1>12, <1>13, <1>14 DEF IInv, Orders, Books

\* A decision that moves on with no books written keeps them.
LEMMA MoveKeeps ==
    ASSUME IInv, NEW p \in Proposal, NEW s \in {"over", "verifying"},
           step' = [step EXCEPT ![p] = s],
           step[p] \in {"new", "scheduled", "verifying"},
           s = "verifying" => p \in Trade /\ step[p] # "verifying" /\ loop # "down",
           orders' \in [Trade -> Nat], coins' \in [Trade -> Nat],
           \A u \in Trade \ {p} : orders'[u] = orders[u],
           p \in Trade => orders'[p] = orders[p] + (IF s = "verifying" THEN 1 ELSE 0)
                                      - (IF step[p] = "verifying" THEN 1 ELSE 0),
           UNCHANGED <<loop, chat, ledger, disk, approvals, restarts, ghosts>>
    PROVE  IInv'
<1>1. Typed /\ Orders /\ Books /\ PositionsHaveStops
  BY DEF IInv
<1>2. UNCHANGED <<loop, chat, booked, pos, counted, stop, file, rows, queued, overdue, mirror,
                  told, restarts, revived, unsaved, cut, unwatched, rowLost>>
  BY DEF ledger, disk, approvals, ghosts
<1>3. /\ step' \in [Proposal -> Step] /\ step'[p] = s
      /\ \A q \in Proposal \ {p} : step'[q] = step[q]
  BY <1>1, StepMoves DEF Typed, Step
<1>4. Typed'
  BY <1>1, <1>2, <1>3 DEF Typed
<1>5. QueuedWait'
  BY <1>1, <1>2, <1>3 DEF Orders, QueuedWait
<1>6. NotYetOrdered' /\ OrderedOnce'
  BY <1>1, <1>2, <1>3, Decisions DEF Orders, NotYetOrdered, OrderedOnce, Typed
<1>7. AnswersStand'
  BY <1>1, <1>2, <1>3, Decisions DEF Orders, AnswersStand
<1>8. FileCurrent' /\ NoneVerifiesDown'
  BY <1>1, <1>2, <1>3, Decisions DEF Books, FileCurrent, NoneVerifiesDown
<1>9. OrdersAreBooked'
  BY <1>1, <1>2, <1>3, Decisions DEF Books, OrdersAreBooked, Typed
<1>10. RowsFollow' /\ BookedBuysCount'
  <2>1. \A u \in Trade : BeingWritten(u)' = BeingWritten(u)
    BY <1>3, Decisions DEF BeingWritten
  <2> QED
    BY <1>1, <1>2, <2>1 DEF Books, RowsFollow, BookedBuysCount
<1>11. PositionsHaveStops'
  BY <1>1, <1>2, <1>3, Decisions DEF PositionsHaveStops
<1> QED
  BY <1>4, <1>5, <1>6, <1>7, <1>8, <1>9, <1>10, <1>11 DEF IInv, Orders, Books

\* The executor, whether it orders nothing, books at once or has to ask again.
LEMMA ExecutesKeeps ==
    ASSUME IInv, NEW t \in Trade, loop # "down", step[t] \in {"new", "scheduled"},
           Executes(t), UNCHANGED <<chat, approvals>>
    PROVE  IInv'
<1>1. Typed /\ t \in Proposal
  BY Decisions DEF IInv
<1>2. CASE step' = [step EXCEPT ![t] = "over"] /\ UNCHANGED <<exchange, ledger, ghosts>>
  <2>1. /\ orders' \in [Trade -> Nat] /\ coins' \in [Trade -> Nat]
        /\ \A u \in Trade \ {t} : orders'[u] = orders[u]
        /\ orders'[t] = orders[t] + 0 - 0
    BY <1>1, <1>2 DEF exchange, Typed
  <2> QED
    BY <1>1, <1>2, <2>1, MoveKeeps DEF Executes
<1>3. CASE orders' = More(orders, t) /\ coins' = More(coins, t) /\ Book(t)
  BY <1>1, <1>3, BookKeeps DEF Executes
<1>4. CASE /\ orders' = More(orders, t)
           /\ coins' \in {coins, More(coins, t)}
           /\ step' = [step EXCEPT ![t] = "verifying"]
           /\ UNCHANGED <<ledger, ghosts>>
  <2>1. /\ orders' \in [Trade -> Nat] /\ coins' \in [Trade -> Nat]
        /\ \A u \in Trade \ {t} : orders'[u] = orders[u]
        /\ orders'[t] = orders[t] + 1 - 0
    BY <1>1, <1>4 DEF More, Typed
  <2> QED
    BY <1>1, <1>4, <2>1, MoveKeeps DEF Executes
<1> QED
  BY <1>2, <1>3, <1>4 DEF Executes

\* An approved decision that the loop finds.
LEMMA RunScheduledKeeps ==
    ASSUME IInv, NEW p \in Proposal, RunScheduled(p)
    PROVE  IInv'
<1>1. CASE p \in Trade
  BY <1>1, ExecutesKeeps DEF RunScheduled, EventLoopTurns
<1>2. CASE p \notin Trade
  <2>1. /\ orders' \in [Trade -> Nat] /\ coins' \in [Trade -> Nat]
        /\ \A u \in Trade \ {p} : orders'[u] = orders[u]
    BY <1>2 DEF RunScheduled, exchange, IInv, Typed
  <2> QED
    BY <1>2, <2>1, MoveKeeps DEF RunScheduled, EventLoopTurns
<1> QED
  BY <1>1, <1>2

\* The order is confirmed, or it ended unfilled.
LEMMA VerifiedKeeps ==
    ASSUME IInv, NEW t \in Trade, Verified(t)
    PROVE  IInv'
<1>1. Typed /\ t \in Proposal /\ loop # "down" /\ step[t] = "verifying"
  BY Decisions DEF IInv, Verified, EventLoopTurns
<1>2. CASE Book(t) /\ UNCHANGED exchange
  BY <1>1, <1>2, BookKeeps DEF Verified
<1>3. CASE /\ coins[t] < orders[t]
           /\ orders' = [orders EXCEPT ![t] = @ - 1]
           /\ step' = [step EXCEPT ![t] = "over"]
           /\ UNCHANGED <<coins, ledger, ghosts>>
  <2>1. orders[t] - 1 \in Nat
    BY <1>1, <1>3 DEF Typed
  <2>2. /\ orders' \in [Trade -> Nat] /\ coins' \in [Trade -> Nat]
        /\ \A u \in Trade \ {t} : orders'[u] = orders[u]
        /\ orders'[t] = orders[t] + 0 - 1
    BY <1>1, <1>3, <2>1 DEF Typed
  <2> QED
    BY <1>1, <1>3, <2>2, MoveKeeps DEF Verified
<1> QED
  BY <1>2, <1>3 DEF Verified

-----------------------------------------------------------------------------
(* What most steps leave alone *)

\* Orders only change with the steps, the orders, the queue and the answers.
LEMMA OrdersKept ==
    ASSUME Orders, step' = step, queued' = queued, orders' = orders, revived' = revived,
           told' = told
    PROVE  Orders'
  BY DEF Orders, QueuedWait, NotYetOrdered, OrderedOnce, AnswersStand

\* Books only change with the steps, the orders and what is written of them.
LEMMA BooksKept ==
    ASSUME Books, step' = step, orders' = orders, booked' = booked, file' = file,
           counted' = counted, rows' = rows, chat \subseteq chat',
           unsaved' = unsaved, cut' = cut, rowLost' = rowLost,
           loop' = "down" => loop = "down"
    PROVE  Books'
<1>1. FileCurrent' /\ NoneVerifiesDown' /\ OrdersAreBooked'
  BY DEF Books, FileCurrent, NoneVerifiesDown, OrdersAreBooked
<1>2. RowsFollow' /\ BookedBuysCount'
  BY DEF Books, RowsFollow, BookedBuysCount, BeingWritten
<1> QED
  BY <1>1, <1>2 DEF Books

\* A step that moves neither decisions nor books nor stops.
LEMMA ElsewhereKeeps ==
    ASSUME IInv, Typed', loop' = "down" => loop = "down",
           UNCHANGED <<step, chat, queued, told, orders, booked, file, pos, stop, counted,
                       rows, revived, unsaved, cut, unwatched, rowLost>>
    PROVE  IInv'
<1>1. Orders'
  BY OrdersKept DEF IInv
<1>2. Books'
  BY BooksKept DEF IInv
<1>3. PositionsHaveStops'
  BY DEF IInv, PositionsHaveStops
<1> QED
  BY <1>1, <1>2, <1>3 DEF IInv

\* A fill, the clock, the turns of the loop and Redis.
LEMMA QuietStepsKeep ==
    ASSUME IInv,
           \/ \E t \in Trade : Fill(t)
           \/ HourPasses \/ StartBatch \/ EndBatch("after") \/ EndBatch("wait")
           \/ Raise \/ Publish \/ MirrorExpires \/ UNCHANGED vars
    PROVE  IInv'
<1> USE DEF exchange, ledger, disk, approvals, ghosts
<1>1. Typed
  BY DEF IInv
<1>2. CASE \E t \in Trade : Fill(t)
  <2>1. PICK t \in Trade : Fill(t)
    BY <1>2
  <2>2. coins' \in [Trade -> Nat]
    BY <1>1, <2>1 DEF Fill, More, Typed
  <2>3. Typed'
    BY <1>1, <2>1, <2>2 DEF Fill, Typed
  <2> QED
    BY <2>1, <2>3, ElsewhereKeeps DEF Fill
<1>3. CASE HourPasses
  <2>1. Typed'
    BY <1>1, <1>3 DEF HourPasses, Typed
  <2> QED
    BY <1>3, <2>1, ElsewhereKeeps DEF HourPasses
<1>4. CASE StartBatch
  <2>1. Typed'
    BY <1>1, <1>4 DEF StartBatch, Typed, Loop
  <2> QED
    BY <1>4, <2>1, ElsewhereKeeps DEF StartBatch
<1>5. CASE EndBatch("after")
  <2>1. Typed'
    BY <1>1, <1>5 DEF EndBatch, Typed, Loop
  <2> QED
    BY <1>5, <2>1, ElsewhereKeeps DEF EndBatch
<1>6. CASE EndBatch("wait")
  <2>1. Typed'
    BY <1>1, <1>6 DEF EndBatch, Typed, Loop
  <2> QED
    BY <1>6, <2>1, ElsewhereKeeps DEF EndBatch
<1>7. CASE Raise
  <2>1. Typed'
    BY <1>1, <1>7 DEF Raise, Typed, Loop
  <2> QED
    BY <1>7, <2>1, ElsewhereKeeps DEF Raise
<1>8. CASE Publish
  <2>1. Typed'
    BY <1>1, <1>8 DEF Publish, Typed, Loop
  <2> QED
    BY <1>8, <2>1, ElsewhereKeeps DEF Publish
<1>9. CASE MirrorExpires
  <2>1. Typed'
    BY <1>1, <1>9 DEF MirrorExpires, Typed
  <2> QED
    BY <1>9, <2>1, ElsewhereKeeps DEF MirrorExpires
<1>10. CASE UNCHANGED vars
  <2>1. Typed'
    BY <1>1, <1>10 DEF vars, Typed
  <2> QED
    BY <1>10, <2>1, ElsewhereKeeps DEF vars
<1> QED
  BY <1>2, <1>3, <1>4, <1>5, <1>6, <1>7, <1>8, <1>9, <1>10

-----------------------------------------------------------------------------
(* The queue *)

\* A decision that moves between waiting states, with nothing ordered.
LEMMA WaitingKeeps ==
    ASSUME IInv, Typed', NEW p \in Proposal, NEW s \in {"asked", "scheduled", "over"},
           step' = [step EXCEPT ![p] = s], step[p] \in {"new", "asked"},
           queued' = IF s = "asked" THEN queued \cup {p} ELSE queued \ {p},
           told' = told \/ \E a \in Settled : told' = [told EXCEPT ![p] = a],
           s = "asked" => step[p] = "new" /\ told' = told,
           s = "scheduled" => told' = [told EXCEPT ![p] = "approved"],
           s = "over" => step[p] = "asked",
           chat' = IF s = "scheduled" THEN chat \cup {p} ELSE chat,
           UNCHANGED <<loop, exchange, ledger, disk, restarts, ghosts>>
    PROVE  IInv'
<1>1. Typed /\ Orders /\ Books /\ PositionsHaveStops
  BY DEF IInv
<1>2. UNCHANGED <<loop, orders, coins, booked, pos, counted, stop, file, rows, restarts,
                  revived, unsaved, cut, unwatched, rowLost>>
  BY DEF exchange, ledger, disk, ghosts
<1>3. /\ step'[p] = s
      /\ \A q \in Proposal \ {p} : step'[q] = step[q]
  BY <1>1, StepMoves DEF Typed, Step
<1>4. \A q \in Proposal \ {p} : told'[q] = told[q]
  BY <1>1 DEF Typed
<1>5. QueuedWait'
  BY <1>1, <1>3 DEF Orders, QueuedWait
<1>6. NotYetOrdered' /\ OrderedOnce'
  BY <1>1, <1>2, <1>3, Decisions DEF Orders, NotYetOrdered, OrderedOnce, Typed
<1>7. AnswersStand'
  <2> SUFFICES ASSUME NEW q \in Proposal,
                      told'[q] \in {"rejected", "expired"}, revived'[q] = 0
               PROVE  q \notin queued' /\ step'[q] = "over" /\ (q \in Trade => orders'[q] = 0)
    BY DEF AnswersStand
  <2>1. CASE q # p
    BY <1>1, <1>2, <1>3, <1>4, <2>1 DEF Orders, AnswersStand
  <2>2. CASE q = p /\ s = "over"
    <3>1. p \in Trade => orders[p] <= revived[p]
      BY <1>1, <2>2 DEF Orders, NotYetOrdered
    <3>2. p \in Trade => orders[p] = 0
      BY <1>1, <1>2, <2>2, <3>1 DEF Typed
    <3> QED
      BY <1>2, <1>3, <2>2, <3>2
  <2>3. CASE q = p /\ s = "asked"
    <3>1. step[p] = "over"
      BY <1>1, <1>2, <2>3 DEF Orders, AnswersStand
    <3> QED
      BY <2>3, <3>1
  <2>4. CASE q = p /\ s = "scheduled"
    <3>1. told'[p] = "approved"
      BY <1>1, <2>4 DEF Typed
    <3> QED
      BY <2>4, <3>1
  <2> QED
    BY <2>1, <2>2, <2>3, <2>4
<1>8. FileCurrent' /\ NoneVerifiesDown'
  BY <1>1, <1>2, <1>3, Decisions DEF Books, FileCurrent, NoneVerifiesDown
<1>9. OrdersAreBooked'
  BY <1>1, <1>2, <1>3, Decisions DEF Books, OrdersAreBooked
<1>10. RowsFollow' /\ BookedBuysCount'
  <2>1. \A u \in Trade : BeingWritten(u)' = BeingWritten(u)
    BY <1>3, Decisions DEF BeingWritten
  <2> QED
    BY <1>1, <1>2, <2>1 DEF Books, RowsFollow, BookedBuysCount
<1>11. PositionsHaveStops'
  BY <1>1, <1>2, <1>3, Decisions DEF PositionsHaveStops
<1> QED
  BY <1>5, <1>6, <1>7, <1>8, <1>9, <1>10, <1>11 DEF IInv, Orders, Books

\* A decision is queued, approved, rejected, or given up on.
LEMMA QueueKeeps ==
    ASSUME IInv, NEW p \in Proposal,
           Ask(p) \/ Approve(p) \/ GiveUp(p) \/ Reject(p)
    PROVE  IInv'
<1>1. Typed /\ QueuedWait
  BY DEF IInv, Orders
<1>2. CASE Ask(p)
  <2>1. Typed'
    BY <1>1, <1>2 DEF Ask, Typed, Step, exchange, ledger, disk, ghosts
  <2> QED
    BY <1>2, <2>1, WaitingKeeps DEF Ask
<1>3. CASE Approve(p)
  <2>1. Typed'
    BY <1>1, <1>3 DEF Approve, Typed, Step, Settled, exchange, ledger, disk, ghosts
  <2>2. step[p] = "asked"
    BY <1>1, <1>3 DEF Approve, QueuedWait
  <2>3. \E a \in Settled : told' = [told EXCEPT ![p] = a]
    BY <1>3 DEF Approve, Settled
  <2> QED
    BY <1>3, <2>1, <2>2, <2>3, WaitingKeeps DEF Approve
<1>4. CASE Reject(p)
  <2>1. Typed'
    BY <1>1, <1>4 DEF Reject, Typed, Step, Settled, exchange, ledger, disk, ghosts
  <2>2. step[p] = "asked"
    BY <1>1, <1>4 DEF Reject, QueuedWait
  <2>3. \E a \in Settled : told' = [told EXCEPT ![p] = a]
    BY <1>4 DEF Reject, Settled
  <2> QED
    BY <1>4, <2>1, <2>2, <2>3, WaitingKeeps DEF Reject
<1>5. CASE GiveUp(p)
  <2>1. Typed'
    BY <1>1, <1>5 DEF GiveUp, Typed, exchange, ledger, disk, ghosts
  <2>2. UNCHANGED <<loop, step, chat, queued, orders, booked, file, pos, stop, counted, rows,
                    revived, unsaved, cut, unwatched, rowLost>>
    BY <1>5 DEF GiveUp, exchange, ledger, disk, ghosts
  <2>3. \A q \in Proposal : told'[q] \in {"rejected", "expired"} => told'[q] = told[q]
    BY <1>1, <1>5 DEF GiveUp, Typed
  <2>4. Orders'
    BY <2>2, <2>3
       DEF IInv, Orders, QueuedWait, NotYetOrdered, OrderedOnce, AnswersStand
  <2>5. Books'
    BY <2>2, BooksKept DEF IInv
  <2>6. PositionsHaveStops'
    BY <2>2 DEF IInv, PositionsHaveStops
  <2> QED
    BY <2>1, <2>4, <2>5, <2>6 DEF IInv
<1> QED
  BY <1>2, <1>3, <1>4, <1>5

\* What has waited too long was not ordered, and its answer stands.
LEMMA PruneKeeps ==
    ASSUME IInv, Prune
    PROVE  IInv'
<1>1. Typed /\ Orders /\ Books /\ PositionsHaveStops
  BY DEF IInv
<1>2. /\ UNCHANGED <<chat, overdue, mirror, orders, coins, booked, pos, counted, stop, file,
                     rows, restarts, revived, unsaved, cut, unwatched, rowLost>>
      /\ loop' = "wait" /\ queued' = queued \ Stale
  BY DEF Prune, exchange, ledger, disk, ghosts
<1>3. /\ \A p \in Proposal : p \in Stale => step[p] = "asked"
      /\ Stale \subseteq queued
  BY <1>1 DEF Stale, Orders, QueuedWait
<1>4. /\ \A p \in Proposal : step'[p] = IF p \in Stale THEN "over" ELSE step[p]
      /\ \A p \in Proposal : told'[p] = IF p \in Stale THEN "expired" ELSE told[p]
  BY DEF Prune
<1>5. Typed'
  <2>1. step' \in [Proposal -> Step]
    BY <1>1 DEF Prune, Typed, Step
  <2>2. told' \in [Proposal -> {"nothing", "failed"} \cup Settled]
    BY <1>1 DEF Prune, Typed, Settled
  <2> QED
    BY <1>1, <1>2, <2>1, <2>2 DEF Typed, Loop
<1>6. QueuedWait'
  BY <1>1, <1>2, <1>3, <1>4 DEF Orders, QueuedWait
<1>7. NotYetOrdered' /\ OrderedOnce'
  BY <1>1, <1>2, <1>4, Decisions DEF Orders, NotYetOrdered, OrderedOnce
<1>8. AnswersStand'
  <2> SUFFICES ASSUME NEW p \in Proposal,
                      told'[p] \in {"rejected", "expired"}, revived'[p] = 0
               PROVE  p \notin queued' /\ step'[p] = "over" /\ (p \in Trade => orders'[p] = 0)
    BY DEF AnswersStand
  <2>1. CASE p \in Stale
    <3>1. p \in Trade => orders[p] <= revived[p]
      BY <1>1, <1>3, <2>1 DEF Orders, NotYetOrdered
    <3>2. p \in Trade => orders[p] = 0
      BY <1>1, <1>2, <3>1 DEF Typed
    <3> QED
      BY <1>2, <1>4, <2>1, <3>2
  <2>2. CASE p \notin Stale
    BY <1>1, <1>2, <1>4, <2>2 DEF Orders, AnswersStand
  <2> QED
    BY <2>1, <2>2
<1>9. FileCurrent' /\ NoneVerifiesDown'
  BY <1>1, <1>2 DEF Books, FileCurrent, NoneVerifiesDown
<1>10. OrdersAreBooked'
  BY <1>1, <1>2, <1>3, <1>4, Decisions DEF Books, OrdersAreBooked
<1>11. RowsFollow' /\ BookedBuysCount'
  <2>1. \A u \in Trade : BeingWritten(u)' = BeingWritten(u)
    BY <1>3, <1>4, Decisions DEF BeingWritten
  <2> QED
    BY <1>1, <1>2, <2>1 DEF Books, RowsFollow, BookedBuysCount
<1>12. PositionsHaveStops'
  BY <1>1, <1>2, <1>3, <1>4, Decisions DEF PositionsHaveStops
<1> QED
  BY <1>5, <1>6, <1>7, <1>8, <1>9, <1>10, <1>11, <1>12 DEF IInv, Orders, Books

-----------------------------------------------------------------------------
(* The rest of a pipeline, the holdings and the file *)

\* The row is written, and is nowhere else in the making.
LEMMA WriteRowKeeps ==
    ASSUME IInv, NEW t \in Trade, WriteRow(t)
    PROVE  IInv'
<1>1. Typed /\ Orders /\ Books /\ PositionsHaveStops /\ t \in Proposal
  BY Decisions DEF IInv
<1>2. UNCHANGED <<loop, chat, orders, coins, booked, pos, counted, stop, file, queued, overdue,
                  mirror, told, restarts, revived, unsaved, cut, unwatched, rowLost>>
  BY DEF WriteRow, exchange, ledger, approvals, ghosts
<1>3. /\ step' \in [Proposal -> Step]
      /\ \/ step[t] = "writing" /\ step'[t] = "written"
         \/ step[t] = "orphan" /\ step'[t] = "done"
      /\ \A q \in Proposal \ {t} : step'[q] = step[q]
  BY <1>1 DEF WriteRow, Typed, Step
<1>4. /\ rows' \in [Trade -> Nat] /\ rows'[t] = rows[t] + 1
      /\ \A u \in Trade \ {t} : rows'[u] = rows[u]
  BY <1>1 DEF WriteRow, More, Typed
<1>5. Typed'
  BY <1>1, <1>2, <1>3, <1>4 DEF Typed
<1>6. QueuedWait' /\ NotYetOrdered' /\ OrderedOnce'
  BY <1>1, <1>2, <1>3, Decisions DEF Orders, QueuedWait, NotYetOrdered, OrderedOnce
<1>7. AnswersStand'
  BY <1>1, <1>2, <1>3, Decisions DEF Orders, AnswersStand
<1>8. FileCurrent' /\ NoneVerifiesDown' /\ OrdersAreBooked'
  BY <1>1, <1>2, <1>3, Decisions DEF Books, FileCurrent, NoneVerifiesDown, OrdersAreBooked
<1>9. RowsFollow'
  <2>1. BeingWritten(t) = 1 /\ BeingWritten(t)' = 0
    BY <1>3 DEF BeingWritten
  <2>2. \A u \in Trade \ {t} : BeingWritten(u)' = BeingWritten(u)
    BY <1>3, Decisions DEF BeingWritten
  <2> QED
    BY <1>1, <1>2, <1>4, <2>1, <2>2 DEF Books, RowsFollow, Typed
<1>10. BookedBuysCount'
  BY <1>1, <1>2 DEF Books, BookedBuysCount
<1>11. PositionsHaveStops'
  <2> SUFFICES ASSUME NEW u \in Trade \ (chat \cup unwatched), pos[u] > 0
               PROVE  u \in stop \/ step'[u] \in {"writing", "written"}
    BY <1>2 DEF PositionsHaveStops
  <2>1. u \in stop \/ step[u] \in {"writing", "written"}
    BY <1>1 DEF PositionsHaveStops
  <2> QED
    BY <1>3, <2>1, Decisions
<1> QED
  BY <1>5, <1>6, <1>7, <1>8, <1>9, <1>10, <1>11 DEF IInv, Orders, Books

\* The pipeline is through, and its pair has a stop.
LEMMA FinishKeeps ==
    ASSUME IInv, NEW t \in Trade, Finish(t)
    PROVE  IInv'
<1>1. Typed /\ Orders /\ Books /\ PositionsHaveStops /\ t \in Proposal
  BY Decisions DEF IInv
<1>2. /\ UNCHANGED <<loop, chat, orders, coins, booked, pos, counted, file, rows, queued,
                     overdue, mirror, told, restarts, revived, unsaved, cut, unwatched,
                     rowLost>>
      /\ stop' = stop \cup {t}
  BY DEF Finish, exchange, disk, approvals, ghosts
<1>3. /\ step' \in [Proposal -> Step] /\ step[t] = "written" /\ step'[t] = "done"
      /\ \A q \in Proposal \ {t} : step'[q] = step[q]
  BY <1>1 DEF Finish, Typed, Step
<1>4. Typed'
  BY <1>1, <1>2, <1>3 DEF Typed
<1>5. QueuedWait' /\ NotYetOrdered' /\ OrderedOnce'
  BY <1>1, <1>2, <1>3, Decisions DEF Orders, QueuedWait, NotYetOrdered, OrderedOnce
<1>6. AnswersStand'
  BY <1>1, <1>2, <1>3, Decisions DEF Orders, AnswersStand
<1>7. FileCurrent' /\ NoneVerifiesDown' /\ OrdersAreBooked'
  BY <1>1, <1>2, <1>3, Decisions DEF Books, FileCurrent, NoneVerifiesDown, OrdersAreBooked
<1>8. RowsFollow' /\ BookedBuysCount'
  <2>1. \A u \in Trade : BeingWritten(u)' = BeingWritten(u)
    BY <1>3, Decisions DEF BeingWritten
  <2> QED
    BY <1>1, <1>2, <2>1 DEF Books, RowsFollow, BookedBuysCount
<1>9. PositionsHaveStops'
  BY <1>1, <1>2, <1>3, Decisions DEF PositionsHaveStops
<1> QED
  BY <1>4, <1>5, <1>6, <1>7, <1>8, <1>9 DEF IInv, Orders, Books

\* A found position has a stop at once.
LEMMA RefreshKeeps ==
    ASSUME IInv, Refresh
    PROVE  IInv'
<1>1. UNCHANGED <<loop, step, chat, orders, coins, booked, counted, file, rows, queued, overdue,
                  mirror, told, restarts, revived, unsaved, cut, unwatched, rowLost>>
  BY DEF Refresh, exchange, disk, approvals, ghosts
<1>2. /\ pos' \in [Trade -> Nat] /\ stop' = stop \cup Found
      /\ \A t \in Trade \ Found : pos'[t] = pos[t]
  BY DEF Refresh, IInv, Typed
<1>3. Typed'
  BY <1>1, <1>2 DEF IInv, Typed, Found
<1>4. Orders'
  BY <1>1, OrdersKept DEF IInv
<1>5. Books'
  BY <1>1, BooksKept DEF IInv
<1>6. PositionsHaveStops'
  BY <1>1, <1>2 DEF IInv, PositionsHaveStops
<1> QED
  BY <1>3, <1>4, <1>5, <1>6 DEF IInv

\* The saved file is the ledger, and a write that failed leaves both.
LEMMA SaveKeeps ==
    ASSUME IInv, Save
    PROVE  IInv'
<1>1. UNCHANGED <<step, chat, orders, coins, booked, pos, counted, stop, rows, queued, overdue,
                  mirror, told, restarts, revived, cut, unwatched, rowLost>>
  BY DEF Save, exchange, ledger, approvals
<1>2. /\ loop' = "saved"
      /\ \/ file' = booked /\ unsaved' = {}
         \/ file' = file /\ unsaved' = unsaved
  BY DEF Save, SaveState
<1>3. Typed'
  BY <1>1, <1>2 DEF IInv, Typed, Loop
<1>4. Orders'
  BY <1>1, OrdersKept DEF IInv
<1>5. FileCurrent' /\ NoneVerifiesDown' /\ OrdersAreBooked'
  BY <1>1, <1>2 DEF IInv, Books, FileCurrent, NoneVerifiesDown, OrdersAreBooked
<1>6. RowsFollow' /\ BookedBuysCount'
  BY <1>1, <1>2 DEF IInv, Books, RowsFollow, BookedBuysCount, BeingWritten
<1>7. PositionsHaveStops'
  BY <1>1 DEF IInv, PositionsHaveStops
<1> QED
  BY <1>3, <1>4, <1>5, <1>6, <1>7 DEF IInv, Books

-----------------------------------------------------------------------------
(* Cancelling, dying and starting again *)

\* Cancelling some of the suspended coroutines, or all of them at a shutdown.
LEMMA CancelKeeps ==
    ASSUME IInv, NEW ts \in SUBSET {t \in Trade : step[t] \in Suspended}, Cancel(ts), SaveState,
           loop' \in Loop, loop' = "down" => ts = {t \in Trade : step[t] \in Suspended},
           UNCHANGED <<chat, exchange, ledger, rows, approvals, restarts, revived, rowLost>>
    PROVE  IInv'
<1>1. Typed /\ Orders /\ Books /\ PositionsHaveStops
  BY DEF IInv
<1>2. /\ UNCHANGED <<chat, orders, coins, booked, pos, counted, stop, rows, queued, overdue,
                     mirror, told, restarts, revived, rowLost>>
      /\ cut' = cut \cup {t \in ts : step[t] = "verifying"}
      /\ unwatched' = unwatched \cup {t \in ts : step[t] \in {"writing", "written"}}
      /\ \/ file' = booked /\ unsaved' = {}
         \/ file' = file /\ unsaved' = unsaved
  BY DEF exchange, ledger, approvals, Cancel, SaveState
<1>3. /\ \A p \in ts : \/ step[p] = "verifying" /\ step'[p] = "over"
                       \/ step[p] = "writing" /\ step'[p] = "orphan"
                       \/ step[p] = "written" /\ step'[p] = "done"
      /\ \A p \in Proposal \ ts : step'[p] = step[p]
  BY Decisions DEF Cancel, Cancelled, Suspended
<1>4. step' \in [Proposal -> Step]
  <2>1. \A p \in Proposal : step'[p] \in Step
    BY <1>1, <1>3 DEF Typed, Step
  <2> QED
    BY <2>1 DEF Cancel
<1>5. Typed'
  BY <1>1, <1>2, <1>4 DEF Typed
<1>6. QueuedWait'
  BY <1>1, <1>2, <1>3 DEF Orders, QueuedWait
<1>7. NotYetOrdered' /\ OrderedOnce'
  BY <1>1, <1>2, <1>3, Decisions DEF Orders, NotYetOrdered, OrderedOnce
<1>8. AnswersStand'
  BY <1>1, <1>2, <1>3, Decisions DEF Orders, AnswersStand
<1>9. FileCurrent'
  BY <1>1, <1>2 DEF Books, FileCurrent
<1>10. NoneVerifiesDown'
  BY <1>1, <1>2, <1>3, Decisions DEF NoneVerifiesDown, Suspended
<1>11. OrdersAreBooked'
  BY <1>1, <1>2, <1>3, Decisions DEF Books, OrdersAreBooked
<1>12. RowsFollow' /\ BookedBuysCount'
  <2>1. \A u \in Trade : BeingWritten(u)' = BeingWritten(u)
    BY <1>3, Decisions DEF BeingWritten
  <2> QED
    BY <1>1, <1>2, <2>1 DEF Books, RowsFollow, BookedBuysCount
<1>13. PositionsHaveStops'
  BY <1>1, <1>2, <1>3, Decisions DEF PositionsHaveStops
<1> QED
  BY <1>5, <1>6, <1>7, <1>8, <1>9, <1>10, <1>11, <1>12, <1>13 DEF IInv, Orders, Books

\* The deadline of a batch, and the end of the process in good order.
LEMMA CancellingKeeps ==
    ASSUME IInv, Deadline \/ ShutDown
    PROVE  IInv'
<1>1. CASE Deadline
  <2>1. PipelinesIn(Suspended) \in SUBSET {t \in Trade : step[t] \in Suspended}
    BY DEF PipelinesIn
  <2>2. Cancel(PipelinesIn(Suspended)) /\ SaveState /\ loop' = "after"
    BY <1>1 DEF Deadline, SaveState, disk
  <2> QED
    BY <1>1, <2>1, <2>2, CancelKeeps DEF Deadline, disk, Loop
<1>2. CASE ShutDown
  BY <1>2, CancelKeeps DEF ShutDown, Loop
<1> QED
  BY <1>1, <1>2

\* The process dies; who was asking the exchange will not learn the answer.
LEMMA CrashKeeps ==
    ASSUME IInv, Crash
    PROVE  IInv'
<1>1. /\ UNCHANGED <<step, chat, orders, coins, booked, pos, counted, stop, file, rows, queued,
                     overdue, mirror, told, restarts, revived, unsaved, unwatched, rowLost>>
      /\ loop' = "down" /\ cut' = cut \cup {t \in Trade : step[t] = "verifying"}
  BY DEF Crash, exchange, ledger, disk, approvals
<1>2. Typed'
  BY <1>1 DEF IInv, Typed, Loop
<1>3. Orders'
  BY <1>1, OrdersKept DEF IInv
<1>4. FileCurrent' /\ NoneVerifiesDown' /\ OrdersAreBooked'
  BY <1>1 DEF IInv, Books, FileCurrent, NoneVerifiesDown, OrdersAreBooked
<1>5. RowsFollow' /\ BookedBuysCount'
  BY <1>1 DEF IInv, Books, RowsFollow, BookedBuysCount, BeingWritten
<1>6. PositionsHaveStops'
  BY <1>1 DEF IInv, PositionsHaveStops
<1> QED
  BY <1>2, <1>3, <1>4, <1>5, <1>6 DEF IInv, Books

\* The next process: the file, the rows and the mirror are all it knows.
LEMMA RestartKeeps ==
    ASSUME IInv, Restart, restarts < MaxRestarts
    PROVE  IInv'
<1>1. Typed /\ Orders /\ Books /\ loop = "down"
  BY DEF IInv, Restart
<1>2. /\ UNCHANGED <<chat, overdue, mirror, told, orders, coins, file, rows>>
      /\ loop' = "wait" /\ restarts' = restarts + 1
      /\ booked' = file /\ counted' = rows
      /\ pos' = [t \in Trade |-> 0] /\ stop' = {}
      /\ queued' = Loaded /\ unsaved' = {} /\ unwatched' = {}
      /\ cut' = cut \cup unsaved
      /\ rowLost' = rowLost \cup {t \in Trade : step[t] \in {"writing", "orphan"}}
  BY DEF Restart, WarmStart, Seeded, exchange, disk
<1>3. Loaded \subseteq Trade /\ Loaded \subseteq Proposal
  BY Decisions DEF Loaded
<1>4. \A p \in Proposal : step'[p] = IF p \in Loaded THEN "asked"
                                     ELSE IF step[p] = "new" THEN "new" ELSE "over"
  BY DEF Restart
<1>5. \A p \in Proposal : revived'[p] = IF p \in Loaded \ queued THEN revived[p] + 1
                                        ELSE revived[p]
  BY DEF Restart
<1>6. Typed'
  <2>1. step' \in [Proposal -> Step]
    BY DEF Restart, Step
  <2>2. revived' \in [Proposal -> Nat]
    BY <1>1 DEF Restart, Typed
  <2>3. restarts' \in 0..MaxRestarts
    BY <1>1, <1>2, RecoveryAssumption DEF RecoveryAssumption, Typed
  <2> QED
    BY <1>1, <1>2, <1>3, <2>1, <2>2, <2>3 DEF Typed, Loop
<1>7. QueuedWait'
  BY <1>1, <1>2, <1>4 DEF Orders, QueuedWait
<1>8. NotYetOrdered'
  <2> SUFFICES ASSUME NEW t \in Trade, step'[t] \in {"new", "asked", "scheduled"}
               PROVE  orders[t] <= revived'[t]
    BY <1>2 DEF NotYetOrdered
  <2>1. CASE t \in Loaded \ queued
    BY <1>1, <1>5, <2>1, Decisions DEF Orders, OrderedOnce, Typed
  <2>2. CASE t \in Loaded \cap queued
    BY <1>1, <1>5, <2>2, Decisions DEF Orders, QueuedWait, NotYetOrdered
  <2>3. CASE t \notin Loaded
    BY <1>1, <1>4, <1>5, <2>3, Decisions DEF Orders, NotYetOrdered
  <2> QED
    BY <2>1, <2>2, <2>3
<1>9. OrderedOnce'
  <2> SUFFICES ASSUME NEW t \in Trade
               PROVE  orders[t] <= 1 + revived'[t]
    BY <1>2 DEF OrderedOnce
  <2>1. orders[t] <= 1 + revived[t] /\ revived[t] \in Nat /\ orders[t] \in Nat
    BY <1>1, Decisions DEF Orders, OrderedOnce, Typed
  <2>2. revived'[t] = revived[t] + 1 \/ revived'[t] = revived[t]
    BY <1>5, Decisions
  <2> QED
    BY <2>1, <2>2
<1>10. AnswersStand'
  <2> SUFFICES ASSUME NEW p \in Proposal, told[p] \in {"rejected", "expired"}, revived'[p] = 0
               PROVE  p \notin Loaded /\ step'[p] = "over" /\ (p \in Trade => orders[p] = 0)
    BY <1>2 DEF AnswersStand
  <2>1. revived[p] = 0 /\ p \notin Loaded \ queued
    BY <1>1, <1>5 DEF Typed
  <2>2. p \notin queued /\ step[p] = "over" /\ (p \in Trade => orders[p] = 0)
    BY <1>1, <2>1 DEF Orders, AnswersStand
  <2> QED
    BY <1>4, <2>1, <2>2
<1>11. FileCurrent' /\ NoneVerifiesDown'
  BY <1>2 DEF FileCurrent, NoneVerifiesDown
<1>12. OrdersAreBooked'
  <2> SUFFICES ASSUME NEW t \in Trade, t \notin cut, t \notin unsaved
               PROVE  orders[t] = file[t] + 0
    BY <1>2, <1>4, Decisions DEF OrdersAreBooked
  <2>1. step[t] # "verifying"
    BY <1>1 DEF Books, NoneVerifiesDown
  <2>2. orders[t] = booked[t] + 0
    BY <1>1, <2>1 DEF Books, OrdersAreBooked
  <2>3. file[t] = booked[t]
    BY <1>1 DEF Books, FileCurrent
  <2> QED
    BY <2>2, <2>3
<1>13. RowsFollow' /\ BookedBuysCount'
  <2> SUFFICES ASSUME NEW t \in Trade, t \notin chat, t \notin rowLost'
               PROVE  /\ file[t] <= rows[t] + BeingWritten(t)'
                      /\ rows[t] >= file[t]
    BY <1>2 DEF RowsFollow, BookedBuysCount
  <2>1. t \notin rowLost /\ step[t] \notin {"writing", "orphan"}
    BY <1>2
  <2>2. file[t] <= rows[t] + 0
    BY <1>1, <2>1 DEF Books, RowsFollow, BeingWritten
  <2>3. BeingWritten(t)' = 0
    BY <1>4, Decisions DEF BeingWritten
  <2>4. file[t] \in Nat /\ rows[t] \in Nat
    BY <1>1 DEF Typed
  <2> QED
    BY <2>2, <2>3, <2>4
<1>14. PositionsHaveStops'
  BY <1>2 DEF PositionsHaveStops
<1> QED
  BY <1>6, <1>7, <1>8, <1>9, <1>10, <1>11, <1>12, <1>13, <1>14 DEF IInv, Orders, Books

-----------------------------------------------------------------------------
(* The specification *)

\* A process that has ended can start again within the bound.
RestartLeft == loop = "down" => restarts < MaxRestarts

\* Only the two ends of a process lead there, and both look at the bound.
LEMMA RestartLeftKept ==
    ASSUME RestartLeft, [Next]_vars
    PROVE  RestartLeft'
<1> USE DEF RestartLeft
<1>1. CASE UNCHANGED vars
  BY <1>1 DEF vars
<1>2. CASE \E t \in Trade : Buy(t) \/ Fill(t) \/ Verified(t) \/ WriteRow(t) \/ Finish(t)
  BY <1>2 DEF Buy, Executes, Fill, Verified, WriteRow, Finish
<1>3. CASE \E p \in Proposal : Ask(p) \/ Approve(p) \/ GiveUp(p) \/ Reject(p) \/ RunScheduled(p)
  BY <1>3 DEF Ask, Approve, GiveUp, Reject, RunScheduled, Executes
<1>4. CASE \/ HourPasses
           \/ StartBatch \/ EndBatch("after") \/ EndBatch("wait") \/ Deadline
           \/ Refresh \/ Raise \/ Save \/ Publish \/ Prune
           \/ MirrorExpires \/ ShutDown \/ Crash \/ Restart
  BY <1>4 DEF HourPasses, StartBatch, EndBatch, Deadline, Refresh, Raise, Save, Publish, Prune,
              MirrorExpires, ShutDown, Crash, Restart
<1> QED
  BY <1>1, <1>2, <1>3, <1>4 DEF Next

\* A pipeline that buys without being asked.
LEMMA BuyKeeps ==
    ASSUME IInv, NEW t \in Trade, Buy(t)
    PROVE  IInv'
  BY ExecutesKeeps DEF Buy

\* Every step keeps the invariant.
LEMMA NextInv == IInv /\ RestartLeft /\ [Next]_vars => IInv'
<1> SUFFICES ASSUME IInv, RestartLeft, [Next]_vars PROVE IInv'
  OBVIOUS
<1>1. CASE \E t \in Trade : Buy(t)
  BY <1>1, BuyKeeps
<1>2. CASE \E t \in Trade : Verified(t)
  BY <1>2, VerifiedKeeps
<1>3. CASE \E t \in Trade : WriteRow(t)
  BY <1>3, WriteRowKeeps
<1>4. CASE \E t \in Trade : Finish(t)
  BY <1>4, FinishKeeps
<1>5. CASE \E p \in Proposal : Ask(p) \/ Approve(p) \/ GiveUp(p) \/ Reject(p)
  BY <1>5, QueueKeeps
<1>6. CASE \E p \in Proposal : RunScheduled(p)
  BY <1>6, RunScheduledKeeps
<1>7. CASE \/ \E t \in Trade : Fill(t)
           \/ HourPasses \/ StartBatch \/ EndBatch("after") \/ EndBatch("wait")
           \/ Raise \/ Publish \/ MirrorExpires \/ UNCHANGED vars
  BY <1>7, QuietStepsKeep
<1>8. CASE Deadline \/ ShutDown
  BY <1>8, CancellingKeeps
<1>9. CASE Refresh
  BY <1>9, RefreshKeeps
<1>10. CASE Save
  BY <1>10, SaveKeeps
<1>11. CASE Prune
  BY <1>11, PruneKeeps
<1>12. CASE Crash
  BY <1>12, CrashKeeps
<1>13. CASE Restart
  <2>1. restarts < MaxRestarts
    BY <1>13 DEF Restart, RestartLeft
  <2> QED
    BY <1>13, <2>1, RestartKeeps
<1> QED
  BY <1>1, <1>2, <1>3, <1>4, <1>5, <1>6, <1>7, <1>8, <1>9, <1>10, <1>11, <1>12, <1>13 DEF Next

\* The inductive invariant holds in every reachable state.
LEMMA InvHolds == Spec => []IInv
<1>1. Init => IInv /\ RestartLeft
  BY InitInv DEF Init, RestartLeft
<1>2. (IInv /\ RestartLeft) /\ [Next]_vars => (IInv /\ RestartLeft)'
  BY NextInv, RestartLeftKept
<1> QED
  BY <1>1, <1>2, PTL DEF Spec

\* Every variable keeps its type, through any number of restarts.
THEOREM TypeCorrect == Spec => []TypeOK
<1>1. IInv => TypeOK
  BY TypedIsTypeOK DEF IInv
<1> QED
  BY <1>1, InvHolds, PTL

\* A decision is ordered once, and once more for each time a settled approval
\* came back from Redis (cmd_approve_trade, load_pending_approvals).
THEOREM NoSecondOrder == Spec => []OrderedOnce
<1>1. IInv => OrderedOnce
  BY DEF IInv, Orders
<1> QED
  BY <1>1, InvHolds, PTL

\* What was rejected or has expired is not executed (cmd_reject_trade,
\* prune_stale_approvals).
THEOREM RejectionHolds == Spec => []AnswersStand
<1>1. IInv => AnswersStand
  BY DEF IInv, Orders
<1> QED
  BY <1>1, InvHolds, PTL

\* The ledger misses an order only where a coroutine or the process died
\* between the order and the next save (executor.py, state.py).
THEOREM LedgerKnowsOrders == Spec => []OrdersAreBooked
<1>1. IInv => OrdersAreBooked
  BY DEF IInv, Books
<1> QED
  BY <1>1, InvHolds, PTL

\* The day's counters, seeded from the rows, cover every booked buy that has one
\* (seed_daily_counters, record_trade).
THEOREM CountersCoverBuys == Spec => []BookedBuysCount
<1>1. IInv => BookedBuysCount
  BY DEF IInv, Books
<1> QED
  BY <1>1, InvHolds, PTL

\* A position of a pipeline has its stop, or gets it when the pipeline goes on,
\* and a position found on the account has one at once (sync_live_holdings).
THEOREM StopsFollowPositions == Spec => []PositionsHaveStops
<1>1. IInv => PositionsHaveStops
  BY DEF IInv
<1> QED
  BY <1>1, InvHolds, PTL
=============================================================================
