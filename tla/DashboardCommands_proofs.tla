---------------------- MODULE DashboardCommands_proofs ----------------------
(***************************************************************************)
(* A signed command is executed once, and a paused pair is banned, for any *)
(* commands, any skew of the clocks and any number of restarts.            *)
(*                                                                         *)
(* A nonce is used at a time that the stamp of its command is ahead of by  *)
(* no more than the lead.  When pruning drops it, maximal age and lead     *)
(* have passed since, so the command itself is too old by then: whoever    *)
(* brings it again is turned away, for its nonce or for its age.           *)
(***************************************************************************)
EXTENDS DashboardCommands, SequenceTheorems, TLAPS

-----------------------------------------------------------------------------
(* The invariants *)

Signed == [action : Action, pair : Pair, ts : Nat]

\* What is on the queue, or was accepted, has been signed.
SignedFirst ==
    /\ \A i \in 1..Len(queue) : issued[queue[i]] \in Signed
    /\ \A c \in Command : usedAt[c] # None \/ executed[c] > 0 => issued[c] \in Signed
    /\ \A c \in Command : issued[c] \in Signed => copies[c] > 0
    /\ \A c \in Command : copies[c] \in 1..(Copies[c] - 1) => issued[c] \in Signed

\* The stamp of an accepted command was ahead of its use by the lead at most.
StampBeforeUse ==
    \A c \in Command : usedAt[c] # None => issued[c].ts <= usedAt[c] + Lead

\* The nonce of an executed command is remembered, was given up, or is not
\* needed any more.
NonceOrAge ==
    \A c \in Command :
        executed[c] > 0 => \/ c \in forgotten
                           \/ usedAt[c] # None
                           \/ now > issued[c].ts + MaxAge

Nonces == SignedFirst /\ StampBeforeUse /\ NonceOrAge /\ ExecutedOnce

\* The rules lag behind the file where chat or settings page made them, and a
\* pause is in the file, also in the list that is about to replace it.
Bans ==
    /\ asked \subseteq saved
    /\ saved \subseteq banned \cup apart
    /\ pausing # None => asked \subseteq excluded

IInv == TypeOK /\ Nonces /\ Bans

-----------------------------------------------------------------------------
(* Lemmas *)

\* A pair is not nothing, and neither is a time.
LEMMA NoneApart == None \notin Pair /\ None \notin Nat /\ NoCommand \notin Signed
  BY CommandsAssumption DEF CommandsAssumption, NoCommand, Signed

\* The head of the queue is a command, and the tail a queue of commands.
LEMMA TailIsQueue ==
    ASSUME NEW q \in Seq(Command), q # <<>>
    PROVE  /\ Head(q) \in Command /\ Head(q) = q[1] /\ 1 \in 1..Len(q)
           /\ Tail(q) \in Seq(Command)
           /\ Len(Tail(q)) = Len(q) - 1
           /\ \A i \in 1..Len(Tail(q)) : Tail(q)[i] = q[i + 1] /\ i + 1 \in 1..Len(q)
<1>1. Len(q) \in Nat /\ Len(q) # 0 /\ \A i \in 1..Len(q) : q[i] \in Command
  BY EmptySeq, LenProperties, ElementOfSeq
<1>2. Len(Tail(q)) = Len(q) - 1 /\ \A i \in 1..Len(Tail(q)) : Tail(q)[i] = q[i + 1]
  BY HeadTailProperties
<1>3. Head(q) \in Command /\ Head(q) = q[1] /\ Tail(q) \in Seq(Command)
  BY <1>1, HeadTailProperties
<1> QED
  BY <1>1, <1>2, <1>3

\* A longer queue has one more command.
LEMMA AppendIsQueue ==
    ASSUME NEW q \in Seq(Command), NEW c \in Command
    PROVE  /\ Append(q, c) \in Seq(Command)
           /\ \A i \in 1..Len(Append(q, c)) :
                 \/ Append(q, c)[i] = c
                 \/ i \in 1..Len(q) /\ Append(q, c)[i] = q[i]
<1>1. /\ Append(q, c) \in Seq(Command) /\ Len(Append(q, c)) = Len(q) + 1
      /\ \A i \in 1..Len(q) : Append(q, c)[i] = q[i]
      /\ Append(q, c)[Len(q) + 1] = c
  BY AppendProperties
<1>2. Len(q) \in Nat
  BY LenProperties
<1> QED
  BY <1>1, <1>2

\* A kept nonce was used when it says; a dropped one was given up, or too old.
LEMMA KeptNonces ==
    ASSUME TypeOK, NEW S \in SUBSET Command, NEW c \in Command
    PROVE  /\ Kept(S) \in [Command -> Nat \cup {None}]
           /\ Kept(S)[c] = usedAt[c] \/ Kept(S)[c] = None
           /\ usedAt[c] # None /\ Kept(S)[c] = None =>
                 c \in S \/ usedAt[c] < now - MaxAge - Lead
  BY DEF Kept, Pruned, TypeOK

\* Nonces are given up among the commands'.
LEMMA EvictedAreCommands == \A S \in Evicted(Pruned) : S \in SUBSET Command
<1>1. Remembered(Pruned) \subseteq Command
  BY DEF Remembered
<1> QED
  BY <1>1 DEF Evicted

\* At the start nothing was issued, and file and rules agree.
LEMMA InitInv == Init => IInv
<1> SUFFICES ASSUME Init PROVE IInv
  OBVIOUS
<1>1. TypeOK
  <2>1. <<>> \in Seq(Command)
    BY EmptySeq
  <2> QED
    BY <2>1, CommandsAssumption DEF CommandsAssumption, Init, TypeOK, CommandType, NoCommand
<1>2. Nonces
  <2>1. Len(queue) = 0
    BY DEF Init
  <2> QED
    BY <2>1, NoneApart
       DEF Init, Nonces, SignedFirst, StampBeforeUse, NonceOrAge, ExecutedOnce
<1>3. Bans
  BY DEF Init, Bans
<1> QED
  BY <1>1, <1>2, <1>3 DEF IInv

-----------------------------------------------------------------------------
(* The dashboard *)

\* The nonces depend on the commands, the clock and what was executed.
LEMMA NoncesKept ==
    ASSUME Nonces, UNCHANGED <<now, issued, queue, copies, usedAt, executed, forgotten>>
    PROVE  Nonces'
  BY DEF Nonces, SignedFirst, StampBeforeUse, NonceOrAge, ExecutedOnce

\* A new command has not been executed.
LEMMA IssueKeeps ==
    ASSUME IInv, NEW c \in Command, NEW action \in Action, NEW pair \in Pair, NEW skew \in Skew,
           Issue(c, action, pair, skew)
    PROVE  IInv'
<1>1. TypeOK /\ Nonces /\ Bans
  BY DEF IInv
<1>2. /\ UNCHANGED <<now, usedAt, budget, excluded, pausing, saved, banned, watchlist, executed,
                     forgotten, asked, apart>>
      /\ copies[c] = 0 /\ copies' = [copies EXCEPT ![c] = 1]
      /\ queue' = Append(queue, c)
      /\ follows' \subseteq Pair
  BY <1>1 DEF Issue, agent, history, TypeOK
<1>3. now + skew \in Nat
  BY <1>1, CommandsAssumption DEF CommandsAssumption, Issue, TypeOK
<1>4. /\ issued' \in [Command -> CommandType] /\ issued'[c] \in Signed
      /\ \A d \in Command \ {c} : issued'[d] = issued[d]
  <2>1. [action |-> action, pair |-> pair, ts |-> now + skew] \in Signed
    BY <1>3 DEF Signed
  <2>2. Signed \subseteq CommandType
    BY DEF Signed, CommandType
  <2> QED
    BY <1>1, <2>1, <2>2 DEF Issue, TypeOK
<1>5. TypeOK'
  BY <1>1, <1>2, <1>4, AppendIsQueue DEF TypeOK
<1>6. issued[c] \notin Signed
  BY <1>1, <1>2 DEF Nonces, SignedFirst
<1>7. SignedFirst'
  <2>1. \A i \in 1..Len(queue)' : issued'[queue'[i]] \in Signed
    <3> SUFFICES ASSUME NEW i \in 1..Len(queue') PROVE issued'[queue'[i]] \in Signed
      OBVIOUS
    <3>1. \/ queue'[i] = c
          \/ i \in 1..Len(queue) /\ queue'[i] = queue[i]
      <4>1. \A j \in 1..Len(Append(queue, c)) :
               \/ Append(queue, c)[j] = c
               \/ j \in 1..Len(queue) /\ Append(queue, c)[j] = queue[j]
        BY <1>1, AppendIsQueue DEF TypeOK
      <4>2. queue' = Append(queue, c)
        BY <1>2
      <4> QED
        BY <4>1, <4>2, Zenon
    <3>2. CASE queue'[i] = c
      BY <1>4, <3>2
    <3>3. CASE i \in 1..Len(queue) /\ queue'[i] = queue[i] /\ queue[i] # c
      <4>1. queue[i] \in Command /\ issued[queue[i]] \in Signed
        BY <1>1, <3>3, ElementOfSeq DEF TypeOK, Nonces, SignedFirst
      <4> QED
        BY <1>4, <3>3, <4>1
    <3> QED
      BY <3>1, <3>2, <3>3
  <2>2. \A d \in Command : usedAt'[d] # None \/ executed'[d] > 0 => issued'[d] \in Signed
    BY <1>1, <1>2, <1>4 DEF Nonces, SignedFirst
  <2>3. \A d \in Command : issued'[d] \in Signed => copies'[d] > 0
    BY <1>1, <1>2, <1>4 DEF Nonces, SignedFirst, TypeOK
  <2>4. \A d \in Command : copies'[d] \in 1..(Copies[d] - 1) => issued'[d] \in Signed
    BY <1>1, <1>2, <1>4 DEF Nonces, SignedFirst, TypeOK
  <2> QED
    BY <2>1, <2>2, <2>3, <2>4 DEF SignedFirst
<1>8. usedAt[c] = None /\ ~(executed[c] > 0)
  BY <1>1, <1>6 DEF Nonces, SignedFirst
<1>9. StampBeforeUse' /\ NonceOrAge' /\ ExecutedOnce'
  BY <1>1, <1>2, <1>4, <1>8 DEF Nonces, StampBeforeUse, NonceOrAge, ExecutedOnce
<1>10. Bans'
  BY <1>1, <1>2 DEF Bans
<1> QED
  BY <1>5, <1>7, <1>9, <1>10 DEF IInv, Nonces

\* A command that is pushed again, or never arrives.
LEMMA DeliveryKeeps ==
    ASSUME IInv, NEW c \in Command,
           Redeliver(c) \/ \E pair \in Pair : FollowUnnoticed(c, pair)
    PROVE  IInv'
<1>1. TypeOK /\ Nonces /\ Bans
  BY DEF IInv
<1>2. /\ UNCHANGED <<now, issued, usedAt, budget, excluded, pausing, saved, banned, watchlist,
                     executed, forgotten, asked, apart>>
      /\ follows' \subseteq Pair
  BY <1>1 DEF Redeliver, FollowUnnoticed, agent, history, TypeOK
<1>3. /\ copies' \in [Command -> Nat] /\ copies'[c] > 0
      /\ \A d \in Command \ {c} : copies'[d] = copies[d]
      /\ copies'[c] \in 1..(Copies[c] - 1) => issued[c] \in Signed
      /\ \/ queue' = Append(queue, c) /\ issued[c] \in Signed
         \/ queue' = queue
  <2>0. copies \in [Command -> Nat] /\ Copies[c] \in Nat \ {0}
    BY <1>1, CommandsAssumption DEF CommandsAssumption, TypeOK
  <2>1. CASE Redeliver(c)
    <3>1. /\ copies[c] \in 1..(Copies[c] - 1) /\ copies' = [copies EXCEPT ![c] = @ + 1]
          /\ queue' = Append(queue, c)
      BY <2>1 DEF Redeliver
    <3>2. issued[c] \in Signed
      BY <1>1, <3>1 DEF Nonces, SignedFirst
    <3> QED
      BY <2>0, <3>1, <3>2
  <2>2. CASE \E pair \in Pair : FollowUnnoticed(c, pair)
    <3>1. copies' = [copies EXCEPT ![c] = Copies[c]] /\ queue' = queue
      BY <2>2 DEF FollowUnnoticed
    <3> QED
      BY <2>0, <3>1
  <2> QED
    BY <2>1, <2>2
<1>4. TypeOK'
  BY <1>1, <1>2, <1>3, AppendIsQueue DEF TypeOK
<1>5. SignedFirst'
  <2>1. \A i \in 1..Len(queue)' : issued'[queue'[i]] \in Signed
    <3> SUFFICES ASSUME NEW i \in 1..Len(queue') PROVE issued[queue'[i]] \in Signed
      BY <1>2
    <3>1. \/ queue'[i] = c /\ issued[c] \in Signed
          \/ i \in 1..Len(queue) /\ queue'[i] = queue[i]
      <4>1. \A j \in 1..Len(Append(queue, c)) :
               \/ Append(queue, c)[j] = c
               \/ j \in 1..Len(queue) /\ Append(queue, c)[j] = queue[j]
        BY <1>1, AppendIsQueue DEF TypeOK
      <4> QED
        BY <1>3, <4>1, Zenon
    <3> QED
      BY <1>1, <3>1 DEF Nonces, SignedFirst
  <2>2. \A d \in Command : usedAt'[d] # None \/ executed'[d] > 0 => issued'[d] \in Signed
    BY <1>1, <1>2 DEF Nonces, SignedFirst
  <2>3. \A d \in Command : issued'[d] \in Signed => copies'[d] > 0
    BY <1>1, <1>2, <1>3 DEF Nonces, SignedFirst
  <2>4. \A d \in Command : copies'[d] \in 1..(Copies[d] - 1) => issued'[d] \in Signed
    BY <1>1, <1>2, <1>3 DEF Nonces, SignedFirst
  <2> QED
    BY <2>1, <2>2, <2>3, <2>4 DEF SignedFirst
<1>6. StampBeforeUse' /\ NonceOrAge' /\ ExecutedOnce'
  BY <1>1, <1>2 DEF Nonces, StampBeforeUse, NonceOrAge, ExecutedOnce
<1>7. Bans'
  BY <1>1, <1>2 DEF Bans
<1> QED
  BY <1>4, <1>5, <1>6, <1>7 DEF IInv, Nonces

\* Settings page, chat and sync change bans and watchlist only.
LEMMA ListsKeep ==
    ASSUME IInv,
           \/ \E list \in SUBSET Pair : EditSettings(list)
           \/ \E pair \in Pair : Blacklist(pair) \/ Unblacklist(pair)
           \/ WatchlistSync
    PROVE  IInv'
<1>1. TypeOK /\ Nonces /\ Bans
  BY DEF IInv
<1>2. UNCHANGED <<now, issued, queue, copies, usedAt, budget, excluded, pausing, follows,
                  executed, forgotten>>
  BY DEF EditSettings, Blacklist, Unblacklist, WatchlistSync, agent, history
<1>3. Nonces'
  BY <1>1, <1>2, NoncesKept
<1>4. saved' \subseteq Pair /\ banned' \subseteq Pair /\ watchlist' \subseteq Pair
      /\ asked' \subseteq Pair /\ apart' \subseteq Pair
  BY <1>1 DEF EditSettings, Blacklist, Unblacklist, WatchlistSync, agent, history, TypeOK
<1>5. TypeOK'
  BY <1>1, <1>2, <1>4 DEF TypeOK
<1>6. Bans'
  <2>1. ASSUME NEW list \in SUBSET Pair, EditSettings(list) PROVE Bans'
    BY <1>1, <2>1 DEF EditSettings, agent, Bans
  <2>2. ASSUME NEW pair \in Pair, Blacklist(pair) PROVE Bans'
    BY <1>1, <2>2 DEF Blacklist, Bans
  <2>3. ASSUME NEW pair \in Pair, Unblacklist(pair) PROVE Bans'
    BY <1>1, <2>3 DEF Unblacklist, Bans
  <2>4. CASE WatchlistSync
    BY <1>1, <2>4 DEF WatchlistSync, history, Bans
  <2> QED
    BY <2>1, <2>2, <2>3, <2>4
<1> QED
  BY <1>3, <1>5, <1>6 DEF IInv

-----------------------------------------------------------------------------
(* The agent *)

\* What is left on the queue has been signed.
LEMMA ShorterQueue ==
    ASSUME TypeOK, SignedFirst, queue # <<>>, queue' = Tail(queue)
    PROVE  /\ queue' \in Seq(Command)
           /\ \A i \in 1..Len(queue') : issued[queue'[i]] \in Signed
           /\ Head(queue) \in Command /\ issued[Head(queue)] \in Signed
  BY TailIsQueue DEF TypeOK, SignedFirst

\* The clock only makes commands older.
LEMMA TickKeeps ==
    ASSUME IInv, Tick
    PROVE  IInv'
<1>1. TypeOK /\ Nonces /\ Bans
  BY DEF IInv
<1>2. /\ UNCHANGED <<issued, queue, copies, usedAt, budget, excluded, pausing, saved, banned,
                     watchlist, follows, executed, forgotten, asked, apart>>
      /\ now' = now + 1 /\ now < MaxNow
  BY DEF Tick, agent, history
<1>3. TypeOK'
  BY <1>1, <1>2, CommandsAssumption DEF CommandsAssumption, TypeOK
<1>4. SignedFirst' /\ StampBeforeUse' /\ ExecutedOnce'
  BY <1>1, <1>2 DEF Nonces, SignedFirst, StampBeforeUse, ExecutedOnce
<1>5. NonceOrAge'
  <2> SUFFICES ASSUME NEW c \in Command, executed[c] > 0, c \notin forgotten, usedAt[c] = None
               PROVE  now + 1 > issued[c].ts + MaxAge
    BY <1>2 DEF NonceOrAge
  <2>1. now > issued[c].ts + MaxAge /\ issued[c].ts \in Nat
    BY <1>1 DEF Nonces, NonceOrAge, SignedFirst, Signed
  <2> QED
    BY <1>1, <2>1, CommandsAssumption DEF CommandsAssumption, TypeOK
<1>6. Bans'
  BY <1>1, <1>2 DEF Bans
<1> QED
  BY <1>3, <1>4, <1>5, <1>6 DEF IInv, Nonces

\* A restart gives every nonce up, and takes the bans from the file.
LEMMA RestartKeeps ==
    ASSUME IInv, Restart
    PROVE  IInv'
<1>1. TypeOK /\ Nonces /\ Bans
  BY DEF IInv
<1>2. /\ UNCHANGED <<now, issued, queue, copies, saved, follows, executed>>
      /\ usedAt' = [c \in Command |-> None]
      /\ forgotten' = forgotten \cup Remembered(usedAt)
      /\ budget' = 0 /\ excluded' = {} /\ pausing' = None
      /\ banned' = saved /\ apart' = {} /\ asked' = asked \cap saved
      /\ watchlist' \subseteq Pair
  BY <1>1 DEF Restart, TypeOK
<1>3. TypeOK'
  BY <1>1, <1>2, CommandsAssumption DEF CommandsAssumption, TypeOK, Remembered
<1>4. SignedFirst' /\ StampBeforeUse' /\ ExecutedOnce'
  BY <1>1, <1>2 DEF Nonces, SignedFirst, StampBeforeUse, ExecutedOnce
<1>5. NonceOrAge'
  BY <1>1, <1>2 DEF Nonces, NonceOrAge, Remembered
<1>6. Bans'
  BY <1>1, <1>2 DEF Bans
<1> QED
  BY <1>3, <1>4, <1>5, <1>6 DEF IInv, Nonces

\* A call begins, ends, or finishes a pause.
LEMMA CallKeeps ==
    ASSUME IInv, StartCall \/ EndCall \/ PauseWrites
    PROVE  IInv'
<1>1. TypeOK /\ Nonces /\ Bans
  BY DEF IInv
<1>2. UNCHANGED <<now, issued, copies, usedAt, watchlist, follows, executed, forgotten>>
  BY DEF StartCall, EndCall, PauseWrites, history
<1>3. /\ queue' \in Seq(Command)
      /\ \A i \in 1..Len(queue') : issued[queue'[i]] \in Signed
  <2>1. \/ queue' = queue
        \/ queue # <<>> /\ queue' = Tail(queue)
    <3>1. StartCall \/ PauseWrites => queue' = queue
      BY DEF StartCall, PauseWrites
    <3>2. EndCall => queue' \in {queue} \cup (IF queue = <<>> THEN {} ELSE {Tail(queue)})
      BY DEF EndCall
    <3>3. ASSUME queue' \in {queue} \cup (IF queue = <<>> THEN {} ELSE {Tail(queue)})
          PROVE  \/ queue' = queue
                 \/ queue # <<>> /\ queue' = Tail(queue)
      BY <3>3, Zenon
    <3> QED
      BY <3>1, <3>2, <3>3, Zenon
  <2> QED
    BY <1>1, <2>1, ShorterQueue DEF TypeOK, Nonces, SignedFirst
<1>4. /\ budget' \in 0..PerCall /\ excluded' \subseteq Pair /\ pausing' \in Pair \cup {None}
      /\ saved' \subseteq Pair /\ banned' \subseteq Pair
      /\ asked' \subseteq Pair /\ apart' \subseteq Pair
  BY <1>1, CommandsAssumption
     DEF CommandsAssumption, StartCall, EndCall, PauseWrites, history, TypeOK
<1>5. TypeOK'
  BY <1>1, <1>2, <1>3, <1>4 DEF TypeOK
<1>6. Nonces'
  BY <1>1, <1>2, <1>3 DEF Nonces, SignedFirst, StampBeforeUse, NonceOrAge, ExecutedOnce
<1>7. Bans'
  BY <1>1 DEF StartCall, EndCall, PauseWrites, history, Bans
<1> QED
  BY <1>5, <1>6, <1>7 DEF IInv

\* A stale command is dropped.
LEMMA StaleKeeps ==
    ASSUME IInv, NEW c \in Command, RejectStale(c)
    PROVE  IInv'
<1>1. TypeOK /\ Nonces /\ Bans
  BY DEF IInv
<1>2. /\ UNCHANGED <<now, issued, copies, usedAt, excluded, pausing, saved, banned,
                     watchlist, follows, executed, forgotten, asked, apart>>
      /\ queue # <<>> /\ queue' = Tail(queue) /\ budget' = budget - 1 /\ budget > 0
  BY DEF RejectStale, Takes, history
<1>3. /\ queue' \in Seq(Command)
      /\ \A i \in 1..Len(queue') : issued[queue'[i]] \in Signed
  BY <1>1, <1>2, ShorterQueue DEF Nonces
<1>4. TypeOK'
  BY <1>1, <1>2, <1>3, CommandsAssumption DEF CommandsAssumption, TypeOK
<1>5. Nonces'
  BY <1>1, <1>2, <1>3 DEF Nonces, SignedFirst, StampBeforeUse, NonceOrAge, ExecutedOnce
<1>6. Bans'
  BY <1>1, <1>2 DEF Bans
<1> QED
  BY <1>4, <1>5, <1>6 DEF IInv

\* Given up or pruned, a nonce that is gone does not let its command in again.
LEMMA KeptCover ==
    ASSUME IInv, NEW S \in Evicted(Pruned), NEW c \in Command
    PROVE  /\ Kept(S) \in [Command -> Nat \cup {None}]
           /\ Kept(S)[c] # None => issued[c] \in Signed /\ issued[c].ts <= Kept(S)[c] + Lead
           /\ executed[c] > 0 => \/ c \in forgotten \cup S
                                 \/ Kept(S)[c] # None
                                 \/ now > issued[c].ts + MaxAge
<1>1. TypeOK /\ SignedFirst /\ StampBeforeUse /\ NonceOrAge /\ S \in SUBSET Command
  BY EvictedAreCommands DEF IInv, Nonces
<1>2. /\ Kept(S) \in [Command -> Nat \cup {None}]
      /\ Kept(S)[c] = usedAt[c] \/ Kept(S)[c] = None
      /\ usedAt[c] # None /\ Kept(S)[c] = None =>
            c \in S \/ usedAt[c] < now - MaxAge - Lead
  BY <1>1, KeptNonces
<1>3. Kept(S)[c] # None => issued[c] \in Signed /\ issued[c].ts <= Kept(S)[c] + Lead
  BY <1>1, <1>2 DEF SignedFirst, StampBeforeUse
<1>4. ASSUME executed[c] > 0, c \notin forgotten \cup S, Kept(S)[c] = None
      PROVE  now > issued[c].ts + MaxAge
  <2>1. CASE usedAt[c] = None
    BY <1>1, <1>4, <2>1 DEF NonceOrAge
  <2>2. CASE usedAt[c] # None
    <3>1. usedAt[c] < now - MaxAge - Lead
      BY <1>2, <1>4, <2>2
    <3>2. issued[c].ts <= usedAt[c] + Lead /\ issued[c].ts \in Nat /\ usedAt[c] \in Nat
      BY <1>1, <2>2 DEF StampBeforeUse, SignedFirst, Signed, TypeOK
    <3>3. now \in Int /\ MaxAge \in Int /\ Lead \in Int
      BY <1>1, CommandsAssumption DEF CommandsAssumption, TypeOK
    <3> QED
      BY <3>1, <3>2, <3>3
  <2> QED
    BY <2>1, <2>2
<1> QED
  BY <1>2, <1>3, <1>4

\* A replay is turned away; the nonces are pruned all the same.
LEMMA ReplayKeeps ==
    ASSUME IInv, NEW c \in Command, RejectReplay(c)
    PROVE  IInv'
<1>1. TypeOK /\ Nonces /\ Bans
  BY DEF IInv
<1>2. PICK S \in Evicted(Pruned) : usedAt' = Kept(S) /\ forgotten' = forgotten \cup S
  BY DEF RejectReplay
<1>3. /\ UNCHANGED <<now, issued, copies, excluded, pausing, saved, banned,
                     watchlist, follows, executed, asked, apart>>
      /\ queue # <<>> /\ queue' = Tail(queue) /\ budget' = budget - 1 /\ budget > 0
  BY DEF RejectReplay, Takes
<1>4. /\ queue' \in Seq(Command)
      /\ \A i \in 1..Len(queue') : issued[queue'[i]] \in Signed
  BY <1>1, <1>3, ShorterQueue DEF Nonces
<1>5. /\ usedAt' \in [Command -> Nat \cup {None}] /\ S \in SUBSET Command
      /\ \A d \in Command :
            /\ usedAt'[d] # None => issued[d] \in Signed /\ issued[d].ts <= usedAt'[d] + Lead
            /\ executed[d] > 0 => \/ d \in forgotten'
                                  \/ usedAt'[d] # None
                                  \/ now > issued[d].ts + MaxAge
  <2>1. S \in SUBSET Command
    BY EvictedAreCommands
  <2>2. usedAt' \in [Command -> Nat \cup {None}]
    BY <1>1, <1>2, <2>1, KeptNonces DEF Kept
  <2> QED
    BY <1>2, <2>1, <2>2, KeptCover
<1>6. TypeOK'
  BY <1>1, <1>2, <1>3, <1>4, <1>5, CommandsAssumption DEF CommandsAssumption, TypeOK
<1>7. Nonces'
  BY <1>1, <1>2, <1>3, <1>4, <1>5
     DEF Nonces, SignedFirst, StampBeforeUse, NonceOrAge, ExecutedOnce
<1>8. Bans'
  BY <1>1, <1>3 DEF Bans
<1> QED
  BY <1>6, <1>7, <1>8 DEF IInv

\* What is accepted was not executed, or its nonce was given up.
LEMMA AcceptsKeeps ==
    ASSUME IInv, NEW c \in Command, Accepts(c), UNCHANGED <<now, issued, copies>>
    PROVE  /\ Nonces'
           /\ queue' \in Seq(Command) /\ budget' \in 0..PerCall
           /\ usedAt' \in [Command -> Nat \cup {None}] /\ forgotten' \subseteq Command
           /\ executed' \in [Command -> Nat]
           /\ issued[c] \in Signed /\ pausing = None
<1>1. TypeOK /\ Nonces /\ Bans
  BY DEF IInv
<1>2. PICK S \in Evicted(Pruned) : /\ Kept(S)[c] = None
                                   /\ usedAt' = [Kept(S) EXCEPT ![c] = now]
                                   /\ forgotten' = forgotten \cup S
  BY DEF Accepts
<1>3. /\ Fresh(c) /\ executed' = [executed EXCEPT ![c] = @ + 1]
      /\ pausing = None
      /\ queue # <<>> /\ c = Head(queue) /\ queue' = Tail(queue)
      /\ budget' = budget - 1 /\ budget > 0
  BY DEF Accepts, Takes
<1>4. /\ queue' \in Seq(Command)
      /\ \A i \in 1..Len(queue') : issued[queue'[i]] \in Signed
      /\ issued[c] \in Signed
  BY <1>1, <1>3, ShorterQueue DEF Nonces
<1>5. S \in SUBSET Command
  BY EvictedAreCommands
<1>6. Kept(S) \in [Command -> Nat \cup {None}]
  BY <1>1, <1>5, KeptNonces
<1>7. now \in Nat /\ now # None /\ MaxAge \in Nat /\ Lead \in Nat
  BY <1>1, CommandsAssumption DEF CommandsAssumption, TypeOK
<1>8. /\ usedAt' \in [Command -> Nat \cup {None}] /\ usedAt'[c] = now
      /\ \A d \in Command \ {c} : usedAt'[d] = Kept(S)[d]
      /\ executed' \in [Command -> Nat] /\ executed'[c] = executed[c] + 1
      /\ \A d \in Command \ {c} : executed'[d] = executed[d]
  BY <1>1, <1>2, <1>3, <1>6, <1>7 DEF TypeOK
<1>9. issued[c].ts \in Nat /\ issued[c].ts <= now + Lead /\ ~(now > issued[c].ts + MaxAge)
  BY <1>3, <1>4, <1>7 DEF Fresh, Age, Signed
<1>10. SignedFirst'
  <2>1. \A d \in Command : usedAt'[d] # None \/ executed'[d] > 0 => issued[d] \in Signed
    BY <1>1, <1>4, <1>8, KeptCover DEF Nonces, SignedFirst
  <2> QED
    BY <1>1, <1>4, <2>1 DEF Nonces, SignedFirst
<1>11. StampBeforeUse'
  BY <1>7, <1>8, <1>9, KeptCover DEF StampBeforeUse
<1>12. NonceOrAge'
  BY <1>2, <1>7, <1>8, KeptCover DEF NonceOrAge
<1>13. ExecutedOnce'
  <2>1. executed[c] > 0 => c \in forgotten'
    BY <1>2, <1>9, KeptCover
  <2>2. executed[c] \in Nat /\ (executed'[c] > 1 => executed[c] > 0)
    BY <1>1, <1>8 DEF TypeOK
  <2>3. \A d \in Command \ {c} : executed'[d] > 1 => d \in forgotten'
    BY <1>1, <1>2, <1>8 DEF Nonces, ExecutedOnce
  <2> QED
    BY <2>1, <2>2, <2>3 DEF ExecutedOnce
<1>14. budget' \in 0..PerCall /\ forgotten' \subseteq Command
  BY <1>1, <1>2, <1>3, <1>5, CommandsAssumption DEF CommandsAssumption, TypeOK
<1> QED
  BY <1>3, <1>4, <1>8, <1>10, <1>11, <1>12, <1>13, <1>14 DEF Nonces

\* The four ways to take effect
LEMMA AcceptedKeep ==
    ASSUME IInv, NEW c \in Command,
           AcceptOther(c) \/ AcceptWatchlist(c) \/ PauseAgain(c) \/ PauseLoads(c)
    PROVE  IInv'
<1>1. TypeOK /\ Bans
  BY DEF IInv
<1>2. Accepts(c) /\ UNCHANGED <<now, issued, copies, saved, banned, follows, apart>>
  BY DEF AcceptOther, AcceptWatchlist, PauseAgain, PauseLoads
<1>3. /\ Nonces'
      /\ queue' \in Seq(Command) /\ budget' \in 0..PerCall
      /\ usedAt' \in [Command -> Nat \cup {None}] /\ forgotten' \subseteq Command
      /\ executed' \in [Command -> Nat]
      /\ issued[c].pair \in Pair /\ pausing = None
  BY <1>2, AcceptsKeeps DEF Signed
<1>4. /\ excluded' \subseteq Pair /\ pausing' \in Pair \cup {None}
      /\ watchlist' \subseteq Pair /\ asked' \subseteq Pair
  BY <1>1, <1>3 DEF AcceptOther, AcceptWatchlist, PauseAgain, PauseLoads, TypeOK
<1>5. TypeOK'
  BY <1>1, <1>2, <1>3, <1>4 DEF TypeOK
<1>6. Bans'
  BY <1>1, <1>2, <1>3 DEF AcceptOther, AcceptWatchlist, PauseAgain, PauseLoads, Bans
<1> QED
  BY <1>3, <1>5, <1>6 DEF IInv

-----------------------------------------------------------------------------
(* The specification *)

\* Every step keeps the invariant.
LEMMA NextInv == IInv /\ [Next]_vars => IInv'
<1> SUFFICES ASSUME IInv, [Next]_vars PROVE IInv'
  OBVIOUS
<1>1. CASE ProcessCommands
  BY <1>1, CallKeeps, StaleKeeps, ReplayKeeps, AcceptedKeep DEF ProcessCommands
<1>2. CASE WatchlistSync
  BY <1>2, ListsKeep
<1>3. CASE \E c \in Command, action \in Action, pair \in Pair, skew \in Skew :
              Issue(c, action, pair, skew)
  BY <1>3, IssueKeeps
<1>4. CASE \E c \in Command : Redeliver(c) \/ \E pair \in Pair : FollowUnnoticed(c, pair)
  BY <1>4, DeliveryKeeps
<1>5. CASE \E pair \in Pair : Blacklist(pair) \/ Unblacklist(pair)
  BY <1>5, ListsKeep
<1>6. CASE \E list \in SUBSET Pair : EditSettings(list)
  BY <1>6, ListsKeep
<1>7. CASE Restart
  BY <1>7, RestartKeeps
<1>8. CASE Tick
  BY <1>8, TickKeeps
<1>9. CASE UNCHANGED vars
  BY <1>9 DEF vars, agent, history, IInv, TypeOK, Nonces, SignedFirst, StampBeforeUse, NonceOrAge,
              ExecutedOnce, Bans
<1> QED
  BY <1>1, <1>2, <1>3, <1>4, <1>5, <1>6, <1>7, <1>8, <1>9 DEF Next

\* The inductive invariant holds in every reachable state.
LEMMA InvHolds == Spec => []IInv
  BY InitInv, NextInv, PTL DEF Spec

\* Commands, queue, nonces and lists stay well typed.
THEOREM TypeCorrect == Spec => []TypeOK
<1>1. IInv => TypeOK
  BY DEF IInv
<1> QED
  BY <1>1, InvHolds, PTL

\* A command is executed twice only when its nonce was given up by a restart or
\* for room: no delivery, no skew of the clocks and no pruning lets it in again
\* (_validate_command).
THEOREM NoReplay == Spec => []ExecutedOnce
<1>1. IInv => ExecutedOnce
  BY DEF IInv, Nonces
<1> QED
  BY <1>1, InvHolds, PTL

\* A pair the dashboard paused is banned in the rules, but for bans that chat or
\* settings page left in the file only (_handle_pause_pair).
THEOREM PauseBans == Spec => []PausedPairsAreBanned
<1>1. IInv => PausedPairsAreBanned
  BY DEF IInv, Bans, PausedPairsAreBanned
<1> QED
  BY <1>1, InvHolds, PTL
=============================================================================
