-------------------------- MODULE DashboardCommands --------------------------
(***************************************************************************)
(* The way from the dashboard to the agent: signed commands on a Redis     *)
(* list (dashboard/routes/commands.py, watchlist.py), taken off it by the  *)
(* trading loop in batches (core/managers/dashboard_commands.py) and held  *)
(* against their age and the nonces already used.  What the commands do to *)
(* pairs and watchlist is modelled here; liquidate and tighten_stop, whose *)
(* effect is ExitEngine's, and the two circuit-breaker commands, whose     *)
(* effect is TradingLoop's, are the action "other".                        *)
(*                                                                         *)
(* The clock is the agent's; the dashboard's differs by a skew.  A command *)
(* is well formed and signed.                                              *)
(***************************************************************************)
EXTENDS Integers, Sequences, FiniteSets

CONSTANTS
    Command,    \* bound: the commands issued, each with a nonce of its own
    May,        \* bound: the actions each of them may be
    Pair,
    None,       \* no time, no pair
    Skew,       \* bound: how far the dashboard's clock is off
    MaxNow,     \* bound: the last moment looked at
    MaxAge,     \* _dashboard_command_max_age_seconds
    Lead,       \* the 30 s a command may be ahead of the agent's clock
    PerCall,    \* the commands one call takes off the queue
    NonceCap,   \* nonces kept, 10000 in the code
    NonceDrop,  \* nonces dropped when there are more, 5000 in the code
    Copies      \* bound: how often each command reaches the queue

Action == {"pause", "add_watchlist_pair", "remove_watchlist_pair", "other"}

ASSUME CommandsAssumption ==
    /\ None \notin Pair /\ None \notin Nat
    /\ Skew \subseteq Int
    /\ MaxNow \in Nat /\ MaxAge \in Nat /\ Lead \in Nat
    /\ PerCall \in Nat \ {0} /\ Copies \in [Command -> Nat \ {0}]
    /\ NonceCap \in Nat /\ NonceDrop \in Nat
    /\ May \in [Command -> SUBSET Action]

NoCommand == [action |-> None, pair |-> None, ts |-> None]

VARIABLES
    now,
    issued,     \* the command as it was signed
    queue,      \* {profile}:dashboard:commands_queue
    copies,     \* how often each command was pushed
    usedAt,     \* _used_nonces
    budget,     \* pops left in the process_commands under way
    excluded,   \* the list _handle_pause_pair has loaded and not written yet
    pausing,    \* the pair it is about to exclude
    saved,      \* never_trade_pairs in settings.yaml
    banned,     \* rules.never_trade_pairs
    watchlist,  \* orch.watchlist_pairs
    follows,    \* the owner's followed pairs in the statistics database
    executed,   \* for the properties: how often each command took effect
    forgotten,  \* for the properties: commands whose nonce was given up early
    asked,      \* for the properties: pairs the dashboard paused
    apart       \* for the properties: pairs chat or settings page banned in the file only

agent == <<usedAt, budget, excluded, pausing, banned, watchlist>>
history == <<executed, forgotten, asked, apart>>
vars == <<now, issued, queue, copies, agent, saved, follows, history>>

Init ==
    /\ now = 0
    /\ issued = [c \in Command |-> NoCommand]
    /\ queue = <<>>
    /\ copies = [c \in Command |-> 0]
    /\ usedAt = [c \in Command |-> None]
    /\ budget = 0
    /\ excluded = {} /\ pausing = None
    /\ saved \in SUBSET Pair /\ banned = saved
    /\ follows \in SUBSET Pair /\ watchlist = follows
    /\ executed = [c \in Command |-> 0]
    /\ forgotten = {} /\ asked = {} /\ apart = {}

-----------------------------------------------------------------------------
(* The dashboard *)

\* The routes sign a command and push it; follow and unfollow write the
\* database first.
Issue(c, action, pair, skew) ==
    /\ copies[c] = 0
    /\ action \in May[c]
    /\ now + skew >= 0
    /\ issued' = [issued EXCEPT ![c] = [action |-> action, pair |-> pair, ts |-> now + skew]]
    /\ copies' = [copies EXCEPT ![c] = 1]
    /\ queue' = Append(queue, c)
    /\ follows' = CASE action = "add_watchlist_pair" -> follows \cup {pair}
                    [] action = "remove_watchlist_pair" -> follows \ {pair}
                    [] OTHER -> follows
    /\ action = "remove_watchlist_pair" => pair \in follows
    /\ UNCHANGED <<now, agent, saved, history>>

\* A follow whose command never reaches Redis: _notify_orchestrator only logs.
FollowUnnoticed(c, pair) ==
    /\ copies[c] = 0
    /\ copies' = [copies EXCEPT ![c] = Copies[c]]
    /\ follows' = IF pair \in follows THEN follows \ {pair} ELSE follows \cup {pair}
    /\ UNCHANGED <<now, issued, queue, agent, saved, history>>

\* A push that is repeated because its answer was lost
Redeliver(c) ==
    /\ copies[c] \in 1..(Copies[c] - 1)
    /\ copies' = [copies EXCEPT ![c] = @ + 1]
    /\ queue' = Append(queue, c)
    /\ UNCHANGED <<now, issued, agent, saved, follows, history>>

\* The settings page edits the list in the file, in another process.
EditSettings(list) ==
    /\ saved' = list
    /\ asked' = asked \cap list
    /\ apart' = (apart \cup (list \ banned)) \cap list
    /\ UNCHANGED <<now, issued, queue, copies, agent, follows, executed, forgotten>>

-----------------------------------------------------------------------------
(* _validate_command *)

Age(c) == now - issued[c].ts

Fresh(c) == Age(c) >= -Lead /\ Age(c) <= MaxAge

Remembered(times) == {c \in Command : times[c] # None}

\* Variant: nonces are kept for the window only, not for the lead as well.
PrunedAtMaxAge == [c \in Command |->
    IF usedAt[c] # None /\ usedAt[c] < now - MaxAge THEN None ELSE usedAt[c]]

\* Nonces no fresh command can carry any more are dropped.
Pruned == [c \in Command |->
    IF usedAt[c] # None /\ usedAt[c] < now - MaxAge - Lead THEN None ELSE usedAt[c]]

\* The oldest nonces given up because there are too many
Evicted(times) ==
    IF Cardinality(Remembered(times)) <= NonceCap THEN {{}}
    ELSE {S \in SUBSET Remembered(times) :
            /\ Cardinality(S) <= NonceDrop
            /\ Cardinality(S) = NonceDrop \/ S = Remembered(times)
            /\ \A c \in S, d \in Remembered(times) \ S : times[c] <= times[d]}

\* The nonces before the command's own is looked up, after giving up S
Kept(S) == [c \in Command |-> IF c \in S THEN None ELSE Pruned[c]]

-----------------------------------------------------------------------------
(* process_commands *)

\* Called by the loop at the top and at the end of a cycle
StartCall ==
    /\ budget = 0
    /\ budget' = PerCall
    /\ UNCHANGED <<now, issued, queue, copies, usedAt, excluded, pausing, saved, banned,
                   watchlist, follows, history>>

\* Nothing is left on the queue, or Redis fails and the rest has to wait; a
\* command may be gone with the answer to lpop.
EndCall ==
    /\ budget > 0 /\ pausing = None
    /\ budget' = 0
    /\ queue' \in {queue} \cup (IF queue = <<>> THEN {} ELSE {Tail(queue)})
    /\ UNCHANGED <<now, issued, copies, usedAt, excluded, pausing, saved, banned,
                   watchlist, follows, history>>

Takes(c) ==
    /\ budget > 0 /\ pausing = None
    /\ queue # <<>> /\ c = Head(queue)
    /\ queue' = Tail(queue)
    /\ budget' = budget - 1

\* Too old or too new: dropped, before any nonce is looked at
RejectStale(c) ==
    /\ Takes(c)
    /\ ~Fresh(c)
    /\ UNCHANGED <<now, issued, copies, usedAt, excluded, pausing, saved, banned,
                   watchlist, follows, history>>

RejectReplay(c) ==
    /\ Takes(c)
    /\ Fresh(c)
    /\ \E S \in Evicted(Pruned) :
          /\ Kept(S)[c] # None
          /\ usedAt' = Kept(S)
          /\ forgotten' = forgotten \cup S
    /\ UNCHANGED <<now, issued, copies, excluded, pausing, saved, banned,
                   watchlist, follows, executed, asked, apart>>

Accepts(c) ==
    /\ Takes(c)
    /\ Fresh(c)
    /\ \E S \in Evicted(Pruned) :
          /\ Kept(S)[c] = None
          /\ usedAt' = [Kept(S) EXCEPT ![c] = now]
          /\ forgotten' = forgotten \cup S
    /\ executed' = [executed EXCEPT ![c] = @ + 1]

\* liquidate, tighten_stop and the circuit-breaker commands
AcceptOther(c) ==
    /\ Accepts(c)
    /\ issued[c].action = "other"
    /\ UNCHANGED <<now, issued, copies, excluded, pausing, saved, banned,
                   watchlist, follows, asked, apart>>

\* _handle_add_watchlist_pair and _handle_remove_watchlist_pair
AcceptWatchlist(c) ==
    /\ Accepts(c)
    /\ \/ /\ issued[c].action = "add_watchlist_pair"
          /\ watchlist' = watchlist \cup {issued[c].pair}
       \/ /\ issued[c].action = "remove_watchlist_pair"
          /\ watchlist' = watchlist \ {issued[c].pair}
    /\ UNCHANGED <<now, issued, copies, excluded, pausing, saved, banned,
                   follows, asked, apart>>

\* _handle_pause_pair of a pair the file excludes already: nothing happens,
\* whatever the rules in memory say.
PauseAgain(c) ==
    /\ Accepts(c)
    /\ issued[c].action = "pause"
    /\ issued[c].pair \in saved
    /\ asked' = asked \cup {issued[c].pair}
    /\ UNCHANGED <<now, issued, copies, excluded, pausing, saved, banned,
                   watchlist, follows, apart>>

\* _handle_pause_pair, first half: load_settings
PauseLoads(c) ==
    /\ Accepts(c)
    /\ issued[c].action = "pause"
    /\ issued[c].pair \notin saved
    /\ pausing' = issued[c].pair
    /\ excluded' = saved
    /\ UNCHANGED <<now, issued, copies, saved, banned, watchlist, follows,
                   asked, apart>>

\* Variant: the file is written, the rules in memory are left as they are.
PauseWritesFileOnly ==
    /\ pausing # None
    /\ saved' = excluded \cup {pausing}
    /\ asked' = asked \cup {pausing}
    /\ apart' = apart \cap saved'
    /\ pausing' = None /\ excluded' = {}
    /\ UNCHANGED <<now, issued, queue, copies, usedAt, budget, banned, watchlist, follows,
                   executed, forgotten>>

\* Second half: the loaded list and the pair replace the file's and the
\* rules' list, whatever was added to either in the meantime.  The pair also
\* leaves orch.pairs, which saves its analysis: it is the rules' list that
\* keeps it from being bought.
PauseWrites ==
    /\ pausing # None
    /\ saved' = excluded \cup {pausing}
    /\ banned' = excluded \cup {pausing}
    /\ asked' = asked \cup {pausing}
    /\ apart' = apart \ (excluded \cup {pausing})
    /\ pausing' = None /\ excluded' = {}
    /\ UNCHANGED <<now, issued, queue, copies, usedAt, budget, watchlist, follows,
                   executed, forgotten>>

-----------------------------------------------------------------------------
(* The chat, the loop and the container *)

\* add_never_trade_pair
Blacklist(pair) ==
    /\ banned' = banned \cup {pair}
    /\ apart' = apart \ {pair}
    /\ UNCHANGED <<now, issued, queue, copies, usedAt, budget, excluded, pausing, saved,
                   watchlist, follows, executed, forgotten, asked>>

\* remove_never_trade_pair: the file keeps the ban
Unblacklist(pair) ==
    /\ banned' = banned \ {pair}
    /\ apart' = apart \cup ({pair} \cap saved)
    /\ asked' = asked \ {pair}
    /\ UNCHANGED <<now, issued, queue, copies, usedAt, budget, excluded, pausing, saved,
                   watchlist, follows, executed, forgotten>>

\* Variant: the sync only adds.
WatchlistSyncAdds ==
    /\ budget = 0
    /\ watchlist' = watchlist \cup follows
    /\ UNCHANGED <<now, issued, queue, copies, usedAt, budget, excluded, pausing, saved,
                   banned, follows, history>>

\* Every few cycles the watchlist is taken from the database.
WatchlistSync ==
    /\ budget = 0
    /\ watchlist' = follows
    /\ UNCHANGED <<now, issued, queue, copies, usedAt, budget, excluded, pausing, saved,
                   banned, follows, history>>

\* The agent starts anew: nonces and bans made by chat are gone, the
\* watchlist is what the configuration says with the owner's follows.
Restart ==
    /\ usedAt' = [c \in Command |-> None]
    /\ forgotten' = forgotten \cup Remembered(usedAt)
    /\ budget' = 0 /\ excluded' = {} /\ pausing' = None
    /\ banned' = saved
    /\ apart' = {}
    /\ asked' = asked \cap saved
    /\ \E configured \in SUBSET Pair : watchlist' = configured \cup follows
    /\ UNCHANGED <<now, issued, queue, copies, saved, follows, executed>>

Tick ==
    /\ now < MaxNow
    /\ now' = now + 1
    /\ UNCHANGED <<issued, queue, copies, agent, saved, follows, history>>

ProcessCommands ==
    \/ StartCall
    \/ EndCall
    \/ PauseWrites
    \/ \E c \in Command :
          \/ RejectStale(c)
          \/ RejectReplay(c)
          \/ AcceptOther(c)
          \/ AcceptWatchlist(c)
          \/ PauseAgain(c)
          \/ PauseLoads(c)

Next ==
    \/ ProcessCommands
    \/ WatchlistSync
    \/ \E c \in Command, action \in Action, pair \in Pair, skew \in Skew :
          Issue(c, action, pair, skew)
    \/ \E c \in Command : \/ Redeliver(c)
                           \/ \E pair \in Pair : FollowUnnoticed(c, pair)
    \/ \E pair \in Pair : \/ Blacklist(pair)
                          \/ Unblacklist(pair)
    \/ \E list \in SUBSET Pair : EditSettings(list)
    \/ Restart
    \/ Tick

Spec == Init /\ [][Next]_vars

\* The loop turns: calls run to their end, and the database is asked again.
FairSpec == Spec /\ WF_vars(ProcessCommands) /\ SF_vars(WatchlistSync)

-----------------------------------------------------------------------------
(* Properties *)

CommandType ==
    [action : Action, pair : Pair, ts : Nat] \cup {NoCommand}

TypeOK ==
    /\ now \in 0..MaxNow
    /\ issued \in [Command -> CommandType]
    /\ queue \in Seq(Command)
    /\ copies \in [Command -> Nat]
    /\ usedAt \in [Command -> Nat \cup {None}]
    /\ budget \in 0..PerCall
    /\ excluded \subseteq Pair /\ pausing \in Pair \cup {None}
    /\ saved \subseteq Pair /\ banned \subseteq Pair
    /\ watchlist \subseteq Pair /\ follows \subseteq Pair
    /\ executed \in [Command -> Nat]
    /\ forgotten \subseteq Command /\ asked \subseteq Pair /\ apart \subseteq Pair

\* A command takes effect a second time only when its nonce was given up
\* before its time, by a restart or because there were too many: as long as
\* a command is fresh, pruning keeps its nonce, also for a command stamped
\* ahead of the agent's clock.
ExecutedOnce ==
    \A c \in Command : executed[c] > 1 => c \in forgotten

\* A pair the dashboard paused is banned in the rules at once, unless the
\* file had its ban already and the rules had not: then the pause does
\* nothing and the pair can still be bought.
PausedPairsAreBanned == asked \subseteq banned \cup apart

\* However commands are lost, late or applied twice, the watchlist comes back
\* to the owner's follows in the database.
WatchlistConverges == []<>(watchlist = follows)
=============================================================================
