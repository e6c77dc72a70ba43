----------------------------- MODULE LlmProviders -----------------------------
(***************************************************************************)
(* The chain of language model providers: core/llm_client.py with the      *)
(* providers of core/llm_providers.py.  A call walks the chain as it was   *)
(* when the call began and takes the first provider that is available;     *)
(* answers and errors move the provider's counters, its cooldown and, for  *)
(* OpenRouter's free tier, the model it asks for.  The trading loop, the   *)
(* chat and the proactive messages call from threads of their own, so that *)
(* calls overlap with each other and with the rescan that replaces the     *)
(* chain.                                                                  *)
(*                                                                         *)
(* A replaced chain is a new generation of provider objects; calls under   *)
(* way hold on to the old ones, and objects that nobody holds are gone.    *)
(* Daily tokens are budgeted like requests, which stand for both.  The     *)
(* clock is a tick, no shorter than the spacing of requests, and midnight. *)
(* Prompts, JSON repair, credits and keys that come and go are left out.   *)
(***************************************************************************)
EXTENDS Integers, FiniteSets, Sequences, SequencesExt

CONSTANTS
    Thread,        \* threads that may have a call under way
    Chain,         \* names of the configured providers, first choice first
    Local,         \* the provider without limits (Ollama)
    Rotating,      \* the one that rotates free models (OpenRouter, tier free)
    Escalating,    \* the one whose cooldown escalates (Gemini, tier free)
    Reserved,      \* providers with reserve_for_priority = "high"
    Model,         \* OpenRouter's free models, numbered in list order
    Dead,          \* those that have no endpoint or reject system instructions
    DailyLimit,    \* daily_request_limit by name, 0 if there is none
    Margin,        \* requests before the limit that make a cooldown a long one
    PerMinute,     \* rpm_limit by name, 0 if there is none
    Minute,        \* ticks in the window of rpm_limit
    Cooldown,      \* cooldown_seconds, in ticks
    MaxEscalation, \* largest multiple of Cooldown
    LongCooldown,  \* ticks of the cooldown near the daily limit
    Generations,   \* bound: chains that are held at a time, the current one included
    MaxUnseen      \* bound: answers that the current objects do not count

Name == {Chain[i] : i \in DOMAIN Chain}
Limited == Name \ {Local}
Budgeted == {p \in Limited : DailyLimit[p] > 0}

ASSUME LlmAssumption ==
    /\ IsFiniteSet(Thread) /\ Cardinality(Thread) > 0
    /\ Chain \in Seq(Name) /\ IsInjective(Chain)
    /\ "nobody" \notin Name
    /\ Local \in Name /\ {Rotating, Escalating} \subseteq Limited
    /\ Reserved \subseteq Limited
    /\ Model = 1..Cardinality(Model) /\ 1 \in Model /\ Dead \subseteq Model
    /\ DailyLimit \in [Limited -> Nat] /\ PerMinute \in [Limited -> Nat]
    /\ {Minute, Cooldown, MaxEscalation, LongCooldown, Generations} \subseteq Nat \ {0}
    /\ {Margin, MaxUnseen} \subseteq Nat

VARIABLES
    gen,       \* generation of the chain
    prov,      \* the provider objects of every generation
    free,      \* OPENROUTER_FREE_MODELS
    blocked,   \* OPENROUTER_FREE_MODEL_BLOCKLIST
    call,      \* what every caller is doing
    served,    \* for the properties: answers of a provider today
    unseen     \* for the properties: those its current object did not count

tallies == <<served, unseen>>
models == <<free, blocked>>
llmVars == <<gen, prov, call, models, tallies>>

Generation == 1..Generations

\* The model of providers without rotation, and of nobody
Fixed == 0

\* The model OpenRouter is configured with
Configured == 1

\* What a provider object keeps.  A counter that no limit is set for is not
\* kept here.
Provider ==
    [model: Model \cup {Fixed},
     index: Nat,                    \* _free_model_index
     cooling: Nat,                  \* ticks until cooldown_until
     failures: Nat,                 \* _consecutive_429s
     requests: Nat,                 \* daily_requests
     stale: BOOLEAN,                \* daily_date is not today
     window: [1..Minute -> Nat]]    \* rpm_timestamps, by age in ticks

New(p) ==
    [model |-> IF p = Rotating THEN Configured ELSE Fixed,
     index |-> 0, cooling |-> 0, failures |-> 0, requests |-> 0, stale |-> FALSE,
     window |-> [age \in 1..Minute |-> 0]]

Place == DOMAIN Chain

\* A call: the generation it took its chain from, the places of the chain it
\* has still to try, the provider that was asked and the model it was asked for.
Call == [gen: Generation, left: SUBSET Place, asked: Name \cup {"nobody"},
         model: Model \cup {Fixed}]

NoCall == [gen |-> 1, left |-> {}, asked |-> "nobody", model |-> Fixed]

LlmInit ==
    /\ gen = 1
    /\ prov = [g \in Generation |-> [p \in Name |-> New(p)]]
    /\ free = Model /\ blocked = {}
    /\ call = [c \in Thread |-> NoCall]
    /\ served = [p \in Budgeted |-> 0]
    /\ unseen = [p \in Budgeted |-> 0]

\* Objects of old generations that no call will come to any more are gone.
Held(objects, calls, current) ==
    [g \in Generation |-> [p \in Name |->
        IF g = current \/ \E c \in Thread :
              calls[c].gen = g /\ p \in {calls[c].asked} \cup {Chain[i] : i \in calls[c].left}
        THEN objects[g][p] ELSE New(p)]]

-----------------------------------------------------------------------------
(* Availability *)

\* The daily counters start again with the date.
Dated(o) == IF o.stale THEN [o EXCEPT !.requests = 0, !.stale = FALSE] ELSE o

InWindow(o) == FoldFunction(+, 0, o.window)

WithinBudget(o, p) == DailyLimit[p] > 0 => Dated(o).requests < DailyLimit[p]

WithinWindow(o, p) == PerMinute[p] > 0 => InWindow(o) < PerMinute[p] /\ o.window[1] = 0

\* _is_provider_available
Available(o, p) ==
    p = Local \/ (o.cooling = 0 /\ WithinBudget(o, p) /\ WithinWindow(o, p))

\* _select_providers: calls of a lower priority skip the reserved providers.
Selected(high) == {i \in Place : high \/ Chain[i] \notin Reserved}

\* The places of a call that could answer at once
Ready(g, places, objects) ==
    {i \in places : Available(objects[g][Chain[i]], Chain[i])}

\* The first available provider is asked; without one the call is over, and
\* raises what went wrong last.
Asking(g, places, objects) ==
    LET ready == Ready(g, places, objects)
        first == Min(ready)
    IN IF ready = {} THEN NoCall
       ELSE [gen |-> g, left |-> {i \in places : i > first},
             asked |-> Chain[first], model |-> objects[g][Chain[first]].model]

\* The providers that were looked at on the way have today's date, but for those
\* that cool down.
LookedAt(g, places, objects) ==
    LET seen == {Chain[i] : i \in places \ Asking(g, places, objects).left}
    IN [objects EXCEPT ![g] = [p \in Name |->
           IF p \in seen /\ @[p].cooling = 0 THEN Dated(@[p]) ELSE @[p]]]

\* The walk along the places does not wait for anything.
Walk(c, g, places, objects) ==
    /\ call' = [call EXCEPT ![c] = Asking(g, places, objects)]
    /\ prov' = Held(LookedAt(g, places, objects), call', gen)

Begin(c, high) ==
    /\ call[c] = NoCall
    /\ Walk(c, gen, Selected(high), prov)
    /\ UNCHANGED <<gen, models, tallies>>

-----------------------------------------------------------------------------
(* Answers *)

\* _record_call
Counted(o, p) ==
    LET dated == Dated(o)
    IN [dated EXCEPT !.requests = IF DailyLimit[p] > 0 THEN @ + 1 ELSE @,
                     !.failures = 0,
                     !.window[1] = IF PerMinute[p] > 0 THEN @ + 1 ELSE @]

\* An answer is counted where the call found its provider, and only if it says
\* how many tokens were used.
Answer(c, usage) ==
    LET g == call[c].gen
        p == call[c].asked
        seen == usage /\ g = gen
    IN /\ p # "nobody"
       /\ p \in Budgeted /\ ~seen => unseen[p] < MaxUnseen
       /\ call' = [call EXCEPT ![c] = NoCall]
       /\ prov' = Held(IF usage /\ p # Local THEN [prov EXCEPT ![g][p] = Counted(@, p)]
                       ELSE prov, call', gen)
       /\ served' = IF p \in Budgeted THEN [served EXCEPT ![p] = @ + 1] ELSE served
       /\ unseen' = IF p \in Budgeted /\ ~seen THEN [unseen EXCEPT ![p] = @ + 1]
                    ELSE unseen
       /\ UNCHANGED <<gen, models>>

\* The free models in list order; the index counts from 0.
FreeAt(models_, i) == SetToSortSeq(models_, <)[(i % Cardinality(models_)) + 1]

\* _rotate_openrouter_model without blacklisting: a new model needs no cooldown.
Rotated(o) ==
    LET next == (o.index + 1) % Cardinality(free)
    IN CASE free = {} -> o
         [] FreeAt(free, next) = o.model -> [o EXCEPT !.index = next]
         [] OTHER -> [o EXCEPT !.index = next, !.model = FreeAt(free, next), !.cooling = 0]

\* The multiple of the cooldown after n failures in a row
Escalation(n) == Min({2 ^ (n - 1), MaxEscalation})

\* Near its daily limit, as it was counted last, the escalating provider rests
\* for long.
CooldownOf(o, p) ==
    IF p # Escalating THEN Cooldown
    ELSE IF DailyLimit[p] > 0 /\ o.requests >= DailyLimit[p] - Margin THEN LongCooldown
    ELSE Cooldown * Escalation(o.failures)

\* Failures are counted as long as they make a difference.
Failed(o, p) ==
    IF p = Escalating /\ (o.failures = 0 \/ Escalation(o.failures) < MaxEscalation)
    THEN [o EXCEPT !.failures = @ + 1] ELSE o

\* _activate_cooldown
Cooled(o, p) ==
    LET failed == Failed(o, p)
        cooled == [failed EXCEPT !.cooling = CooldownOf(failed, p)]
    IN IF p = Rotating THEN Rotated(cooled) ELSE cooled

\* Rate or quota limit, or a timeout.  The local provider cools down as well,
\* but is asked all the same.
LimitedOrLate(c) ==
    LET g == call[c].gen
        p == call[c].asked
    IN /\ p # "nobody"
       /\ Walk(c, g, call[c].left,
               IF p = Local THEN prov ELSE [prov EXCEPT ![g][p] = Cooled(@, p)])
       /\ UNCHANGED <<gen, models, tallies>>

\* The object after its model was blacklisted: the model that moved up to the
\* same index comes next.
Blacklisted(o) ==
    LET left == free \ {o.model}
    IN IF left = {} THEN o
       ELSE [o EXCEPT !.index = @ % Cardinality(left), !.model = FreeAt(left, o.index),
                      !.cooling = IF FreeAt(left, o.index) = o.model THEN @ ELSE 0]

\* The asked model has no endpoint (404) or rejects system instructions (400).
\* What is blacklisted is the model that the object has by now.
ModelRejected(c) ==
    LET g == call[c].gen
        o == prov[g][Rotating]
    IN /\ call[c].asked = Rotating /\ call[c].model \in Dead
       /\ blocked' = blocked \cup {o.model}
       /\ free' = free \ {o.model}
       /\ Walk(c, g, call[c].left, [prov EXCEPT ![g][Rotating] = Blacklisted(o)])
       /\ UNCHANGED <<gen, tallies>>

\* Any other error.  The local provider's is raised, without further fallback.
Fails(c) ==
    /\ call[c].asked # "nobody"
    /\ Walk(c, call[c].gen, IF call[c].asked = Local THEN {} ELSE call[c].left, prov)
    /\ UNCHANGED <<gen, models, tallies>>

Replies(c) ==
    \/ \E usage \in BOOLEAN : Answer(c, usage)
    \/ LimitedOrLate(c) \/ ModelRejected(c) \/ Fails(c)

-----------------------------------------------------------------------------
(* Recovery *)

\* check_provider_recovery writes the date of the current objects.
CheckRecovery ==
    /\ prov' = [prov EXCEPT ![gen] = [p \in Name |-> Dated(@[p])]]
    /\ UNCHANGED <<gen, call, models, tallies>>

\* Variant: the new objects start with counters of their own.
CarriedNothing(new, old) == new

\* reload_providers: counters, stamps and running cooldowns are carried over.
Carried(new, old) ==
    [new EXCEPT !.requests = old.requests, !.stale = old.stale,
                !.window = old.window, !.cooling = old.cooling]

Reloaded == [p \in Name |-> Carried(New(p), prov[gen][p])]

\* rescan_and_reload compares names and models with the configuration; a rotated
\* model is a difference, and the reload takes the rotation back.
Rescan ==
    /\ prov[gen][Rotating].model # Configured
    /\ gen' \in {g \in Generation \ {gen} :
                   \A c \in Thread : call[c] # NoCall => call[c].gen # g}
    /\ prov' = Held([prov EXCEPT ![gen'] = Reloaded], call, gen')
    /\ UNCHANGED <<call, models, tallies>>

\* refresh_free_models: the list is what the API offers and nobody blocked.
RefreshFreeModels ==
    /\ \E offered \in SUBSET (Model \ blocked) \ {{}} : free' = offered
    /\ UNCHANGED <<gen, prov, call, blocked, tallies>>

-----------------------------------------------------------------------------
(* Time *)

Aged(o) ==
    [o EXCEPT !.cooling = IF @ = 0 THEN 0 ELSE @ - 1,
              !.window = [age \in 1..Minute |-> IF age = 1 THEN 0 ELSE @[age - 1]]]

Tick ==
    /\ prov' = [g \in Generation |-> [p \in Name |-> Aged(prov[g][p])]]
    /\ UNCHANGED <<gen, call, models, tallies>>

NewDay ==
    /\ prov' = [g \in Generation |-> [p \in Name |->
                   [prov[g][p] EXCEPT !.stale = prov[g][p].requests > 0]]]
    /\ served' = [p \in Budgeted |-> 0] /\ unseen' = [p \in Budgeted |-> 0]
    /\ UNCHANGED <<gen, call, models>>

-----------------------------------------------------------------------------

LlmNext ==
    \/ \E c \in Thread :
          \/ \E high \in BOOLEAN : Begin(c, high)
          \/ Replies(c)
    \/ CheckRecovery \/ Rescan \/ RefreshFreeModels
    \/ Tick \/ NewDay

LlmSpec == LlmInit /\ [][LlmNext]_llmVars

-----------------------------------------------------------------------------
(* Properties *)

\* Objects, lists and calls are well formed.
LlmTypeOK ==
    /\ gen \in Generation
    /\ prov \in [Generation -> [Name -> Provider]]
    /\ free \subseteq Model /\ blocked \subseteq Model /\ free \cap blocked = {}
    /\ call \in [Thread -> Call]
    /\ served \in [Budgeted -> Nat] /\ unseen \in [Budgeted -> Nat]

\* A provider serves no more than its daily limit and one request for every
\* other caller that was under way when the limit was reached, but for answers
\* without usage and answers to a chain that was replaced; reloads, rotations
\* and midnight lose none of the others.
ServedWithinBudget ==
    \A p \in Budgeted : served[p] <= DailyLimit[p] + Cardinality(Thread) - 1 + unseen[p]

=============================================================================
