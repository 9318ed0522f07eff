---------------------------- MODULE SettingsDoor ----------------------------
(***************************************************************************)
(* The settings door (settingsDoor.ts, settingClass.ts): an agent's change *)
(* that narrows applies at once, one that widens waits on a card for the   *)
(* person.  With it the other writers of what a card is about: the store   *)
(* of the agent rules and the launch mode (agentRulesStore.ts), which puts *)
(* its own cards on the same list while the door writes its rules too, and *)
(* the window, which holds settings of its own and is told over a socket   *)
(* what the person approved.                                               *)
(*                                                                         *)
(* A value is its rank: lower is narrower.  A handler runs to its next     *)
(* await without interruption.                                             *)
(***************************************************************************)
EXTENDS Integers, FiniteSets

CONSTANTS
    Agents,
    Confined,       \* agents held to one project: seats, who reach the door alone
    Settings,
    Trust,          \* agents.changeWithoutAsking
    Holder,         \* where each setting is: "server", "window", or with the store a
                    \* "project"'s rule, a "base" rule (0 is never) or the launch "mode"
    Class,          \* "low", "escalation", "askAlways", "personTop" or "personOnly"
    Top,            \* the widest rank
    MaxPending,     \* MAX_PENDING
    MaxCards,       \* bound: requests ever made
    MaxWrites       \* bound: changes made by the person's own hand

ASSUME DoorConstants ==
    /\ "nobody" \notin Agents
    /\ Confined \subseteq Agents /\ Trust \in Settings
    /\ Holder \in [Settings -> {"server", "window", "project", "base", "mode"}]
    /\ Class \in [Settings -> {"low", "escalation", "askAlways", "personTop", "personOnly"}]
    /\ Class[Trust] = "personOnly" /\ Holder[Trust] = "server"
    /\ \A s \in Settings : /\ Holder[s] \in {"base", "mode"} => Class[s] = "escalation"
                           /\ Class[s] \in {"askAlways", "personTop"} => Holder[s] = "server"
    /\ Top \in Nat \ {0} /\ MaxPending \in Nat \ {0}
    /\ MaxCards \in Nat /\ MaxWrites \in Nat

VARIABLES
    value,      \* what each setting reads
    card,       \* what each request asked for and was read against; kept as history
    waiting,    \* the requests map
    past,       \* requests whose `expires` has gone by
    applying,   \* approved requests between the click and the write
    writes,     \* counted against MaxWrites
    applied     \* history: how often each request has been applied

doorVars == <<value, card, waiting, past, applying, writes, applied>>

CardIds == 1 .. MaxCards
Ranks   == 0 .. Top

\* The two ways to a setting: change, with the window's askForWindow, and setRule.
Ways(s) == CASE Holder[s] = "project" -> {"store"}
             [] Holder[s] \in {"base", "mode"} -> {"door", "store"}
             [] OTHER -> {"door"}

\* What the door knows of a base rule is whether launch.deny names it.
Reads(s, via) ==
    IF via = "door" /\ Holder[s] = "base" THEN IF value[s] = 0 THEN 0 ELSE Top ELSE value[s]

\* What may be asked of a setting; the switch is on or off, and so is a denial.
Values(s, via) ==
    IF s = Trust \/ (via = "door" /\ Holder[s] = "base") THEN {0, Top} ELSE Ranks

\* What a setting is once `to` is written.  writeLaunchBase lifts only what was denied.
Written(s, to, via) ==
    IF via = "door" /\ Holder[s] = "base" /\ to = Top /\ value[s] # 0 THEN value[s] ELSE to

NoCard == [setting |-> Trust, who |-> "nobody", via |-> "door", from |-> 0, to |-> 0]

Cards  == [setting : Settings, who : Agents \cup {"nobody"}, via : {"door", "store"},
           from : Ranks, to : Ranks]

DoorInit ==
    /\ value = [s \in Settings |-> 0]
    /\ card = [i \in CardIds |-> NoCard]
    /\ waiting = {} /\ past = {} /\ applying = {}
    /\ writes = 0 /\ applied = [i \in CardIds |-> 0]

-----------------------------------------------------------------------------

\* agentVerdict, "personTop" with a `personOnlyWhen` for its widest rank; and
\* setRule, which asks for anything looser whatever the switch says.
AgentVerdict(s, to, via) ==
    IF Class[s] = "personTop" /\ to = Top THEN "refuse" ELSE
    IF Class[s] = "low" \/ to <= Reads(s, via) THEN "apply" ELSE
    IF Class[s] = "personOnly" THEN "refuse" ELSE
    IF Class[s] # "askAlways" /\ via = "door" /\ value[Trust] = Top THEN "apply" ELSE "ask"

\* seatAllows: of these routes a seat reaches /settings/door, which knows no window's.
Reaches(a, s, via) == via \in Ways(s) /\ (a \in Confined => via = "door" /\ Holder[s] # "window")

\* Mutant: a caller held to one project asks, before the class is looked at.
VerdictConfinedFirst(a, s, to, via) == IF a \in Confined THEN "ask" ELSE AgentVerdict(s, to, via)

\* change: what is the whole machine's waits for the person when a seat asks.
Verdict(a, s, to, via) ==
    IF a \in Confined /\ AgentVerdict(s, to, via) = "apply"
    THEN "ask" ELSE AgentVerdict(s, to, via)

\* prune
Unexpired == waiting \ past

\* Mutant: the newer ask stands beside the older one.
SameAskNever(i, a, s, to, via) == FALSE

\* queue's newer ask: the same setting from the same caller, and for a store's
\* card the same key, which for the launch mode names the value too.
SameAsk(i, a, s, to, via) ==
    /\ card[i].setting = s /\ card[i].who = a /\ card[i].via = via
    /\ via = "store" /\ Holder[s] = "mode" => card[i].to = to

\* Mutant: the ceiling is looked at before the newer ask is counted.
QueueFull(a, s, to, via) ==
    LET others == {i \in Unexpired : ~SameAsk(i, a, s, to, via)}
    IN  \E i \in CardIds :
            /\ card[i] = NoCard /\ \A j \in 1 .. i - 1 : card[j] # NoCard
            /\ Cardinality(others) <= MaxPending
            /\ waiting' = others \cup {i}
            /\ card' = [card EXCEPT ![i] =
                 [setting |-> s, who |-> a, via |-> via, from |-> Reads(s, via), to |-> to]]

\* queue; beyond MAX_PENDING the caller is told 429 and nothing waits.
Queue(a, s, to, via) ==
    LET others == {i \in Unexpired : ~SameAsk(i, a, s, to, via)}
    IN  \E i \in CardIds :
            /\ card[i] = NoCard /\ \A j \in 1 .. i - 1 : card[j] # NoCard
            /\ Cardinality(others) < MaxPending
            /\ waiting' = others \cup {i}
            /\ card' = [card EXCEPT ![i] =
                 [setting |-> s, who |-> a, via |-> via, from |-> Reads(s, via), to |-> to]]

\* drop(key), from setRule and answer: a rule's own cards go by that key.  The
\* mode's go by another, and writeLaunchBase tells nobody.
Drop(s, via) ==
    waiting' = IF via = "store" /\ Holder[s] # "mode"
               THEN {i \in waiting : card[i].setting # s \/ card[i].via # "store"} ELSE waiting

-----------------------------------------------------------------------------
(* The agents. *)

\* change, /control's settings.set and setRule, for an agent; setRule writes and
\* drops even where nothing changes.
AgentApplies(a, s, to, via) ==
    /\ Reaches(a, s, via) /\ (to # Reads(s, via) \/ via = "store")
    /\ Verdict(a, s, to, via) = "apply"
    /\ value' = [value EXCEPT ![s] = Written(s, to, via)]
    /\ Drop(s, via)
    /\ UNCHANGED <<card, past, applying, writes, applied>>

AgentAsks(a, s, to, via) ==
    /\ Reaches(a, s, via) /\ to # Reads(s, via)
    /\ Verdict(a, s, to, via) = "ask"
    /\ Queue(a, s, to, via)
    /\ UNCHANGED <<value, past, applying, writes, applied>>

-----------------------------------------------------------------------------
(* The person. *)

\* The setting's own row in Settings, writeLaunchBase among them, and change with
\* `person`; or setRule and answer.
PersonSets(s, to, via) ==
    /\ writes < MaxWrites /\ writes' = writes + 1
    /\ to # Reads(s, via) /\ value' = [value EXCEPT ![s] = Written(s, to, via)]
    /\ Drop(s, via)
    /\ UNCHANGED <<card, past, applying, applied>>

\* answer with `dismiss`: the rule's cards go, its setting stays.
PersonDismisses(s) ==
    /\ Holder[s] \in {"project", "base"}
    /\ Drop(s, "store")
    /\ UNCHANGED <<value, card, past, applying, writes, applied>>

Decline(i) ==
    /\ i \in Unexpired
    /\ waiting' = Unexpired \ {i}
    /\ UNCHANGED <<value, card, past, applying, writes, applied>>

\* What a yes does before decide's first await: a store's card runs its own write,
\* what the server holds is compared, a window is sent what it should hold.
Granted(i) ==
    LET s == card[i].setting
    IN  CASE card[i].via = "store" ->
                 /\ value' = [value EXCEPT ![s] = card[i].to]
                 /\ applied' = [applied EXCEPT ![i] = @ + 1]
                 /\ UNCHANGED applying
          [] card[i].via = "door" /\ Holder[s] # "window" /\ Reads(s, "door") # card[i].from ->
                 UNCHANGED <<value, applied, applying>>
          [] OTHER ->
                 /\ applying' = applying \cup {i}
                 /\ UNCHANGED <<value, applied>>

\* Mutant: the request goes once its write is done.
ApproveKeeping(i) ==
    /\ i \in Unexpired /\ waiting' = Unexpired
    /\ Granted(i)
    /\ UNCHANGED <<card, past, writes>>

\* decide with `approve`.
Approve(i) ==
    /\ i \in Unexpired /\ waiting' = Unexpired \ {i}
    /\ Granted(i)
    /\ UNCHANGED <<card, past, writes>>

\* The await is over: validate said yes and the server setting is written without
\* another look, or the window still held what the card was read against.
Applies(i) ==
    LET s == card[i].setting
    IN  /\ i \in applying /\ applying' = applying \ {i}
        /\ Holder[s] = "window" => value[s] = card[i].from
        /\ value' = [value EXCEPT ![s] = Written(s, card[i].to, "door")]
        /\ applied' = [applied EXCEPT ![i] = @ + 1]
        /\ UNCHANGED <<card, waiting, past, writes>>

\* The value is no longer valid, the window moved on or none is open.
ComesToNothing(i) ==
    /\ i \in applying /\ applying' = applying \ {i}
    /\ UNCHANGED <<value, card, waiting, past, writes, applied>>

-----------------------------------------------------------------------------
(* The clock and the process. *)

\* REQUEST_TTL_MS after it was made; requests are made in the order of their ids.
GoesPast(i) ==
    /\ i \in Unexpired /\ \A j \in Unexpired : i <= j
    /\ past' = past \cup {i}
    /\ UNCHANGED <<value, card, waiting, applying, writes, applied>>

\* Mutant: the timer fires as the request expires, and prune finds it a moment early.
TimerEarly(i) ==
    /\ i \in Unexpired
    /\ waiting' = Unexpired
    /\ UNCHANGED <<value, card, past, applying, writes, applied>>

\* The timer of a request, REQUEST_TTL_MS and 50 after it was made.
Timer(i) ==
    /\ i \in waiting \cap past
    /\ waiting' = Unexpired
    /\ UNCHANGED <<value, card, past, applying, writes, applied>>

\* GET /settings/requests: pending() prunes.
Look ==
    /\ waiting' = Unexpired
    /\ UNCHANGED <<value, card, past, applying, writes, applied>>

\* Requests live in memory: a restart drops them, but not what a window was sent.
DoorRestart ==
    /\ waiting' = {}
    /\ applying' = {i \in applying : Holder[card[i].setting] = "window"}
    /\ UNCHANGED <<value, card, past, writes, applied>>

DoorNext ==
    \/ \E s \in Settings : \E via \in Ways(s) : \E to \in Values(s, via) :
           \/ \E a \in Agents : AgentApplies(a, s, to, via) \/ AgentAsks(a, s, to, via)
           \/ PersonSets(s, to, via)
    \/ \E s \in Settings : PersonDismisses(s)
    \/ \E i \in CardIds : \/ Decline(i) \/ Approve(i) \/ Applies(i) \/ ComesToNothing(i)
                          \/ GoesPast(i) \/ Timer(i)
    \/ Look \/ DoorRestart

\* Time goes on and a timer fires; nobody has to look and nobody has to answer.
DoorFairness ==
    \A i \in CardIds : WF_doorVars(GoesPast(i)) /\ WF_doorVars(Timer(i))

DoorSpec == DoorInit /\ [][DoorNext]_doorVars /\ DoorFairness

-----------------------------------------------------------------------------

\* Type correctness, with the ceiling on what may wait.
DoorTypeOK ==
    /\ value \in [Settings -> Ranks]
    /\ card \in [CardIds -> Cards]
    /\ waiting \subseteq CardIds /\ Cardinality(waiting) <= MaxPending
    /\ past \subseteq CardIds /\ applying \subseteq CardIds
    /\ writes \in 0 .. MaxWrites /\ applied \in [CardIds -> Nat]

\* "A newer ask for the same setting from the same caller replaces the older one":
\* the person never has two cards of one caller for one thing, asked one way.
OneCardPerAsk ==
    \A i, j \in waiting :
        /\ card[i].setting = card[j].setting /\ card[i].who = card[j].who
        /\ card[i].via = card[j].via
        => i = j \/ (Holder[card[i].setting] = "mode" /\ card[i].to # card[j].to)

\* One answer, one write: two windows that click the same card, a click that races
\* the expiry or a restart between the click and the write never apply it again.
AppliedOnce == \A i \in CardIds : applied[i] <= 1 /\ (i \in waiting \cup applying => applied[i] = 0)

\* A step that gives what only the person may: the switch that spares agents the
\* question goes on, or a setting reaches the rank kept for the person.
Personal(s) ==
    \/ s = Trust /\ value'[s] > value[s]
    \/ Class[s] = "personTop" /\ value[s] # Top /\ value'[s] = Top

\* Such a step is only ever made by the person's own hand: no ask, no approval of a
\* card and no switch already on gets an agent there.
PersonsAlone == [][\A s \in Settings : Personal(s) => writes' > writes]_doorVars

\* A card nobody answers leaves by itself, though nobody looks at the list.
CardsLeave == \A i \in CardIds : i \in waiting ~> i \notin waiting

\* settingsDoor.ts:8: "Approving applies that value and nothing else, and only
\* while the setting still reads what it read when the request was made".  A
\* store's card is not compared, and what the server holds only before an await.
CardStillTrue ==
    [][\A i \in CardIds :
         applied'[i] > applied[i]
             => Reads(card[i].setting, card[i].via) \in {card[i].from, card[i].to}]_doorVars
=============================================================================
