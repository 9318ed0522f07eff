-------------------------------- MODULE Gate --------------------------------
(***************************************************************************)
(* The gate: hooks/gate_event.py on one side of a local HTTP connection,   *)
(* the routes of index.ts, gate.ts and the gates table of db.ts on the     *)
(* other, a person who decides, a clock, and a server that crashes and     *)
(* comes back.                                                             *)
(*                                                                         *)
(* A hook handles one call and makes one request at a time, so its         *)
(* connection is one variable, link[c].  A request whose client has gone   *)
(* may still reach the server (stray).  Every server handler runs to its   *)
(* next await without interruption, so each is one action.                 *)
(***************************************************************************)
EXTENDS Naturals

CONSTANTS
    Calls,          \* tool calls; a hook mints one uuid for each
    Outward,        \* calls outwardAction() recognises and no exact rule releases
    Patience,       \* ticks each hook asks to be held for (--timeout)
    MaxHold,        \* GATE_MAX_MS, in ticks
    Grace,          \* how long past its patience a hook keeps trying (10 s)
    ReadSlack,      \* how long past its patience the first POST may hang (5 s)
    FailClosed,     \* AGENTGLASS_GATE_FAILCLOSED as the server read it
    HookFailClosed, \* the same variable as the hook read it
    MaxTime         \* bound: the clock stops here

ASSUME GateConstants ==
    /\ Outward \subseteq Calls
    /\ MaxHold \in Nat \ {0}
    /\ Patience \in [Calls -> Nat \ {0}]
    /\ Grace \in Nat /\ ReadSlack \in Nat /\ ReadSlack <= Grace
    /\ FailClosed \in BOOLEAN /\ HookFailClosed \in BOOLEAN
    /\ MaxTime \in Nat

VARIABLES
    now,        \* wall clock, in ticks
    up,         \* the server process is running
    rows,       \* the gates table; survives a crash
    waiter,     \* gate.ts's waiters map; dies with the process
    stray,      \* requests on their way from a client that has gone
    link,       \* each hook's connection: its request, or the answer coming back
    hook,       \* where each hook is in main()
    sent,       \* the hook believes its POST arrived
    deadline,   \* when the hook stops retrying
    outcome,    \* what the hook told the agent
    gaveUp,     \* calls whose hook stopped without an answer
    log,        \* history: every ruling the server gave
    offRecord   \* history: calls a ruling on which is not in the table (any more)

vars == <<now, up, rows, waiter, stray, link, hook, sent, deadline,
          outcome, gaveUp, log, offRecord>>
serverVars == <<up, rows, waiter, log, offRecord>>
hookVars   == <<hook, sent, deadline, outcome, gaveUp>>

Answer  == {"deny", "approve", "defer"}
Request == {"post", "get"}

-----------------------------------------------------------------------------
(* The gates table and the waiters map. *)

NoRow    == [ruling |-> "absent", by |-> "none", expires |-> 0, closed |-> FALSE]
NoWaiter == [conn |-> "none", due |-> 0, closed |-> FALSE]

Row == [ruling : Answer \cup {"absent", "pending"},
        by : {"none", "human", "timeout", "restart", "rule"},
        expires : Nat, closed : BOOLEAN]
\* "held" resolves the hook's connection of this moment, "unheld" nobody's.
Waiter == [conn : {"none", "held", "unheld"}, due : Nat, closed : BOOLEAN]

Ruling == [call : Calls, answer : Answer, by : {"human", "timeout", "restart", "rule"}]
RulingOf(c) == [call |-> c, answer |-> rows[c].ruling, by |-> rows[c].by]

Undecided(c) == rows[c].ruling = "pending"
Decided(c)   == rows[c].ruling \in Answer
Waiting(c)   == waiter[c].conn # "none"

\* The wait a request gets: what the hook asked for, under the ceiling.
Wait(c) == IF Patience[c] < MaxHold THEN Patience[c] ELSE MaxHold

\* recordGate: INSERT OR REPLACE of an undecided row.
NewRow(expires, closed) ==
    [ruling |-> "pending", by |-> "none", expires |-> expires, closed |-> closed]

\* Mutant: the two columns are written in the wrong order.
ResolvedSwapped(row, a, by) ==
    IF row.ruling = "pending" THEN [row EXCEPT !.ruling = by, !.by = a] ELSE row

\* resolveGateRow: UPDATE ... WHERE decision IS NULL.
Resolved(row, a, by) ==
    IF row.ruling = "pending" THEN [row EXCEPT !.ruling = a, !.by = by] ELSE row

\* Mutant: the request's own policy is ignored for the machine's.
TimeoutOutcomeGlobal(closed) == IF FailClosed THEN "deny" ELSE "defer"

\* timeoutOutcome
TimeoutOutcome(closed) == IF closed \/ FailClosed THEN "deny" ELSE "defer"
-----------------------------------------------------------------------------
Init ==
    /\ now = 0
    /\ up = TRUE
    /\ rows = [c \in Calls |-> NoRow]
    /\ waiter = [c \in Calls |-> NoWaiter]
    /\ stray = [c \in Calls |-> {}]
    /\ link = [c \in Calls |-> "closed"]
    /\ hook = [c \in Calls |-> "new"]
    /\ sent = [c \in Calls |-> TRUE]
    /\ deadline = [c \in Calls |-> 0]
    /\ outcome = [c \in Calls |-> "none"]
    /\ gaveUp = {}
    /\ log = {}
    /\ offRecord = {}

Tick ==
    /\ now < MaxTime
    /\ now' = now + 1
    /\ UNCHANGED <<serverVars, stray, link, hookVars>>
-----------------------------------------------------------------------------
(* The hook, and what the network does to its connection. *)

\* The first POST.  A refused connection ends the wait at once.
Start(c) ==
    /\ hook[c] = "new"
    /\ now + Patience[c] + Grace <= MaxTime
    /\ IF up
       THEN /\ hook' = [hook EXCEPT ![c] = "first"]
            /\ link' = [link EXCEPT ![c] = "post"]
            /\ deadline' = [deadline EXCEPT ![c] = now + Patience[c] + Grace]
       ELSE /\ hook' = [hook EXCEPT ![c] = "backoff"]
            /\ deadline' = [deadline EXCEPT ![c] = now]
            /\ UNCHANGED link
    /\ UNCHANGED <<now, serverVars, stray, sent, outcome, gaveUp>>

\* Mutant: the loop does not look at its deadline.
RetryForever(c) ==
    /\ hook[c] = "backoff"
    /\ IF up
       THEN /\ hook' = [hook EXCEPT ![c] = "retry"]
            /\ link' = [link EXCEPT ![c] = IF sent[c] THEN "get" ELSE "post"]
            /\ UNCHANGED sent
       ELSE /\ sent' = [sent EXCEPT ![c] = TRUE]
            /\ UNCHANGED <<hook, link>>
    /\ UNCHANGED <<now, serverVars, stray, deadline, outcome, gaveUp>>

\* One turn of the retry loop: ask about the request, or send it again.
Retry(c) ==
    /\ hook[c] = "backoff"
    /\ now < deadline[c]
    /\ IF up
       THEN /\ hook' = [hook EXCEPT ![c] = "retry"]
            /\ link' = [link EXCEPT ![c] = IF sent[c] THEN "get" ELSE "post"]
            /\ UNCHANGED sent
       ELSE /\ sent' = [sent EXCEPT ![c] = TRUE]
            /\ UNCHANGED <<hook, link>>
    /\ UNCHANGED <<now, serverVars, stray, deadline, outcome, gaveUp>>

\* An exception on the hook's side: back to sleep, sure that the POST was sent.
Interrupt(S) ==
    /\ hook' = [c \in Calls |-> IF c \in S THEN "backoff" ELSE hook[c]]
    /\ link' = [c \in Calls |-> IF c \in S THEN "closed" ELSE link[c]]
    /\ sent' = [c \in Calls |-> IF c \in S THEN TRUE ELSE sent[c]]
    /\ UNCHANGED <<deadline, outcome, gaveUp>>

\* The connection is gone.  A request not yet handled may arrive all the same.
Disconnect(c) ==
    /\ link[c] # "closed"
    /\ Interrupt({c})
    /\ waiter' = IF link[c] = "held" /\ waiter[c].conn = "held"
                 THEN [waiter EXCEPT ![c].conn = "unheld"] ELSE waiter
    /\ \/ stray' = stray
       \/ link[c] \in Request /\ stray' = [stray EXCEPT ![c] = @ \cup {link[c]}]
    /\ UNCHANGED <<now, up, rows, log, offRecord>>

\* urlopen's own timeout, after which no request is left open.
ReadTimeout(c) ==
    /\ hook[c] \in {"first", "retry"}
    /\ now >= deadline[c] - (IF hook[c] = "first" THEN Grace - ReadSlack ELSE 0)
    /\ Disconnect(c)

HearAnswer(c) ==
    /\ link[c] \in Answer
    /\ outcome' = [outcome EXCEPT ![c] = link[c]]
    /\ hook' = [hook EXCEPT ![c] = "done"]
    /\ link' = [link EXCEPT ![c] = "closed"]
    /\ UNCHANGED <<now, serverVars, stray, sent, deadline, gaveUp>>

\* 404: the server has no record of the request, so it is sent again.
HearUnknown(c) ==
    /\ link[c] = "404"
    /\ sent' = [sent EXCEPT ![c] = FALSE]
    /\ hook' = [hook EXCEPT ![c] = "backoff"]
    /\ link' = [link EXCEPT ![c] = "closed"]
    /\ UNCHANGED <<now, serverVars, stray, deadline, outcome, gaveUp>>

\* Any other error ends the wait if the first POST met it, and is a drop later.
HearError(c) ==
    /\ link[c] = "500"
    /\ deadline' = [deadline EXCEPT ![c] = IF hook[c] = "first" THEN now ELSE @]
    /\ sent' = [sent EXCEPT ![c] = TRUE]
    /\ hook' = [hook EXCEPT ![c] = "backoff"]
    /\ link' = [link EXCEPT ![c] = "closed"]
    /\ UNCHANGED <<now, serverVars, stray, outcome, gaveUp>>

GiveUp(c) ==
    /\ hook[c] = "backoff"
    /\ now >= deadline[c]
    /\ outcome' = [outcome EXCEPT ![c] = IF HookFailClosed THEN "deny" ELSE "defer"]
    /\ gaveUp' = gaveUp \cup {c}
    /\ hook' = [hook EXCEPT ![c] = "done"]
    /\ UNCHANGED <<now, serverVars, stray, link, sent, deadline>>
-----------------------------------------------------------------------------
(* The server's routes.  via is "live" for the request on the hook's       *)
(* connection and "stray" for one whose client is gone.                    *)

Arrives(c, kind, via) ==
    /\ up
    /\ IF via = "live" THEN link[c] = kind ELSE kind \in stray[c]

\* The request is consumed; m goes back to a client that is still there.
Reply(c, kind, via, m) ==
    IF via = "live"
    THEN link' = [link EXCEPT ![c] = m] /\ UNCHANGED stray
    ELSE stray' = [stray EXCEPT ![c] = @ \ {kind}] /\ UNCHANGED link

\* Mutant: a reconnect gets a window of its own.
AttachExtends(c, kind, via) ==
    /\ Arrives(c, kind, via)
    /\ Waiting(c)
    /\ rows' = [rows EXCEPT ![c].expires = now + Wait(c)]
    /\ waiter' = [waiter EXCEPT ![c].conn = IF via = "live" THEN "held" ELSE "unheld",
                                ![c].due = now + Wait(c)]
    /\ Reply(c, kind, via, "held")
    /\ UNCHANGED <<now, up, log, offRecord, hookVars>>

\* awaitGate on a live request: the last connection to ask is the one answered.
Attach(c, kind, via) ==
    /\ Arrives(c, kind, via)
    /\ Waiting(c)
    /\ waiter' = [waiter EXCEPT ![c].conn = IF via = "live" THEN "held" ELSE "unheld"]
    /\ Reply(c, kind, via, "held")
    /\ UNCHANGED <<now, up, rows, log, offRecord, hookVars>>

\* Mutant: a decided request is replayed with no opinion.
ReplayDefers(c, kind, via) ==
    /\ Arrives(c, kind, via)
    /\ ~Waiting(c) /\ Decided(c)
    /\ Reply(c, kind, via, "defer")
    /\ UNCHANGED <<now, serverVars, hookVars>>

\* awaitGate on a decided request: the recorded outcome, read back.
Replay(c, kind, via) ==
    /\ Arrives(c, kind, via)
    /\ ~Waiting(c) /\ Decided(c)
    /\ Reply(c, kind, via, rows[c].ruling)
    /\ UNCHANGED <<now, serverVars, hookVars>>

\* /gate/status on an id nothing is known of.
Unknown(c, via) ==
    /\ Arrives(c, "get", via)
    /\ ~Waiting(c) /\ ~Decided(c)
    /\ Reply(c, "get", via, "404")
    /\ UNCHANGED <<now, serverVars, hookVars>>

\* Mutant: the rules are consulted before the record.
FreshUnchecked(c, via) == Arrives(c, "post", via) /\ ~Waiting(c)

\* A POST that awaitGate has no answer for.
Fresh(c, via) == Arrives(c, "post", via) /\ ~Waiting(c) /\ ~Decided(c)

\* Mutant: an allow rule also releases what leaves the machine.
RuleVerdictsAny(c) == {"deny", "defer"}

\* Rules may change at any moment; an outward call is never let through by one.
RuleVerdicts(c) == IF c \in Outward THEN {"deny"} ELSE {"deny", "defer"}

\* denyByRule, allowByRule: written and resolved in one transaction.
RuleSpeaks(c, via, a) ==
    /\ Fresh(c, via)
    /\ rows' = [rows EXCEPT ![c] = Resolved(NewRow(now, FALSE), a, "rule")]
    /\ log' = log \cup {[call |-> c, answer |-> a, by |-> "rule"]}
    /\ Reply(c, "post", via, a)
    /\ UNCHANGED <<now, up, waiter, offRecord, hookVars>>

\* The write failed, or a harness tool is let through unrecorded: answered all the same.
RuleUnrecorded(c, via, a) ==
    /\ Fresh(c, via)
    /\ log' = log \cup {[call |-> c, answer |-> a, by |-> "rule"]}
    /\ offRecord' = offRecord \cup {c}
    /\ Reply(c, "post", via, a)
    /\ UNCHANGED <<now, up, rows, waiter, hookVars>>

\* submitGate: the row first, then the connection and the timer.
Hold(c, via) ==
    /\ Fresh(c, via)
    /\ now + Wait(c) <= MaxTime
    /\ rows' = [rows EXCEPT ![c] = NewRow(now + Wait(c), c \in Outward)]
    /\ waiter' = [waiter EXCEPT ![c] =
                    [conn |-> IF via = "live" THEN "held" ELSE "unheld",
                     due |-> now + Wait(c), closed |-> c \in Outward]]
    /\ Reply(c, "post", via, "held")
    /\ UNCHANGED <<now, up, log, offRecord, hookVars>>

\* recordGate threw: the route answers 500 and nothing is held.
HoldFails(c, via) ==
    /\ Fresh(c, via)
    /\ Reply(c, "post", via, "500")
    /\ UNCHANGED <<now, serverVars, hookVars>>

\* Mutant: the waiter is left in the map.
FinishKeepsWaiter(c, a, by) ==
    /\ rows' = [rows EXCEPT ![c] = Resolved(@, a, by)]
    /\ link' = IF waiter[c].conn = "held" THEN [link EXCEPT ![c] = a] ELSE link
    /\ log' = log \cup {[call |-> c, answer |-> a, by |-> by]}
    /\ UNCHANGED <<now, up, waiter, stray, offRecord, hookVars>>

\* finish: the waiter goes, the row is resolved, the held connection is answered.
Finish(c, a, by) ==
    /\ rows' = [rows EXCEPT ![c] = Resolved(@, a, by)]
    /\ link' = IF waiter[c].conn = "held" THEN [link EXCEPT ![c] = a] ELSE link
    /\ waiter' = [waiter EXCEPT ![c] = NoWaiter]
    /\ log' = log \cup {[call |-> c, answer |-> a, by |-> by]}
    /\ UNCHANGED <<now, up, stray, offRecord, hookVars>>

\* /gate/decide: any undecided request, whether or not a hook is attached.
Decide(c, a) ==
    /\ up
    /\ Undecided(c)
    /\ Finish(c, a, "human")

\* Mutant: only a request somebody is attached to times out.
TimeoutIfHeld(c) ==
    /\ waiter[c].conn = "held"
    /\ now >= waiter[c].due
    /\ Finish(c, TimeoutOutcome(waiter[c].closed), "timeout")

\* The timer armed for the request, which may be late.
Timeout(c) ==
    /\ Waiting(c)
    /\ now >= waiter[c].due
    /\ Finish(c, TimeoutOutcome(waiter[c].closed), "timeout")

\* /privacy/erase-history: every decided gate is deleted.
EraseHistory ==
    /\ up
    /\ \E c \in Calls : Decided(c)
    /\ rows' = [c \in Calls |-> IF Decided(c) THEN NoRow ELSE rows[c]]
    /\ offRecord' = offRecord \cup {c \in Calls : Decided(c)}
    /\ UNCHANGED <<now, up, waiter, stray, link, log, hookVars>>

\* The process dies: waiters, timers, connections and unread requests go with it.
Crash ==
    /\ up
    /\ up' = FALSE
    /\ waiter' = [c \in Calls |-> NoWaiter]
    /\ stray' = [c \in Calls |-> {}]
    /\ Interrupt({c \in Calls : link[c] \in Request \cup {"held"}})
    /\ UNCHANGED <<now, rows, log, offRecord>>

\* restoreGates at boot, before the first request is handled.
Expired(c) == Undecided(c) /\ rows[c].expires <= now
Restart ==
    /\ ~up
    /\ up' = TRUE
    /\ rows' = [c \in Calls |->
                  IF Expired(c)
                  THEN Resolved(rows[c], TimeoutOutcome(rows[c].closed), "restart")
                  ELSE rows[c]]
    /\ waiter' = [c \in Calls |->
                    IF Undecided(c) /\ ~Expired(c)
                    THEN [conn |-> "unheld", due |-> rows[c].expires, closed |-> rows[c].closed]
                    ELSE NoWaiter]
    /\ log' = log \cup {[call |-> c, answer |-> TimeoutOutcome(rows[c].closed),
                         by |-> "restart"] : c \in {d \in Calls : Expired(d)}}
    /\ UNCHANGED <<now, stray, link, offRecord, hookVars>>
-----------------------------------------------------------------------------
Persist(c) == Retry(c) \/ HearAnswer(c) \/ HearUnknown(c) \/ HearError(c) \/ GiveUp(c)

Handle(c, via) ==
    \/ \E kind \in Request : Attach(c, kind, via) \/ Replay(c, kind, via)
    \/ Unknown(c, via)
    \/ \E a \in RuleVerdicts(c) : RuleSpeaks(c, via, a) \/ RuleUnrecorded(c, via, a)
    \/ Hold(c, via)
    \/ HoldFails(c, via)

Next ==
    \/ Tick
    \/ \E c \in Calls : Start(c) \/ Persist(c) \/ Disconnect(c) \/ Timeout(c)
    \/ \E c \in Calls, via \in {"live", "stray"} : Handle(c, via)
    \/ \E c \in Calls, a \in {"deny", "approve"} : Decide(c, a)
    \/ EraseHistory
    \/ Crash
    \/ Restart

Spec == Init /\ [][Next]_vars

\* Time passes, a started hook runs on and its reads time out, a server that is
\* down is brought back, and its event loop serves timers and live requests.
\* Nothing is assumed of agents, people, the network or crashes.
Fairness ==
    /\ WF_vars(Tick)
    /\ WF_vars(Restart)
    /\ \A c \in Calls :
        /\ WF_vars(Persist(c))
        /\ WF_vars(ReadTimeout(c))
        /\ WF_vars(Timeout(c))
        /\ WF_vars(Handle(c, "live"))

FairSpec == Spec /\ Fairness
-----------------------------------------------------------------------------
(* Properties. *)

\* The promise, over the rulings on record and those ever spoken: see HeldCall.
Abs == INSTANCE HeldCall WITH
    standing <- {RulingOf(c) : c \in {d \in Calls : Decided(d)}},
    spoken <- log

\* Every variable keeps its type.
TypeOK ==
    /\ now \in Nat /\ up \in BOOLEAN
    /\ rows \in [Calls -> Row]
    /\ waiter \in [Calls -> Waiter]
    /\ stray \in [Calls -> SUBSET Request]
    /\ link \in [Calls -> Answer \cup Request \cup {"closed", "held", "404", "500"}]
    /\ hook \in [Calls -> {"new", "first", "retry", "backoff", "done"}]
    /\ sent \in [Calls -> BOOLEAN]
    /\ deadline \in [Calls -> Nat]
    /\ outcome \in [Calls -> Answer \cup {"none"}]
    /\ gaveUp \subseteq Calls
    /\ log \subseteq Ruling
    /\ offRecord \subseteq Calls

\* The queue in memory and the undecided rows on disk are the same requests,
\* under the same window and the same policy, through every crash and restart:
\* a row with no waiter would never time out, and a waiter with no undecided
\* row would answer a call that is already decided.
QueueMatchesRows ==
    \A c \in Calls :
        /\ Waiting(c) => up /\ waiter[c].due = rows[c].expires
                            /\ waiter[c].closed = rows[c].closed
        /\ up => (Waiting(c) <=> Undecided(c))
        /\ Undecided(c) => rows[c].closed = (c \in Outward)

\* Nothing but a person's approval makes a hook approve (and so skip the
\* agent's own prompt), and an outward call goes ahead only on a person's
\* approval or because its hook gave up: no timeout, no restart and no rule
\* lets it through, whatever was lost, repeated or answered late on the way.
ProceedsOnAWord ==
    \A c \in Calls :
        outcome[c] = "approve" \/ (c \in Outward /\ outcome[c] = "defer" /\ c \notin gaveUp)
        => [call |-> c, answer |-> "approve", by |-> "human"] \in log

\* While its record is kept a call is ruled on once, however many requests,
\* retries, timers and restarts touch it, and a hook that did not give up did
\* what that record says.
OneRuling ==
    \A c \in Calls \ offRecord :
        /\ \A r, q \in log : r.call = c /\ q.call = c => r = q
        /\ outcome[c] # "none" /\ c \notin gaveUp => outcome[c] = rows[c].ruling

\* What makes the two above inductive: every ruling is one its author may give,
\* a decided row is the ruling that was spoken, and every answer on a connection
\* or already acted upon was spoken for that call.
RulingsAccounted ==
    /\ log \subseteq Abs!Lawful
    /\ \A c \in Calls :
        /\ Decided(c) => RulingOf(c) \in log
        /\ c \notin offRecord =>
             \A r \in log : r.call = c => Decided(c) /\ r = RulingOf(c)
        /\ link[c] \in Answer => \E r \in log : r.call = c /\ r.answer = link[c]
        /\ outcome[c] # "none" /\ c \notin gaveUp =>
             \E r \in log : r.call = c /\ r.answer = outcome[c]
        /\ c \in gaveUp => outcome[c] = Abs!Fallback
HookMatchesLink ==
    \A c \in Calls :
        /\ link[c] # "closed" <=> hook[c] \in {"first", "retry"}
        /\ outcome[c] # "none" <=> hook[c] = "done"
        /\ c \in gaveUp => hook[c] = "done"
        /\ waiter[c].conn = "held" => link[c] = "held"

\* A recorded decision is never changed: it stands, or it is erased.
DecisionStands ==
    [][\A c \in Calls : Decided(c) => rows'[c] \in {rows[c], NoRow}]_vars

\* The window and the policy of a pending request are fixed when it is taken:
\* no reconnect, repeated POST or restart extends the one or relaxes the other.
WindowFixed ==
    [][\A c \in Calls : Undecided(c) /\ Undecided(c)' => rows'[c] = rows[c]]_vars

\* The gate implements its promise.
ImplementsHeldCall == Abs!ASpec
\* A hook always lets its call go, one way or the other, whatever the server
\* and the network do: an agent is never held for good.
EveryCallSettles == \A c \in Calls : hook[c] = "first" ~> hook[c] = "done"

\* Every request in the queue leaves it, by a person, the clock or a restart,
\* even if no hook is attached to it any more and the server keeps crashing.
EveryHoldResolves == \A c \in Calls : Undecided(c) ~> ~Undecided(c)
=============================================================================
