----------------------------- MODULE Reminders -----------------------------
(***************************************************************************)
(* reminders.ts over wakeup.ts: rows with a due time, one timer that       *)
(* sleeps until the next thing to do, a run that claims what is due and    *)
(* asks again about what nobody answered, a laptop that is suspended and a *)
(* server that restarts.                                                   *)
(*                                                                         *)
(* Two clocks: `now` is the wall clock the rows are written in, and the    *)
(* timer counts ticks during which the machine is awake.  A tick is the    *)
(* timer's floor.  Rows are numbered in the order they were inserted.      *)
(***************************************************************************)
EXTENDS Integers, Sequences, FiniteSets, FiniteSetsExt

CONSTANTS
    Budget,     \* how many unanswered alarms ask again
    NagEvery,   \* NAG_EVERY_MS, in ticks
    NagMax,     \* NAG_MAX
    Cap,        \* capMs, in ticks
    MaxRows,    \* bound: reminders ever added
    MaxTime     \* bound: the clock stops here

ASSUME ReminderConstants ==
    /\ Budget \in Nat \ {0} /\ NagMax \in Nat
    /\ NagEvery \in Nat \ {0} /\ Cap \in Nat \ {0}
    /\ MaxRows \in Nat /\ MaxTime \in Nat

VARIABLES
    now,
    up,         \* the server process is running
    rows,       \* the reminders table
    nags,       \* how often and when each alarm was asked about: dies with the process
    timer,      \* wakeup.ts's one timer
    running,    \* fire() has been entered and its `finally` has not run
    late        \* history: ticks awake, without a failure, that a row has been owed something

vars == <<now, up, rows, nags, timer, running, late>>

Ids    == 1 .. MaxRows
Row    == [due : Nat, fired : BOOLEAN, at : Nat, answered : BOOLEAN, erased : BOOLEAN]
Off    == [armed |-> FALSE, left |-> 0]
NewRow(due) == [due |-> due, fired |-> FALSE, at |-> 0, answered |-> FALSE, erased |-> FALSE]
NoNags == [i \in Ids |-> [known |-> FALSE, at |-> 0, n |-> 0]]

Init ==
    /\ now = 0 /\ up = TRUE
    /\ rows = <<>>
    /\ nags = NoNags
    /\ timer = Off
    /\ running = TRUE
    /\ late = [i \in Ids |-> 0]

-----------------------------------------------------------------------------
(* What the statements select. *)

Pending(rs) == {i \in DOMAIN rs : ~rs[i].fired /\ ~rs[i].answered}
Open(rs)    == {i \in DOMAIN rs : rs[i].fired /\ ~rs[i].answered}

\* ORDER BY due LIMIT Budget, as nagUnacked reads the open alarms.
NagWindow(rs) ==
    {i \in Open(rs) :
        Cardinality({j \in Open(rs) : rs[j].due < rs[i].due
                                      \/ (rs[j].due = rs[i].due /\ j < i)}) < Budget}

\* LIMIT Budget in the table's own order, as nextReminderWake reads them.
WakeWindow(rs) == {i \in Open(rs) : Cardinality({j \in Open(rs) : j < i}) < Budget}

\* nags.get(id), or an alarm not asked about yet.
Seen(rs, ns, i) == IF ns[i].known THEN ns[i] ELSE [known |-> TRUE, at |-> rs[i].at, n |-> 0]

\* May this alarm be asked about now?
MayNag(rs, ns, i) ==
    Seen(rs, ns, i).n < NagMax /\ now - Seen(rs, ns, i).at >= NagEvery

\* Mutant: only the due times are looked at.
WakesDueOnly(rs, ns) == {rs[i].due : i \in Pending(rs)}

\* The moments nextReminderWake takes the least of.
Wakes(rs, ns) ==
    {rs[i].due : i \in Pending(rs)}
    \cup {Seen(rs, ns, i).at + NagEvery :
            i \in {j \in WakeWindow(rs) : Seen(rs, ns, j).n < NagMax}}

\* Mutant: no floor under the delay.
DelayUnfloored(at) == IF at - now < Cap THEN at - now ELSE Cap

\* arm's delay: at least the floor, at most the cap.
Delay(at) == LET d == IF at - now > 1 THEN at - now ELSE 1 IN IF d < Cap THEN d ELSE Cap

\* arm(): the timer for the next thing to do; off if there is none.
Sleep(rs, ns) ==
    timer' = IF Wakes(rs, ns) = {} THEN Off
             ELSE [armed |-> TRUE, left |-> Delay(Min(Wakes(rs, ns)))]

\* arm(), and the table cannot be read: look again at the cap.
SleepBlind == timer' = [armed |-> TRUE, left |-> Cap]

\* Nothing is held against a timer set before a failure.
Forgiven == late' = [i \in Ids |-> 0]

\* arm() called by a writer: while a run is on, its end re-arms.
WriterArm(rs) ==
    \/ running /\ timer' = Off /\ UNCHANGED late
    \/ ~running /\ Sleep(rs, nags) /\ UNCHANGED late
    \/ ~running /\ SleepBlind /\ Forgiven

\* Something the next run would do for row i.
DueNow(i) == i \in Pending(rows) /\ rows[i].due <= now
AskNow(i) == i \in NagWindow(rows) /\ MayNag(rows, nags, i)
-----------------------------------------------------------------------------
(* The person. *)

\* Mutant: the writer does not re-arm the timer.
AddUnarmed(due) ==
    /\ up
    /\ Len(rows) < MaxRows
    /\ rows' = Append(rows, NewRow(due))
    /\ UNCHANGED <<now, up, nags, timer, running, late>>

\* addReminder; a due time in the past is taken.
Add(due) ==
    /\ up
    /\ Len(rows) < MaxRows
    /\ rows' = Append(rows, NewRow(due))
    /\ WriterArm(rows')
    /\ UNCHANGED <<now, up, nags, running>>

\* ackReminder, cancelReminder: the timer is left as it is.
AnswerRow(i) ==
    /\ up
    /\ i \in DOMAIN rows /\ ~rows[i].answered
    /\ rows' = [rows EXCEPT ![i].answered = TRUE]
    /\ UNCHANGED <<now, up, nags, timer, running, late>>

\* snoozeReminder: the old row is closed and another opened, answered or not.  In
\* the hour a clock goes back, the local time asked for may name a moment past.
Snooze(i, due) ==
    /\ up
    /\ i \in DOMAIN rows /\ ~rows[i].erased
    /\ Len(rows) < MaxRows
    /\ rows' = Append([rows EXCEPT ![i].answered = TRUE], NewRow(due))
    /\ WriterArm(rows')
    /\ UNCHANGED <<now, up, nags, running>>

\* eraseHistory, or pruneOldRows with its cutoff: what was answered or cancelled
\* is gone, and its place never taken again.
Forget(cutoff) ==
    /\ up
    /\ rows' = [i \in DOMAIN rows |->
                  IF rows[i].answered /\ rows[i].due < cutoff
                  THEN [rows[i] EXCEPT !.erased = TRUE] ELSE rows[i]]
    /\ UNCHANGED <<now, up, nags, timer, running, late>>
-----------------------------------------------------------------------------
(* The timer and its run. *)

Fire ==
    /\ timer.armed /\ timer.left = 0
    /\ timer' = Off
    /\ running' = TRUE
    /\ UNCHANGED <<now, up, rows, nags, late>>

\* Mutant: the claim does not ask whether a row has fired already.
DrainedAgain(rs) ==
    [i \in DOMAIN rs |->
        IF ~rs[i].answered /\ rs[i].due <= now
        THEN [rs[i] EXCEPT !.fired = TRUE, !.at = now] ELSE rs[i]]

\* drainDue: everything due is claimed in one statement.
Drained(rs) ==
    [i \in DOMAIN rs |->
        IF i \in Pending(rs) /\ rs[i].due <= now
        THEN [rs[i] EXCEPT !.fired = TRUE, !.at = now] ELSE rs[i]]

\* nagUnacked: what it asks about is counted, what is not in its window forgotten.
Nagged(rs, ns) ==
    [i \in Ids |->
        IF i \notin NagWindow(rs) THEN NoNags[i]
        ELSE IF MayNag(rs, ns, i)
             THEN [known |-> TRUE, at |-> now, n |-> Seen(rs, ns, i).n + 1]
             ELSE Seen(rs, ns, i)]

\* run(), and the `finally` that re-arms.
Run ==
    /\ up /\ running
    /\ UNCHANGED <<now, up>>
    /\ rows' = Drained(rows)
    /\ nags' = Nagged(rows', nags)
    /\ running' = FALSE
    /\ \/ /\ Sleep(rows', nags')
          /\ late' = [i \in Ids |-> IF (DueNow(i) \/ AskNow(i))' THEN late[i] ELSE 0]
       \/ SleepBlind /\ Forgiven

\* A statement throws, the claim or the one after it, and the timer is set again.
RunFails ==
    /\ up /\ running
    /\ running' = FALSE
    /\ rows' \in {rows, Drained(rows)}
    /\ Sleep(rows', nags) \/ SleepBlind
    /\ Forgiven
    /\ UNCHANGED <<now, up, nags>>
-----------------------------------------------------------------------------
(* The machine. *)

\* A tick awake: a timer or a run that is ready goes first.
Tick ==
    /\ now < MaxTime
    /\ up => ~running /\ (timer.armed => timer.left > 0)
    /\ now' = now + 1
    /\ timer' = IF timer.armed THEN [timer EXCEPT !.left = @ - 1] ELSE timer
    /\ late' = [i \in Ids |-> IF up /\ (DueNow(i) \/ AskNow(i)) THEN late[i] + 1 ELSE 0]
    /\ UNCHANGED <<up, rows, nags, running>>

\* The lid is closed for a tick: the wall clock goes on, the timer does not.
Suspend ==
    /\ now < MaxTime
    /\ ~running
    /\ now' = now + 1
    /\ UNCHANGED <<up, rows, nags, timer, running, late>>

Crash ==
    /\ up
    /\ up' = FALSE
    /\ nags' = NoNags
    /\ timer' = Off
    /\ running' = FALSE
    /\ late' = [i \in Ids |-> 0]
    /\ UNCHANGED <<now, rows>>

\* startReminderTick: boot is just the first run.
Restart ==
    /\ ~up
    /\ up' = TRUE
    /\ running' = TRUE
    /\ UNCHANGED <<now, rows, nags, timer, late>>

Next ==
    \/ \E due \in 0 .. MaxTime : Add(due) \/ (\E i \in Ids : Snooze(i, due))
    \/ \E i \in Ids : AnswerRow(i)
    \/ \E cutoff \in 0 .. now \cup {MaxTime + 1} : Forget(cutoff)
    \/ Fire
    \/ Run
    \/ RunFails
    \/ Tick
    \/ Suspend
    \/ Crash
    \/ Restart

Spec == Init /\ [][Next]_vars
-----------------------------------------------------------------------------
\* Every variable keeps its type; the timer's delay is never negative.
TypeOK ==
    /\ now \in Nat /\ up \in BOOLEAN /\ running \in BOOLEAN
    /\ rows \in Seq(Row) /\ Len(rows) <= MaxRows
    /\ nags \in [Ids -> [known : BOOLEAN, at : Nat, n : 0 .. NagMax]]
    /\ timer \in [armed : BOOLEAN, left : 0 .. Cap]
    /\ late \in [Ids -> Nat]

\* The cap, and a floor for every other write: a write re-arms, so it can put a
\* run that was about to start off by the floor, and by no more.
Lateness == Cap + Len(rows) - 1

\* A reminder that is due fires within that much of the machine being awake, for
\* every order of adding, snoozing, suspending, restarting and failing runs: no
\* sleeping timer is ever set for too late a moment.
FiresOnTime == \A i \in Ids : DueNow(i) => late[i] <= Lateness

\* An unanswered alarm that may be asked about again is, within as much.
\* wakeup.ts:15: "an earlier due time than the one being waited for is the only
\* change a sleeping timer cannot see."  An answer is another: it lets the next
\* alarm into a full window while no timer is set.
AsksOnTime == \A i \in Ids : AskNow(i) => late[i] <= Lateness

\* The alarms no other ever kept out of the window, in either of its orders.
Foremost(rs) ==
    {i \in Open(rs) :
        Cardinality({j \in DOMAIN rs \ {i} :
                        rs[j].fired /\ (rs[j].due <= rs[i].due \/ j < i)}) < Budget}

\* One that was in the window from the moment it fired is asked about again on
\* time, whatever waits outside, is answered, fails, sleeps or is erased meanwhile.
ForemostAsks == \A i \in Foremost(rows) : AskNow(i) => late[i] <= Lateness

\* Whether a reminder fired has one answer for ever, and when: a claim, a
\* snooze or a restart never fires a row a second time.
FiredOnce ==
    [][\A i \in DOMAIN rows :
        rows[i].fired => i \in DOMAIN rows' /\ rows'[i].fired /\ rows'[i].at = rows[i].at]_vars
=============================================================================
