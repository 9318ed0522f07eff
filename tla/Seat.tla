-------------------------------- MODULE Seat --------------------------------
(***************************************************************************)
(* A project's seat, the agent that hands work to the others: the tray of  *)
(* reports it is woken for (seatreport.ts, seatwake.ts, seatwoken.ts,      *)
(* seatnotice.ts), the queue it hands out (seatqueue.ts) and the Lantern's *)
(* look, which serves both (lanternwatch.ts).  Reports, tasks and parked   *)
(* notices are rows of the database; what the seat was last told, and a    *)
(* prompt on its way to the chair, are the process's own.                  *)
(***************************************************************************)
EXTENDS Integers, FiniteSets

CONSTANTS
    Names,          \* names the seat gives the agents it opens
    Tasks,          \* the queue's rows
    MaxAttempts,    \* MAX_ATTEMPTS
    MaxReports,     \* bound: reports ever filed
    MaxMishaps      \* bound: prompts, panes and processes that are lost

None == "none"

ASSUME SeatConstants ==
    /\ None \notin Names /\ None \notin Tasks
    /\ MaxAttempts \in Nat \ {0} /\ MaxReports \in Nat /\ MaxMishaps \in Nat

VARIABLES
    chair,      \* the seat's row and its pane
    told,       \* the seat has been prompted and has not read its inbox since
    reports,    \* seat_report: each report's place in the tray
    parked,     \* seat_notice: a notice waits for the chair's box
    woken,      \* seatwoken: the fingerprint of the last wake
    field,      \* a finding of the project needs a person
    sending,    \* prompts on their way to the chair
    looking,    \* a look has flushed the notices and has not compared yet
    task,       \* seat_task
    alive,      \* names whose pane is there
    at,         \* the task each open agent was given
    handing,    \* the task claimed for a name whose agent is still to be opened
    mishaps,    \* counted against MaxMishaps
    missed,     \* history: the last word for the seat was lost, and none came since
    early,      \* history: rows freed before the agent they were claimed for opened
    handed      \* history: how often each task was handed out

trayVars  == <<chair, told, reports, parked, woken, field, sending, looking, missed>>
queueVars == <<task, alive, at, handing, early, handed>>
seatVars  == <<trayVars, queueVars, mishaps>>

ReportIds == 1 .. MaxReports
Look      == 0          \* the prompt of a look, among those that carry a report
Flush     == -1         \* and the one that carries what was parked
NotWoken  == [field |-> FALSE, waiting |-> -1]

SeatInit ==
    /\ chair = "free" /\ told = TRUE
    /\ reports = [r \in ReportIds |-> "unfiled"]
    /\ parked = FALSE /\ woken = NotWoken /\ field = FALSE
    /\ sending = {} /\ looking = FALSE
    /\ task = [t \in Tasks |-> [by |-> None, tries |-> 0, done |-> FALSE]]
    /\ alive = {} /\ at = [n \in Names |-> None] /\ handing = [n \in Names |-> None]
    /\ mishaps = 0 /\ missed = FALSE /\ early = {}
    /\ handed = [t \in Tasks |-> 0]

-----------------------------------------------------------------------------
(* The tray. *)

\* unreadWorthWaking
Waiting(rs) == Cardinality({r \in ReportIds : rs[r] = "urgent"})

\* The row says somebody sits there; its pane may be gone.
Seated == chair # "empty"

\* addReport and, for one worth a turn, wakeForReport up to its send: the field's
\* half of the fingerprint stays as it was.
File(r, urgent) ==
    /\ reports[r] = "unfiled" /\ \A q \in 1 .. r - 1 : reports[q] # "unfiled"
    /\ reports' = [reports EXCEPT ![r] = IF urgent THEN "urgent" ELSE "routine"]
    /\ IF urgent /\ Seated
       THEN /\ woken' = [field |-> woken.field, waiting |-> Waiting(reports')]
            /\ sending' = sending \cup {r}
       ELSE UNCHANGED <<woken, sending>>
    /\ missed' = (missed \/ (urgent /\ ~Seated))
    /\ UNCHANGED <<chair, told, parked, field, looking, queueVars, mishaps>>

\* Mutant: what finds the box full is gone.
ParkDropping(p) ==
    /\ chair = "busy" /\ p \in sending
    /\ sending' = sending \ {p}
    /\ UNCHANGED <<chair, told, reports, parked, woken, field, looking, missed, queueVars, mishaps>>

\* promptSeat: text in the box or a turn in flight parks the notice.
Park(p) ==
    /\ chair = "busy" /\ p \in sending
    /\ sending' = sending \ {p} /\ parked' = TRUE
    /\ UNCHANGED <<chair, told, reports, woken, field, looking, missed, queueVars, mishaps>>

\* promptSeat, promptAgent: an idle empty box is typed into, and a turn starts.
TypedIn(p) ==
    /\ chair = "free" /\ p \in sending
    /\ sending' = sending \ {p}
    /\ chair' = "busy" /\ told' = TRUE /\ missed' = FALSE
    /\ UNCHANGED <<reports, parked, woken, field, looking, queueVars, mishaps>>

Mishap == mishaps < MaxMishaps /\ mishaps' = mishaps + 1

\* "gone" or "stuck": promptSeat does not look at the outcome.
TypingFails(p) ==
    /\ Mishap
    /\ chair = "free" /\ p \in sending
    /\ sending' = sending \ {p} /\ missed' = TRUE
    /\ UNCHANGED <<chair, told, reports, parked, woken, field, looking, queueVars>>

\* seated finds nobody in the pane.
NobodyThere(p) ==
    /\ chair \in {"gone", "empty"} /\ p \in sending
    /\ sending' = sending \ {p} /\ missed' = TRUE
    /\ UNCHANGED <<chair, told, reports, parked, woken, field, looking, queueVars, mishaps>>

\* UserPromptSubmit: the person's own prompt carries what was parked.
PromptCarries ==
    /\ chair = "busy" /\ parked
    /\ parked' = FALSE /\ told' = TRUE /\ missed' = FALSE
    /\ UNCHANGED <<chair, reports, woken, field, sending, looking, queueVars, mishaps>>

\* drainReports
ReadInbox ==
    /\ chair \in {"free", "busy"}
    /\ reports' = [r \in ReportIds |-> IF reports[r] = "unfiled" THEN "unfiled" ELSE "read"]
    /\ told' = FALSE
    /\ UNCHANGED <<chair, parked, woken, field, sending, looking, missed, queueVars, mishaps>>

-----------------------------------------------------------------------------
(* The chair. *)

TurnEnds ==
    /\ chair = "busy" /\ chair' = "free"
    /\ UNCHANGED <<told, reports, parked, woken, field, sending, looking, missed, queueVars, mishaps>>

\* The person types in the box or the seat works on something of its own.
BoxFills ==
    /\ chair = "free" /\ chair' = "busy"
    /\ UNCHANGED <<told, reports, parked, woken, field, sending, looking, missed, queueVars, mishaps>>

\* The pane closes with its row still open, and whatever was parked for it.
PaneGoes ==
    /\ Mishap
    /\ chair \in {"free", "busy"} /\ chair' = "gone"
    /\ missed' = (missed \/ told \/ parked) /\ told' = FALSE /\ parked' = FALSE
    /\ UNCHANGED <<reports, woken, field, sending, looking, queueVars>>

\* openSeat: the opening prompt carries the tray.
SeatOpens ==
    /\ chair \in {"gone", "empty"} /\ chair' = "busy"
    /\ told' = TRUE /\ missed' = FALSE
    /\ UNCHANGED <<reports, parked, woken, field, sending, looking, queueVars, mishaps>>

\* adoptSeat, and a seat that finds its relaunched window: no prompt is given.
SeatAdopted ==
    /\ chair \in {"gone", "empty"} /\ chair' = "busy"
    /\ missed' = (missed \/ Waiting(reports) > 0)
    /\ UNCHANGED <<told, reports, parked, woken, field, sending, looking, queueVars, mishaps>>

\* closeSeat
SeatCloses ==
    /\ Mishap
    /\ Seated /\ chair' = "empty"
    /\ missed' = (missed \/ told \/ parked) /\ told' = FALSE /\ parked' = FALSE
    /\ UNCHANGED <<reports, woken, field, sending, looking, queueVars>>

FieldChanges ==
    /\ field' = ~field
    /\ UNCHANGED <<chair, told, reports, parked, woken, sending, looking, missed, queueVars, mishaps>>

-----------------------------------------------------------------------------
(* The queue. *)

Free(row) == row.by = None /\ ~row.done

\* Mutant: the attempt is counted when the work comes back, and it never does.
ClaimUncounted(t, n) ==
    /\ task[t].tries < MaxAttempts /\ Free(task[t])
    /\ n \notin alive /\ handing[n] = None
    /\ task' = [task EXCEPT ![t].by = n]
    /\ handing' = [handing EXCEPT ![n] = t]
    /\ handed' = [handed EXCEPT ![t] = @ + 1]
    /\ UNCHANGED <<trayVars, alive, at, early, mishaps>>

\* Mutant: the route's own look is trusted.
ClaimAny(t, n) ==
    /\ task[t].tries < MaxAttempts /\ ~task[t].done
    /\ n \notin alive /\ handing[n] = None
    /\ task' = [task EXCEPT ![t].by = n, ![t].tries = @ + 1]
    /\ handing' = [handing EXCEPT ![n] = t]
    /\ handed' = [handed EXCEPT ![t] = @ + 1]
    /\ UNCHANGED <<trayVars, alive, at, early, mishaps>>

\* task/claim, for a name whose agent the seat opens next.
Claim(t, n) ==
    /\ task[t].tries < MaxAttempts /\ Free(task[t])
    /\ n \notin alive /\ handing[n] = None
    /\ task' = [task EXCEPT ![t].by = n, ![t].tries = @ + 1]
    /\ handing' = [handing EXCEPT ![n] = t]
    /\ handed' = [handed EXCEPT ![t] = @ + 1]
    /\ UNCHANGED <<trayVars, alive, at, early, mishaps>>

\* start and the first prompt: a name whose pane is gone is free again.
AgentOpens(n) ==
    /\ handing[n] # None /\ n \notin alive
    /\ alive' = alive \cup {n} /\ at' = [at EXCEPT ![n] = handing[n]]
    /\ handing' = [handing EXCEPT ![n] = None]
    /\ UNCHANGED <<trayVars, task, early, handed, mishaps>>

\* The seat never gets to it.
NeverOpens(n) ==
    /\ handing[n] # None /\ handing' = [handing EXCEPT ![n] = None]
    /\ UNCHANGED <<trayVars, task, alive, at, early, handed, mishaps>>

AgentGoes(n) ==
    /\ n \in alive /\ alive' = alive \ {n} /\ at' = [at EXCEPT ![n] = None]
    /\ UNCHANGED <<trayVars, task, handing, early, handed, mishaps>>

\* task/finish, whoever has the row.
Finish(t) ==
    /\ ~task[t].done /\ task' = [task EXCEPT ![t].done = TRUE]
    /\ UNCHANGED <<trayVars, alive, at, handing, early, handed, mishaps>>

\* Mutant: a freed row is as good as new.
ReleasedAnew(row) == [row EXCEPT !.by = None, !.tries = 0]

\* releaseTask: the attempt it cost is kept.
Released(row) == [row EXCEPT !.by = None]

\* Mutant: only rows that would be offered again are freed.
VanishedOffered ==
    {t \in Tasks : ~task[t].done /\ task[t].by \in Names \ alive /\ task[t].tries < MaxAttempts}

\* releaseVanished
Vanished == {t \in Tasks : ~task[t].done /\ task[t].by \in Names \ alive}

-----------------------------------------------------------------------------
(* The Lantern's look, and the process. *)

\* wakeSeats: rows of vanished agents are freed, and what is parked is sent.
LookStarts ==
    /\ Seated /\ ~looking /\ Look \notin sending
    /\ looking' = TRUE
    /\ task' = [t \in Tasks |-> IF t \in Vanished THEN Released(task[t]) ELSE task[t]]
    /\ early' = early \cup {t \in Vanished : handing[task[t].by] = t}
    /\ IF parked /\ chair \in {"free", "busy"}
       THEN parked' = FALSE /\ sending' = sending \cup {Flush}
       ELSE UNCHANGED <<parked, sending>>
    /\ UNCHANGED <<chair, told, reports, woken, field, missed, alive, at, handing, handed, mishaps>>

\* wakeSeats: the fingerprint is noted before the prompt is sent; a first sighting,
\* a clear field and an overdue look with nothing new are not worth one.
LookEnds ==
    LET now == [field |-> field, waiting |-> Waiting(reports)]
    IN  /\ looking /\ Flush \notin sending
        /\ looking' = FALSE
        /\ woken' = now
        /\ sending' = IF now # woken /\ woken # NotWoken /\ (field \/ now.waiting > 0)
                      THEN sending \cup {Look} ELSE sending
        /\ UNCHANGED <<chair, told, reports, parked, field, missed, queueVars, mishaps>>

\* The map of wakes and the prompts on their way die with the process.
ServerRestarts ==
    /\ Mishap
    /\ woken' = NotWoken /\ sending' = {} /\ looking' = FALSE
    /\ missed' = (missed \/ sending # {})
    /\ UNCHANGED <<chair, told, reports, parked, field, queueVars>>

Prompts == ReportIds \cup {Flush, Look}

SeatNext ==
    \/ \E r \in ReportIds, urgent \in BOOLEAN : File(r, urgent)
    \/ \E p \in Prompts : Park(p) \/ TypedIn(p) \/ TypingFails(p) \/ NobodyThere(p)
    \/ PromptCarries \/ ReadInbox
    \/ TurnEnds \/ BoxFills \/ PaneGoes \/ SeatOpens \/ SeatAdopted \/ SeatCloses
    \/ FieldChanges
    \/ \E t \in Tasks : Finish(t) \/ \E n \in Names : Claim(t, n)
    \/ \E n \in Names : AgentOpens(n) \/ NeverOpens(n) \/ AgentGoes(n)
    \/ LookStarts \/ LookEnds \/ ServerRestarts

\* promptSeat comes back: it waits ten seconds at most.
Arrives(p) == Park(p) \/ TypedIn(p) \/ NobodyThere(p)

\* The watch is on; a turn ends; whoever keeps filling the box keeps submitting it;
\* a seat told to read its inbox reads it.
SeatFairness ==
    /\ WF_seatVars(LookStarts) /\ WF_seatVars(LookEnds)
    /\ \A p \in Prompts : WF_seatVars(Arrives(p))
    /\ WF_seatVars(TurnEnds) /\ SF_seatVars(PromptCarries)
    /\ WF_seatVars(told /\ ReadInbox)

SeatSpec == SeatInit /\ [][SeatNext]_seatVars /\ SeatFairness

-----------------------------------------------------------------------------
(* Properties. *)

\* The chair, the tray and the queue keep their shape: a row in somebody's hands
\* has cost an attempt, and an agent works on one task at a time.
SeatTypeOK ==
    /\ chair \in {"free", "busy", "gone", "empty"} /\ told \in BOOLEAN
    /\ reports \in [ReportIds -> {"unfiled", "urgent", "routine", "read"}]
    /\ parked \in BOOLEAN /\ field \in BOOLEAN /\ looking \in BOOLEAN
    /\ woken \in [field : BOOLEAN, waiting : -1 .. MaxReports]
    /\ sending \subseteq Prompts
    /\ task \in [Tasks -> [by : Names \cup {None}, tries : 0 .. MaxAttempts, done : BOOLEAN]]
    /\ \A t \in Tasks : task[t].by # None => task[t].tries > 0
    /\ alive \subseteq Names /\ at \in [Names -> Tasks \cup {None}]
    /\ handing \in [Names -> Tasks \cup {None}]
    /\ \A n \in Names : at[n] # None <=> n \in alive
    /\ mishaps \in 0 .. MaxMishaps /\ missed \in BOOLEAN
    /\ early \subseteq Tasks /\ handed \in [Tasks -> Nat]

\* "Two seats waking at once cannot both take the same row" (seatqueue.ts): of the
\* agents at work, no two are on one unfinished task - unless a look freed its row
\* between the claim and the opening of the agent it was claimed for.
OneAtWork ==
    \A t \in Tasks \ early : \A m, n \in alive :
        at[m] = t /\ at[n] = t /\ ~task[t].done => m = n

\* An item that has beaten MAX_ATTEMPTS agents is never given to another, through
\* every death, release and new claim.
NeverThird == \A t \in Tasks : handed[t] <= MaxAttempts

\* Work handed to an agent whose pane is gone does not stay hidden from the queue:
\* it is freed, finished, or its name is at work again, or the chair is emptied.
WorkComesBack ==
    \A t \in Tasks, n \in Names :
        task[t].by = n /\ ~task[t].done /\ n \notin alive
            ~> task[t].by # n \/ task[t].done \/ n \in alive \/ ~Seated

\* A report that an agent is stopped is read by the seat, however its prompts meet
\* the person's text, if no word to the seat is left lost for good.
BlockerHeard ==
    <>[]~missed => \A r \in ReportIds : reports[r] = "urgent" ~> reports[r] = "read"
=============================================================================
