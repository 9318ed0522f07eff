-------------------------- MODULE RemindersProofs --------------------------
(***************************************************************************)
(* Proofs about the reminders and their one timer, for any number of       *)
(* reminders, any cap and any nagging, however writes, runs, failures,     *)
(* suspends and restarts are ordered.                                      *)
(***************************************************************************)
EXTENDS Reminders, FiniteSetTheorems, SequenceTheorems, WellFoundedInduction, TLAPS

Nag      == [known : BOOLEAN, at : Nat, n : 0 .. NagMax]
NagTable == [Ids -> Nag]
TimerRec == [armed : BOOLEAN, left : 0 .. Cap]

\* A timer that is off counts nothing.
TimerRests == ~timer.armed => timer.left = 0

\* Nothing runs, sleeps or is owed while the process is down.
DownRests == ~up => ~running /\ ~timer.armed /\ \A i \in Ids : late[i] = 0

\* While something is pending, a run is on or the timer is.
TimerSet == up /\ ~running /\ Pending(rows) # {} => timer.armed

\* What is not due yet has been owed nothing.
NotYetLate ==
    \A i \in Ids : i \notin DOMAIN rows \/ (i \in Pending(rows) /\ rows[i].due > now)
                      => late[i] = 0

\* What is due has waited no longer than the timer was ever set for, and the
\* timer comes in what is left of that.
DueSoon == \A i \in Ids : DueNow(i) => late[i] + timer.left <= Lateness

RemindersInv == TypeOK /\ TimerRests /\ DownRests /\ TimerSet /\ NotYetLate /\ DueSoon

-----------------------------------------------------------------------------
(* Sets of moments, and rows. *)

\* A set of natural numbers has a least one.
LEMMA LeastMoment ==
    ASSUME NEW W, W \subseteq Nat, W # {}
    PROVE  Min(W) \in W /\ \A w \in W : Min(W) <= w
<1> DEFINE Less == OpToRel(<, Nat)
<1>1. IsWellFoundedOn(Less, Nat)
    BY NatLessThanWellFounded, Zenon
<1>2. \A x, y \in Nat : <<y, x>> \in Less <=> y < x
    BY DEF OpToRel
<1> HIDE DEF Less
<1>3. PICK x \in W : \A y \in W : ~ (<<y, x>> \in Less)
    BY <1>1, WFMin
<1>4. ASSUME NEW y \in W PROVE x <= y
    <2>1. x \in Nat /\ y \in Nat /\ ~ (<<y, x>> \in Less)
        BY <1>3
    <2>2. ~ (y < x)
        BY <1>2, <2>1
    <2> QED
        BY <2>1, <2>2
<1> QED
    BY <1>4 DEF Min

\* A row of a table, and the rows of one with a row changed.
LEMMA TableOf ==
    ASSUME NEW n \in Nat, NEW rs \in [1 .. n -> Row]
    PROVE  rs \in Seq(Row) /\ Len(rs) = n /\ DOMAIN rs = 1 .. n
    OBVIOUS

LEMMA Tables ==
    ASSUME NEW rs \in Seq(Row)
    PROVE  /\ Len(rs) \in Nat /\ DOMAIN rs = 1 .. Len(rs)
           /\ \A i \in DOMAIN rs :
                 /\ rs[i] \in Row /\ rs[i].due \in Nat /\ rs[i].at \in Nat
                 /\ rs[i].fired \in BOOLEAN /\ rs[i].answered \in BOOLEAN
<1>1. Len(rs) \in Nat /\ DOMAIN rs = 1 .. Len(rs) /\ \A i \in DOMAIN rs : rs[i] \in Row
    OBVIOUS
<1> QED
    BY <1>1 DEF Row

\* How often and when an alarm was asked about is typed, on record or not.
LEMMA SeenType ==
    ASSUME NEW rs \in Seq(Row), NEW ns \in NagTable, NEW i \in DOMAIN rs, Len(rs) <= MaxRows
    PROVE  i \in Ids /\ Seen(rs, ns, i) \in Nag
<1>1. i \in Ids
    BY Tables, ReminderConstants DEF Ids
<1>2. [known |-> TRUE, at |-> rs[i].at, n |-> 0] \in Nag
    BY Tables, ReminderConstants DEF Nag
<1> QED
    BY <1>1, <1>2 DEF Seen, NagTable

\* The timer set for the next thing to do is off only when there is none, and is
\* due at once when a moment has come.
LEMMA SleepsSoon ==
    ASSUME NEW rs \in Seq(Row), NEW ns \in NagTable, Len(rs) <= MaxRows, now \in Nat, Sleep(rs, ns)
    PROVE  /\ timer' \in TimerRec
           /\ ~timer'.armed => timer'.left = 0
           /\ \A i \in Pending(rs) : timer'.armed /\ (rs[i].due <= now => timer'.left <= 1)
           /\ \A i \in WakeWindow(rs) :
                 Seen(rs, ns, i).n < NagMax =>
                    timer'.armed /\ (now - Seen(rs, ns, i).at >= NagEvery => timer'.left <= 1)
<1> DEFINE W == Wakes(rs, ns)
<1>1. \A i \in Pending(rs) : i \in DOMAIN rs /\ rs[i].due \in W
    BY DEF Pending, Wakes
<1>2. \A i \in WakeWindow(rs) : i \in DOMAIN rs
    BY DEF WakeWindow, Open
<1>3. \A i \in WakeWindow(rs) : Seen(rs, ns, i).n < NagMax => Seen(rs, ns, i).at + NagEvery \in W
    BY DEF Wakes
<1>4. \A i \in DOMAIN rs : rs[i].due \in Nat /\ Seen(rs, ns, i).at \in Nat
    BY Tables, SeenType DEF Nag
<1>5. W \subseteq Nat
    BY <1>2, <1>4, ReminderConstants DEF Wakes, Pending
<1>6. timer' = IF W = {} THEN Off ELSE [armed |-> TRUE, left |-> Delay(Min(W))]
    BY DEF Sleep
<1> HIDE DEF W
<1>7. CASE W = {}
    BY <1>1, <1>3, <1>6, <1>7, ReminderConstants DEF Off, TimerRec
<1>8. CASE W # {}
    <2>1. Min(W) \in Nat /\ \A w \in W : Min(W) <= w
        BY <1>5, <1>8, LeastMoment
    <2>2. /\ Delay(Min(W)) \in 0 .. Cap
          /\ Min(W) <= now => Delay(Min(W)) <= 1
        BY <2>1, ReminderConstants DEF Delay
    <2>3. timer' = [armed |-> TRUE, left |-> Delay(Min(W))]
        BY <1>6, <1>8
    <2>4. timer' \in TimerRec /\ timer'.armed /\ timer'.left = Delay(Min(W))
        BY <2>2, <2>3 DEF TimerRec
    <2>5. \A w \in W : w <= now => timer'.left <= 1
        BY <1>5, <2>1, <2>2, <2>4
    <2>6. \A i \in Pending(rs) : rs[i].due <= now => timer'.left <= 1
        BY <1>1, <2>5
    <2>7. ASSUME NEW i \in WakeWindow(rs), Seen(rs, ns, i).n < NagMax,
                 now - Seen(rs, ns, i).at >= NagEvery
          PROVE  timer'.left <= 1
        <3>1. Seen(rs, ns, i).at + NagEvery \in W
            BY <1>3, <2>7
        <3>2. Seen(rs, ns, i).at + NagEvery <= now
            BY <1>2, <1>4, <2>7, ReminderConstants
        <3> QED
            BY <2>5, <3>1, <3>2
    <2> QED
        BY <2>4, <2>6, <2>7
<1> QED
    BY <1>7, <1>8

\* So is the timer set when the table could not be read: within the cap.
LEMMA SleepsBlind ==
    ASSUME SleepBlind
    PROVE  timer' \in TimerRec /\ timer'.armed /\ timer'.left = Cap
    BY ReminderConstants DEF SleepBlind, TimerRec

-----------------------------------------------------------------------------
(* The person's steps. *)

\* What the rows are after a write: those there were, answered at most, and one
\* more that waits.
Grown(due) ==
    /\ rows' \in Seq(Row) /\ Len(rows') = Len(rows) + 1 /\ Len(rows) < MaxRows
    /\ \A j \in DOMAIN rows :
          /\ j \in DOMAIN rows' /\ j # Len(rows')
          /\ rows'[j].due = rows[j].due /\ rows'[j].at = rows[j].at
          /\ rows'[j].fired = rows[j].fired /\ (rows[j].answered => rows'[j].answered)
    /\ rows'[Len(rows')].due = due
    /\ ~rows'[Len(rows')].fired /\ ~rows'[Len(rows')].answered

LEMMA AppendGrows ==
    ASSUME TypeOK, NEW rs \in Seq(Row), Len(rs) = Len(rows), Len(rows) < MaxRows,
           NEW due \in Nat,
           rows' = Append(rs, NewRow(due)),
           \A j \in DOMAIN rows :
              /\ rs[j].due = rows[j].due /\ rs[j].at = rows[j].at
              /\ rs[j].fired = rows[j].fired /\ (rows[j].answered => rs[j].answered)
    PROVE  Grown(due)
<1> DEFINE r == NewRow(due)
<1>1. r \in Row /\ r.due = due /\ ~r.fired /\ ~r.answered
    BY DEF Row, NewRow
<1>2. rows' = Append(rs, r)
    OBVIOUS
<1> HIDE DEF r
<1>3. /\ Len(rs) \in Nat /\ DOMAIN rows = 1 .. Len(rs)
      /\ rows' \in Seq(Row) /\ Len(rows') = Len(rs) + 1 /\ DOMAIN rows' = 1 .. Len(rs) + 1
      /\ rows'[Len(rs) + 1] = r /\ \A j \in 1 .. Len(rs) : rows'[j] = rs[j]
    BY <1>1, <1>2 DEF TypeOK
<1>4. \A j \in DOMAIN rows : j \in DOMAIN rows' /\ j # Len(rows') /\ rows'[j] = rs[j]
    BY <1>3
<1> QED
    BY <1>1, <1>3, <1>4 DEF Grown

LEMMA WritesGrow ==
    ASSUME TypeOK, NEW due \in Nat, Add(due) \/ \E i \in Ids : Snooze(i, due)
    PROVE  /\ up /\ Grown(due) /\ WriterArm(rows')
           /\ UNCHANGED <<now, up, nags, running>>
<1>1. rows \in Seq(Row)
    BY DEF TypeOK
<1>2. CASE Add(due)
    BY <1>1, <1>2, AppendGrows DEF Add
<1>3. ASSUME NEW i \in Ids, Snooze(i, due) PROVE Grown(due)
    <2> DEFINE rs == [rows EXCEPT ![i].answered = TRUE]
    <2>1. i \in DOMAIN rows /\ rows[i] \in Row
        BY <1>1, <1>3, Tables DEF Snooze
    <2>2. DOMAIN rs = DOMAIN rows /\ \A j \in DOMAIN rows :
              /\ rs[j] \in Row
              /\ rs[j].due = rows[j].due /\ rs[j].at = rows[j].at
              /\ rs[j].fired = rows[j].fired /\ (rows[j].answered => rs[j].answered)
        BY <1>1, <2>1, Tables DEF Row
    <2>3. rs \in [DOMAIN rows -> Row]
        BY <2>2
    <2>4. rs \in Seq(Row) /\ Len(rs) = Len(rows)
        BY <1>1, <2>3, Tables, TableOf
    <2>5. /\ rows' = Append(rs, NewRow(due))
          /\ Len(rows) < MaxRows
        BY <1>3 DEF Snooze
    <2> QED
        BY <2>2, <2>4, <2>5, AppendGrows
<1> QED
    BY <1>2, <1>3 DEF Add, Snooze

\* The timer as a writer leaves it: off under a run, else set for what there is.
LEMMA WriterArms ==
    ASSUME TypeOK, rows' \in Seq(Row), Len(rows') <= MaxRows, WriterArm(rows')
    PROVE  /\ timer' \in TimerRec /\ (~timer'.armed => timer'.left = 0)
           /\ late' \in [Ids -> Nat]
           /\ \/ running /\ timer'.left = 0 /\ late' = late
              \/ /\ ~running /\ late' = late
                 /\ \A i \in Pending(rows') :
                       timer'.armed /\ (rows'[i].due <= now => timer'.left <= 1)
                 /\ \A i \in WakeWindow(rows') :
                       Seen(rows', nags, i).n < NagMax =>
                          /\ timer'.armed
                          /\ now - Seen(rows', nags, i).at >= NagEvery => timer'.left <= 1
              \/ ~running /\ timer'.armed /\ \A i \in Ids : late'[i] = 0
<1>1. now \in Nat /\ nags \in NagTable /\ late \in [Ids -> Nat]
    BY DEF TypeOK, NagTable, Nag
<1>2. CASE running /\ timer' = Off /\ UNCHANGED late
    <2>1. timer' \in TimerRec /\ timer'.left = 0
        BY <1>2, ReminderConstants DEF Off, TimerRec
    <2> QED
        BY <1>1, <1>2, <2>1
<1>3. CASE ~running /\ Sleep(rows', nags) /\ UNCHANGED late
    BY <1>1, <1>3, SleepsSoon
<1>4. CASE ~running /\ SleepBlind /\ Forgiven
    <2>1. late' \in [Ids -> Nat] /\ \A i \in Ids : late'[i] = 0
        BY <1>4 DEF Forgiven
    <2> QED
        BY <1>4, <2>1, SleepsBlind
<1> QED
    BY <1>2, <1>3, <1>4 DEF WriterArm

\* Type correctness, as the lemmas above state it.
LEMMA TypeParts ==
    TypeOK <=> /\ now \in Nat /\ up \in BOOLEAN /\ running \in BOOLEAN
               /\ rows \in Seq(Row) /\ Len(rows) <= MaxRows
               /\ nags \in NagTable /\ timer \in TimerRec /\ late \in [Ids -> Nat]
    BY DEF TypeOK, NagTable, Nag, TimerRec

LEMMA PartsType ==
    /\ now' \in Nat /\ up' \in BOOLEAN /\ running' \in BOOLEAN
    /\ rows' \in Seq(Row) /\ Len(rows') <= MaxRows
    /\ nags' \in NagTable /\ timer' \in TimerRec /\ late' \in [Ids -> Nat]
    => TypeOK'
    BY DEF TypeOK, NagTable, Nag, TimerRec

LEMMA WritesKeepInv ==
    ASSUME RemindersInv, NEW due \in Nat, Add(due) \/ \E i \in Ids : Snooze(i, due)
    PROVE  RemindersInv'
<1> USE DEF RemindersInv
<1>1. /\ up /\ Grown(due) /\ WriterArm(rows')
      /\ now' = now /\ up' = up /\ nags' = nags /\ running' = running
    BY WritesGrow
<1>2. /\ Len(rows) \in Nat /\ Len(rows') = Len(rows) + 1 /\ Len(rows') <= MaxRows
      /\ rows' \in Seq(Row) /\ DOMAIN rows' = 1 .. Len(rows) + 1 /\ DOMAIN rows = 1 .. Len(rows)
    BY <1>1, TypeParts, ReminderConstants DEF Grown
<1>3. /\ timer' \in TimerRec /\ (~timer'.armed => timer'.left = 0) /\ late' \in [Ids -> Nat]
      /\ \/ running /\ timer'.left = 0 /\ late' = late
         \/ /\ ~running /\ late' = late
            /\ \A i \in Pending(rows') :
                  timer'.armed /\ (rows'[i].due <= now => timer'.left <= 1)
         \/ ~running /\ timer'.armed /\ \A i \in Ids : late'[i] = 0
    BY <1>1, <1>2, WriterArms
<1>4. TypeOK'
    BY <1>1, <1>2, <1>3, TypeParts, PartsType
<1>5. TimerRests' /\ DownRests' /\ TimerSet'
    BY <1>1, <1>3 DEF TimerRests, DownRests, TimerSet
<1>6. \A i \in Ids : late'[i] \in Nat /\ late[i] \in Nat /\ late'[i] <= late[i]
    BY <1>3, TypeParts
<1>7. timer.left \in Nat /\ timer'.left \in 0 .. Cap
    BY <1>3, TypeParts, ReminderConstants DEF TimerRec
<1>8. \A i \in Pending(rows') :
          \/ i \in Pending(rows) /\ rows'[i].due = rows[i].due
          \/ i \notin DOMAIN rows
    BY <1>1 DEF Grown, Pending
<1>9. NotYetLate'
    <2> SUFFICES ASSUME NEW i \in Ids,
                        i \notin DOMAIN rows' \/ (i \in Pending(rows') /\ rows'[i].due > now)
                 PROVE  late'[i] = 0
        BY <1>1 DEF NotYetLate
    <2>1. late[i] = 0
        BY <1>2, <1>8 DEF NotYetLate
    <2> QED
        BY <1>6, <2>1
<1>10. DueSoon'
    <2> SUFFICES ASSUME NEW i \in Ids, i \in Pending(rows'), rows'[i].due <= now
                 PROVE  late'[i] + timer'.left <= Cap + Len(rows') - 1
        BY <1>1 DEF DueSoon, DueNow, Lateness
    <2>1. late[i] + timer.left <= Cap + Len(rows) - 1 \/ late[i] = 0
        BY <1>8 DEF DueSoon, DueNow, Lateness, NotYetLate
    <2>2. timer'.left = 0 \/ timer'.left <= 1 \/ late'[i] = 0
        BY <1>3
    <2>3. /\ late[i] \in Nat /\ late'[i] \in Nat /\ late'[i] <= late[i]
          /\ timer.left \in Nat /\ timer'.left \in Nat /\ timer'.left <= Cap
          /\ Cap \in Nat \ {0} /\ Len(rows) \in Nat /\ Len(rows') = Len(rows) + 1
        BY <1>2, <1>6, <1>7, ReminderConstants
    <2>4. CASE late'[i] = 0
        BY <2>3, <2>4
    <2>5. CASE late'[i] # 0 /\ timer'.left <= 1
        <3>1. late[i] <= Cap + Len(rows) - 1
            BY <2>1, <2>3, <2>5
        <3> QED
            BY <2>3, <2>5, <3>1
    <2> QED
        BY <2>2, <2>3, <2>4, <2>5
<1> QED
    BY <1>4, <1>5, <1>9, <1>10

\* What the rows are after an answer or an erasure: as due, and fired when they
\* were, and answered if they were.
Kept ==
    /\ rows' \in Seq(Row) /\ Len(rows') = Len(rows) /\ DOMAIN rows' = DOMAIN rows
    /\ \A j \in DOMAIN rows :
          /\ rows'[j].due = rows[j].due /\ rows'[j].at = rows[j].at
          /\ rows'[j].fired = rows[j].fired /\ (rows[j].answered => rows'[j].answered)

\* The steps of the person that leave the timer alone.
Settles ==
    \/ \E cutoff \in 0 .. now \cup {MaxTime + 1} : Forget(cutoff)
    \/ \E i \in Ids : AnswerRow(i)

LEMMA SettlingKeeps ==
    ASSUME TypeOK, Settles
    PROVE  Kept /\ UNCHANGED <<now, up, nags, timer, running, late>>
<1>1. rows \in Seq(Row) /\ \A j \in DOMAIN rows : rows[j] \in Row
    BY Tables DEF TypeOK
<1>2. /\ DOMAIN rows' = DOMAIN rows
      /\ \A j \in DOMAIN rows :
            \/ rows'[j] = rows[j]
            \/ rows'[j] = [rows[j] EXCEPT !.answered = TRUE]
            \/ rows'[j] = [rows[j] EXCEPT !.erased = TRUE]
    <2>1. ASSUME NEW cutoff, Forget(cutoff)
          PROVE  /\ DOMAIN rows' = DOMAIN rows
                 /\ \A j \in DOMAIN rows :
                       \/ rows'[j] = rows[j]
                       \/ rows'[j] = [rows[j] EXCEPT !.erased = TRUE]
        <3>1. rows' = [j \in DOMAIN rows |->
                         IF rows[j].answered /\ rows[j].due < cutoff
                         THEN [rows[j] EXCEPT !.erased = TRUE] ELSE rows[j]]
            BY <2>1 DEF Forget
        <3> QED
            BY <3>1
    <2>2. ASSUME NEW i \in Ids, AnswerRow(i)
          PROVE  /\ DOMAIN rows' = DOMAIN rows
                 /\ \A j \in DOMAIN rows :
                       \/ rows'[j] = rows[j]
                       \/ rows'[j] = [rows[j] EXCEPT !.answered = TRUE]
        <3>1. i \in DOMAIN rows /\ rows' = [rows EXCEPT ![i].answered = TRUE]
            BY <2>2 DEF AnswerRow
        <3> QED
            BY <1>1, <3>1
    <2> QED
        BY <2>1, <2>2 DEF Settles
<1>3. ASSUME NEW j \in DOMAIN rows
      PROVE  /\ rows'[j] \in Row
             /\ rows'[j].due = rows[j].due /\ rows'[j].at = rows[j].at
             /\ rows'[j].fired = rows[j].fired /\ (rows[j].answered => rows'[j].answered)
    <2>1. rows[j] \in Row
        BY <1>1
    <2>2. CASE rows'[j] = rows[j]
        BY <2>1, <2>2
    <2>3. CASE rows'[j] = [rows[j] EXCEPT !.answered = TRUE]
        BY <2>1, <2>3 DEF Row
    <2>4. CASE rows'[j] = [rows[j] EXCEPT !.erased = TRUE]
        BY <2>1, <2>4 DEF Row
    <2> QED
        BY <1>2, <2>2, <2>3, <2>4
<1>4. rows' \in [DOMAIN rows -> Row]
    <2>1. rows' = [j \in DOMAIN rows |-> rows'[j]]
        BY <1>1 DEF Settles, Forget, AnswerRow
    <2> QED
        BY <1>3, <2>1
<1>5. rows' \in Seq(Row) /\ Len(rows') = Len(rows)
    BY <1>1, <1>4, Tables, TableOf
<1>6. UNCHANGED <<now, up, nags, timer, running, late>>
    BY DEF Settles, Forget, AnswerRow
<1> QED
    BY <1>2, <1>3, <1>5, <1>6 DEF Kept

\* What leaves the clock, the timer and what is owed alone, and makes nothing
\* pending, keeps the invariant.
LEMMA SettlingKeepsInv ==
    ASSUME RemindersInv, Settles
    PROVE  RemindersInv'
<1> USE DEF RemindersInv
<1>1. Kept /\ UNCHANGED <<now, up, nags, timer, running, late>>
    BY SettlingKeeps
<1>2. TypeOK'
    BY <1>1, TypeParts, PartsType DEF Kept
<1>3. \A j \in Pending(rows') : j \in Pending(rows) /\ rows'[j].due = rows[j].due
    BY <1>1 DEF Pending, Kept
<1>4. TimerRests' /\ DownRests' /\ TimerSet'
    BY <1>1, <1>3 DEF TimerRests, DownRests, TimerSet
<1>5. NotYetLate' /\ DueSoon'
    BY <1>1, <1>3 DEF NotYetLate, DueSoon, DueNow, Lateness, Kept
<1> QED
    BY <1>2, <1>4, <1>5

-----------------------------------------------------------------------------
(* The timer and its run. *)

\* What a claim leaves: what was due has fired, the other rows are as they were.
LEMMA DrainClaims ==
    ASSUME NEW rs \in Seq(Row), now \in Nat
    PROVE  /\ Drained(rs) \in Seq(Row) /\ Len(Drained(rs)) = Len(rs)
           /\ DOMAIN Drained(rs) = DOMAIN rs
           /\ \A i \in DOMAIN rs :
                 IF i \in Pending(rs) /\ rs[i].due <= now
                 THEN /\ Drained(rs)[i].fired /\ Drained(rs)[i].at = now
                      /\ Drained(rs)[i].answered = rs[i].answered
                      /\ Drained(rs)[i].due = rs[i].due
                 ELSE Drained(rs)[i] = rs[i]
<1>1. \A i \in DOMAIN rs :
          /\ Drained(rs)[i] \in Row
          /\ IF i \in Pending(rs) /\ rs[i].due <= now
             THEN /\ Drained(rs)[i].fired /\ Drained(rs)[i].at = now
                  /\ Drained(rs)[i].answered = rs[i].answered
                  /\ Drained(rs)[i].due = rs[i].due
             ELSE Drained(rs)[i] = rs[i]
    <2> SUFFICES ASSUME NEW i \in DOMAIN rs
                 PROVE  /\ Drained(rs)[i] \in Row
                        /\ IF i \in Pending(rs) /\ rs[i].due <= now
                           THEN /\ Drained(rs)[i].fired /\ Drained(rs)[i].at = now
                                /\ Drained(rs)[i].answered = rs[i].answered
                                /\ Drained(rs)[i].due = rs[i].due
                           ELSE Drained(rs)[i] = rs[i]
        OBVIOUS
    <2>1. rs[i] \in Row
        BY Tables
    <2>2. CASE i \in Pending(rs) /\ rs[i].due <= now
        <3>1. Drained(rs)[i] = [rs[i] EXCEPT !.fired = TRUE, !.at = now]
            BY <2>2 DEF Drained
        <3> QED
            BY <2>1, <2>2, <3>1 DEF Row
    <2>3. CASE ~ (i \in Pending(rs) /\ rs[i].due <= now)
        BY <2>1, <2>3 DEF Drained
    <2> QED
        BY <2>2, <2>3
<1>2. Drained(rs) \in [DOMAIN rs -> Row]
    BY <1>1 DEF Drained
<1>3. Drained(rs) \in Seq(Row) /\ Len(Drained(rs)) = Len(rs) /\ DOMAIN Drained(rs) = DOMAIN rs
    BY <1>2, Tables, TableOf
<1> QED
    BY <1>1, <1>3

\* Every alarm in the window has been asked about, may not be yet, or no longer is.
LEMMA NagCounts ==
    ASSUME NEW rs \in Seq(Row), NEW ns \in NagTable, Len(rs) <= MaxRows, now \in Nat
    PROVE  /\ Nagged(rs, ns) \in NagTable
           /\ \A i \in NagWindow(rs) :
                 /\ Nagged(rs, ns)[i].known
                 /\ ~ MayNag(rs, Nagged(rs, ns), i)
<1>0. \A i \in NagWindow(rs) : i \in DOMAIN rs /\ i \in Ids
    BY Tables, ReminderConstants DEF NagWindow, Open, Ids
<1>1. ASSUME NEW i \in Ids, i \notin NagWindow(rs) PROVE Nagged(rs, ns)[i] \in Nag
    <2>1. Nagged(rs, ns)[i] = [known |-> FALSE, at |-> 0, n |-> 0]
        BY <1>1 DEF Nagged, NoNags
    <2> QED
        BY <2>1, ReminderConstants DEF Nag
<1>2. ASSUME NEW i \in NagWindow(rs)
      PROVE  /\ Nagged(rs, ns)[i] \in Nag /\ Nagged(rs, ns)[i].known
             /\ ~ MayNag(rs, Nagged(rs, ns), i)
    <2>1. Seen(rs, ns, i) \in Nag /\ i \in Ids
        BY <1>0, SeenType
    <2>2. Seen(rs, ns, i).known
        BY DEF Seen
    <2>3. Seen(rs, Nagged(rs, ns), i) = Nagged(rs, ns)[i] \/ ~ Nagged(rs, ns)[i].known
        BY DEF Seen
    <2>4. CASE MayNag(rs, ns, i)
        <3>1. Nagged(rs, ns)[i] = [known |-> TRUE, at |-> now, n |-> Seen(rs, ns, i).n + 1]
            BY <2>1, <2>4 DEF Nagged
        <3>2. Seen(rs, ns, i).n + 1 \in 0 .. NagMax
            BY <2>1, <2>4, ReminderConstants DEF MayNag, Nag
        <3>3. /\ Nagged(rs, ns)[i] \in Nag /\ Nagged(rs, ns)[i].known
              /\ Nagged(rs, ns)[i].at = now
            BY <3>1, <3>2 DEF Nag
        <3> QED
            BY <2>3, <3>3, ReminderConstants DEF MayNag
    <2>5. CASE ~ MayNag(rs, ns, i)
        <3>1. Nagged(rs, ns)[i] = Seen(rs, ns, i)
            BY <2>1, <2>5 DEF Nagged
        <3> QED
            BY <2>1, <2>2, <2>3, <2>5, <3>1 DEF MayNag
    <2> QED
        BY <2>4, <2>5
<1>3. Nagged(rs, ns) \in NagTable
    BY <1>1, <1>2 DEF NagTable, Nagged
<1> QED
    BY <1>2, <1>3

LEMMA RunKeepsInv ==
    ASSUME RemindersInv, Run
    PROVE  RemindersInv'
<1> USE DEF RemindersInv
<1>1. /\ up /\ running /\ now' = now /\ up' = up /\ running' = FALSE
      /\ rows' = Drained(rows) /\ nags' = Nagged(rows', nags)
    BY DEF Run
<1>2. /\ now \in Nat /\ rows \in Seq(Row) /\ Len(rows) <= MaxRows /\ nags \in NagTable
      /\ late \in [Ids -> Nat] /\ up \in BOOLEAN
    BY TypeParts
<1>3. /\ rows' \in Seq(Row) /\ Len(rows') = Len(rows) /\ DOMAIN rows' = DOMAIN rows
      /\ \A i \in DOMAIN rows :
            IF i \in Pending(rows) /\ rows[i].due <= now
            THEN rows'[i].fired /\ rows'[i].due = rows[i].due
            ELSE rows'[i] = rows[i]
    BY <1>1, <1>2, DrainClaims
<1>4. \A i \in Pending(rows') :
          i \in Pending(rows) /\ rows'[i] = rows[i] /\ ~ (rows'[i].due <= now)
    BY <1>3 DEF Pending
<1>5. nags' \in NagTable
    BY <1>1, <1>2, <1>3, NagCounts
<1>6. /\ timer' \in TimerRec /\ (~timer'.armed => timer'.left = 0)
      /\ \A i \in Pending(rows') : timer'.armed
    <2>1. CASE Sleep(rows', nags')
        BY <1>2, <1>3, <1>5, <2>1, SleepsSoon
    <2>2. CASE SleepBlind
        BY <2>2, SleepsBlind, ReminderConstants
    <2> QED
        BY <2>1, <2>2 DEF Run
<1>7. late' \in [Ids -> Nat] /\ \A i \in Ids : late'[i] = late[i] \/ late'[i] = 0
    <2>1. \/ late' = [i \in Ids |-> IF (DueNow(i) \/ AskNow(i))' THEN late[i] ELSE 0]
          \/ late' = [i \in Ids |-> 0]
        BY DEF Run, Forgiven
    <2>2. CASE late' = [i \in Ids |-> IF (DueNow(i) \/ AskNow(i))' THEN late[i] ELSE 0]
        <3>1. \A i \in Ids : late'[i] = late[i] \/ late'[i] = 0
            BY <2>2
        <3> QED
            BY <1>2, <2>2, <3>1
    <2> QED
        BY <2>1, <2>2
<1>8. TypeOK'
    BY <1>1, <1>2, <1>3, <1>5, <1>6, <1>7, PartsType
<1>9. TimerRests' /\ DownRests' /\ TimerSet'
    BY <1>1, <1>6 DEF TimerRests, DownRests, TimerSet
<1>10. NotYetLate'
    <2> SUFFICES ASSUME NEW i \in Ids,
                        i \notin DOMAIN rows' \/ (i \in Pending(rows') /\ rows'[i].due > now)
                 PROVE  late'[i] = 0
        BY <1>1 DEF NotYetLate
    <2>1. late[i] = 0
        BY <1>3, <1>4 DEF NotYetLate
    <2> QED
        BY <1>7, <2>1
<1>11. DueSoon'
    BY <1>1, <1>4 DEF DueSoon, DueNow
<1> QED
    BY <1>8, <1>9, <1>10, <1>11

\* What a failed run leaves of the rows: those due may have fired.
Claimed ==
    /\ rows' \in Seq(Row) /\ Len(rows') = Len(rows) /\ Len(rows') <= MaxRows
    /\ DOMAIN rows' = DOMAIN rows
    /\ \A i \in DOMAIN rows :
          /\ rows'[i].due = rows[i].due /\ (rows[i].fired => rows'[i] = rows[i])
          /\ rows'[i].answered = rows[i].answered

LEMMA FailureClaims ==
    ASSUME rows \in Seq(Row), Len(rows) <= MaxRows, now \in Nat, RunFails
    PROVE  Claimed
<1>1. CASE rows' = rows
    BY <1>1 DEF Claimed
<1>2. CASE rows' = Drained(rows)
    BY <1>2, DrainClaims DEF Claimed, Pending
<1> QED
    BY <1>1, <1>2 DEF RunFails

\* The rest of the timer's steps: it comes, or its run fails.
LEMMA TimerKeepsInv ==
    ASSUME RemindersInv, Fire \/ RunFails
    PROVE  RemindersInv'
<1> USE DEF RemindersInv
<1>1. CASE Fire
    <2>1. /\ timer.armed /\ timer.left = 0 /\ timer' = Off /\ running' = TRUE
          /\ UNCHANGED <<now, up, rows, nags, late>>
        BY <1>1 DEF Fire
    <2>2. timer' \in TimerRec /\ timer'.left = 0
        BY <2>1, ReminderConstants DEF Off, TimerRec
    <2>3. TypeOK'
        BY <2>1, <2>2, TypeParts, PartsType
    <2>4. TimerRests' /\ DownRests' /\ TimerSet' /\ NotYetLate'
        BY <2>1, <2>2, TypeParts DEF TimerRests, DownRests, TimerSet, NotYetLate
    <2>5. DueSoon'
        BY <2>1, <2>2 DEF DueSoon, DueNow, Lateness
    <2> QED
        BY <2>3, <2>4, <2>5
<1>2. CASE RunFails
    <2>1. /\ up /\ running' = FALSE /\ late' = [i \in Ids |-> 0]
          /\ UNCHANGED <<now, up, nags>>
        BY <1>2 DEF RunFails, Forgiven
    <2>2. Claimed
        BY <1>2, TypeParts, FailureClaims
    <2>3. /\ timer' \in TimerRec /\ (~timer'.armed => timer'.left = 0)
          /\ \A i \in Pending(rows') : timer'.armed
        <3>1. CASE Sleep(rows', nags)
            BY <2>2, <3>1, TypeParts, SleepsSoon DEF Claimed
        <3>2. CASE SleepBlind
            BY <3>2, SleepsBlind, ReminderConstants
        <3> QED
            BY <1>2, <3>1, <3>2 DEF RunFails
    <2>4. TypeOK'
        BY <2>1, <2>2, <2>3, TypeParts, PartsType DEF Claimed
    <2>5. TimerRests' /\ DownRests' /\ TimerSet' /\ NotYetLate'
        BY <2>1, <2>3 DEF TimerRests, DownRests, TimerSet, NotYetLate
    <2>6. DueSoon'
        <3>1. Len(rows') \in Nat /\ \A i \in Pending(rows') : Len(rows') >= 1
            BY <2>2, Tables DEF Claimed, Pending
        <3>2. timer'.left \in 0 .. Cap
            BY <2>3 DEF TimerRec
        <3> QED
            BY <2>1, <3>1, <3>2, ReminderConstants DEF DueSoon, DueNow, Lateness
    <2> QED
        BY <2>4, <2>5, <2>6
<1> QED
    BY <1>1, <1>2

-----------------------------------------------------------------------------
(* The machine. *)

\* A tick, awake or not: a moment comes nearer, the timer no later.
LEMMA TimePasses ==
    ASSUME RemindersInv, Tick \/ Suspend
    PROVE  /\ now' = now + 1 /\ UNCHANGED <<up, rows, nags, running>>
           /\ timer' \in TimerRec /\ timer'.armed = timer.armed
           /\ (~timer'.armed => timer'.left = 0)
           /\ late' \in [Ids -> Nat]
           /\ \A i \in Ids : \/ late'[i] = 0
                             \/ late'[i] = late[i] /\ timer'.left = timer.left
                             \/ /\ DueNow(i) \/ AskNow(i)
                                /\ up /\ ~running
                                /\ timer.armed => late'[i] + timer'.left = late[i] + timer.left
<1> USE DEF RemindersInv
<1>0. timer \in TimerRec /\ late \in [Ids -> Nat] /\ timer.left \in Nat
    BY TypeParts DEF TimerRec
<1>1. CASE Suspend
    BY <1>0, <1>1 DEF Suspend, TimerRests
<1>2. CASE Tick
    <2>1. /\ now' = now + 1 /\ UNCHANGED <<up, rows, nags, running>>
          /\ up => ~running /\ (timer.armed => timer.left > 0)
          /\ timer' = IF timer.armed THEN [timer EXCEPT !.left = @ - 1] ELSE timer
          /\ late' = [i \in Ids |-> IF up /\ (DueNow(i) \/ AskNow(i)) THEN late[i] + 1 ELSE 0]
        BY <1>2 DEF Tick
    <2>2. timer.armed => timer.left > 0
        BY <2>1 DEF DownRests
    <2>3. /\ timer' \in TimerRec /\ timer'.armed = timer.armed
          /\ timer'.left = IF timer.armed THEN timer.left - 1 ELSE timer.left
        <3>1. CASE timer.armed
            <4>1. timer.left - 1 \in 0 .. Cap
                BY <1>0, <2>2, <3>1, ReminderConstants DEF TimerRec
            <4> QED
                BY <1>0, <2>1, <3>1, <4>1 DEF TimerRec
        <3>2. CASE ~timer.armed
            BY <1>0, <2>1, <3>2
        <3> QED
            BY <3>1, <3>2
    <2>4. late' \in [Ids -> Nat]
        BY <1>0, <2>1
    <2>5. ASSUME NEW i \in Ids
          PROVE  \/ late'[i] = 0
                 \/ late'[i] = late[i] + 1 /\ (DueNow(i) \/ AskNow(i)) /\ up /\ ~running
        BY <2>1
    <2>6. ASSUME NEW i \in Ids, late'[i] = late[i] + 1, timer.armed
          PROVE  late'[i] + timer'.left = late[i] + timer.left
        BY <1>0, <2>3, <2>6
    <2> QED
        BY <2>1, <2>3, <2>4, <2>5, <2>6 DEF TimerRests
<1> QED
    BY <1>1, <1>2

LEMMA TimeKeepsInv ==
    ASSUME RemindersInv, Tick \/ Suspend
    PROVE  RemindersInv'
<1> USE DEF RemindersInv
<1>1. /\ now' = now + 1 /\ UNCHANGED <<up, rows, nags, running>>
      /\ timer' \in TimerRec /\ timer'.armed = timer.armed
      /\ (~timer'.armed => timer'.left = 0)
      /\ late' \in [Ids -> Nat]
      /\ \A i \in Ids : \/ late'[i] = 0
                        \/ late'[i] = late[i] /\ timer'.left = timer.left
                        \/ /\ DueNow(i) \/ AskNow(i)
                           /\ up /\ ~running
                           /\ timer.armed => late'[i] + timer'.left = late[i] + timer.left
    BY TimePasses
<1>2. now \in Nat /\ rows \in Seq(Row) /\ Len(rows) \in Nat /\ Len(rows) <= MaxRows
    BY TypeParts, Tables
<1>3. \A i \in DOMAIN rows : rows[i].due \in Nat
    BY <1>2, Tables
<1>4. TypeOK'
    BY <1>1, <1>2, TypeParts, PartsType
<1>5. TimerRests' /\ DownRests' /\ TimerSet'
    BY <1>1 DEF TimerRests, DownRests, TimerSet, DueNow, AskNow
<1>6. \A i \in Pending(rows) : i \in DOMAIN rows /\ i \notin NagWindow(rows)
    BY DEF Pending, NagWindow, Open
<1>7. NotYetLate'
    <2> SUFFICES ASSUME NEW i \in Ids,
                        i \notin DOMAIN rows \/ (i \in Pending(rows) /\ rows[i].due > now + 1)
                 PROVE  late'[i] = 0
        BY <1>1 DEF NotYetLate
    <2>1. late[i] = 0
        BY <1>2, <1>3, <1>6 DEF NotYetLate
    <2>2. ~DueNow(i) /\ ~AskNow(i)
        BY <1>2, <1>3, <1>6 DEF DueNow, AskNow, Pending, NagWindow, Open
    <2> QED
        BY <1>1, <2>1, <2>2
<1>8. DueSoon'
    <2> SUFFICES ASSUME NEW i \in Ids, i \in Pending(rows), rows[i].due <= now + 1
                 PROVE  late'[i] + timer'.left <= Cap + Len(rows) - 1
        BY <1>1 DEF DueSoon, DueNow, Lateness
    <2>1. Len(rows) >= 1 /\ timer'.left \in 0 .. Cap
        BY <1>1, <1>2, <1>6, Tables DEF TimerRec
    <2>2. CASE late'[i] = 0
        BY <1>2, <2>1, <2>2, ReminderConstants
    <2>3. CASE late'[i] # 0
        <3>1. late[i] # 0 \/ DueNow(i)
            BY <1>1, <1>6, <2>3 DEF AskNow
        <3>2. DueNow(i)
            BY <1>2, <1>3, <1>6, <3>1 DEF NotYetLate, DueNow
        <3>3. late[i] + timer.left <= Cap + Len(rows) - 1
            BY <3>2 DEF DueSoon, Lateness
        <3>4. up /\ ~running => timer.armed
            BY DEF TimerSet
        <3> QED
            BY <1>1, <2>3, <3>3, <3>4
    <2> QED
        BY <2>2, <2>3
<1> QED
    BY <1>4, <1>5, <1>7, <1>8

LEMMA RestartsKeepInv ==
    ASSUME RemindersInv, Crash \/ Restart
    PROVE  RemindersInv'
<1> USE DEF RemindersInv
<1>0. NoNags \in NagTable /\ Off \in TimerRec /\ Off.left = 0 /\ ~Off.armed
    BY ReminderConstants DEF NoNags, NagTable, Nag, Off, TimerRec
<1>1. CASE Crash
    <2>1. /\ up' = FALSE /\ nags' = NoNags /\ timer' = Off /\ running' = FALSE
          /\ late' = [i \in Ids |-> 0] /\ UNCHANGED <<now, rows>>
        BY <1>1 DEF Crash
    <2>2. TypeOK'
        BY <1>0, <2>1, TypeParts, PartsType
    <2>3. TimerRests' /\ DownRests' /\ TimerSet' /\ NotYetLate'
        BY <1>0, <2>1 DEF TimerRests, DownRests, TimerSet, NotYetLate
    <2>4. DueSoon'
        BY <1>0, <2>1, TypeParts, Tables, ReminderConstants DEF DueSoon, DueNow, Lateness, Pending
    <2> QED
        BY <2>2, <2>3, <2>4
<1>2. CASE Restart
    <2>1. up' = TRUE /\ running' = TRUE /\ UNCHANGED <<now, rows, nags, timer, late>>
        BY <1>2 DEF Restart
    <2>2. TypeOK'
        BY <2>1, TypeParts, PartsType
    <2> QED
        BY <2>1, <2>2 DEF TimerRests, DownRests, TimerSet, NotYetLate, DueSoon, DueNow, Lateness
<1> QED
    BY <1>1, <1>2

-----------------------------------------------------------------------------
LEMMA InitInv == Init => RemindersInv
<1> SUFFICES ASSUME Init PROVE RemindersInv
    OBVIOUS
<1>1. /\ now = 0 /\ up = TRUE /\ rows = <<>> /\ nags = NoNags /\ timer = Off
      /\ running = TRUE /\ late = [i \in Ids |-> 0]
    BY DEF Init
<1>2. NoNags \in NagTable /\ Off \in TimerRec /\ Off.left = 0
    BY ReminderConstants DEF NoNags, NagTable, Nag, Off, TimerRec
<1>3. rows \in Seq(Row) /\ Len(rows) = 0 /\ DOMAIN rows = {}
    BY <1>1
<1>4. TypeOK
    BY <1>1, <1>2, <1>3, TypeParts, ReminderConstants
<1> QED
    BY <1>1, <1>2, <1>3, <1>4
       DEF RemindersInv, TimerRests, DownRests, TimerSet, NotYetLate, DueSoon, DueNow, Pending

LEMMA NextKeepsInv ==
    ASSUME RemindersInv, [Next]_vars
    PROVE  RemindersInv'
<1>1. CASE \E due \in 0 .. MaxTime : Add(due) \/ (\E i \in Ids : Snooze(i, due))
    BY <1>1, WritesKeepInv
<1>2. CASE Settles
    BY <1>2, SettlingKeepsInv
<1>3. CASE Fire \/ RunFails
    BY <1>3, TimerKeepsInv
<1>4. CASE Run
    BY <1>4, RunKeepsInv
<1>5. CASE Tick \/ Suspend
    BY <1>5, TimeKeepsInv
<1>6. CASE Crash \/ Restart
    BY <1>6, RestartsKeepInv
<1>7. CASE UNCHANGED vars
    <2>1. UNCHANGED <<now, up, rows, nags, timer, running, late>>
        BY <1>7 DEF vars
    <2>2. TypeOK'
        BY <2>1, TypeParts, PartsType DEF RemindersInv
    <2> QED
        BY <2>1, <2>2
           DEF RemindersInv, TimerRests, DownRests, TimerSet, NotYetLate, DueSoon, DueNow, Lateness
<1> QED
    BY <1>1, <1>2, <1>3, <1>4, <1>5, <1>6, <1>7 DEF Next, Settles

THEOREM RemindersInvariant == Spec => []RemindersInv
<1>1. Init => RemindersInv
    BY InitInv
<1>2. RemindersInv /\ [Next]_vars => RemindersInv'
    BY NextKeepsInv
<1> QED
    BY <1>1, <1>2, PTL DEF Spec

\* Every variable keeps its type; the timer's delay is never negative.
THEOREM TypeCorrect == Spec => []TypeOK
<1>1. RemindersInv => TypeOK
    BY DEF RemindersInv
<1> QED
    BY <1>1, RemindersInvariant, PTL

\* A reminder that is due fires within the cap and a floor for every other write,
\* counted in time awake: arm() in wakeup.ts never leaves too late a timer.
THEOREM FiresInTime == Spec => []FiresOnTime
<1>1. RemindersInv => FiresOnTime
    <2> SUFFICES ASSUME RemindersInv, NEW i \in Ids, DueNow(i) PROVE late[i] <= Lateness
        BY DEF FiresOnTime
    <2>1. /\ timer.left \in Nat /\ late[i] \in Nat /\ Lateness \in Int
          /\ late[i] + timer.left <= Lateness
        BY TypeParts, Tables, ReminderConstants DEF RemindersInv, TimerRec, DueSoon, Lateness
    <2> QED
        BY <2>1
<1> QED
    BY <1>1, RemindersInvariant, PTL

-----------------------------------------------------------------------------
(* Asking again. *)

\* While an alarm no other ever kept out will ask again, a run is on or the timer is.
AskSet ==
    up /\ ~running =>
        \A i \in Foremost(rows) : Seen(rows, nags, i).n < NagMax => timer.armed

\* One that may not be asked about yet has been owed nothing.
AskNotYet == \A i \in Foremost(rows) : ~ MayNag(rows, nags, i) => late[i] = 0

\* One that may be has waited no longer than the timer was ever set for, and the
\* timer comes in what is left of that.
AskSoon == \A i \in Foremost(rows) : MayNag(rows, nags, i) => late[i] + timer.left <= Lateness

AskInv == RemindersInv /\ AskSet /\ AskNotYet /\ AskSoon

\* Part of a set of rows is no larger than the whole.
LEMMA FewerRows ==
    ASSUME NEW rs \in Seq(Row), NEW T \in SUBSET DOMAIN rs, NEW S \in SUBSET T,
           Cardinality(T) < Budget
    PROVE  Cardinality(S) < Budget
<1>1. IsFiniteSet(DOMAIN rs)
    BY Tables, FS_Interval
<1>2. IsFiniteSet(T)
    BY <1>1, FS_Subset
<1>3. Cardinality(S) <= Cardinality(T) /\ IsFiniteSet(S)
    BY <1>2, FS_Subset
<1> QED
    BY <1>2, <1>3, FS_CardinalityType, ReminderConstants

\* What no other keeps out is in both windows, whichever order they read in.
LEMMA ForemostInWindows ==
    ASSUME NEW rs \in Seq(Row), NEW i \in Foremost(rs)
    PROVE  i \in Open(rs) /\ i \in NagWindow(rs) /\ i \in WakeWindow(rs)
<1> DEFINE T == {j \in DOMAIN rs \ {i} : rs[j].fired /\ (rs[j].due <= rs[i].due \/ j < i)}
           N == {j \in Open(rs) : rs[j].due < rs[i].due \/ (rs[j].due = rs[i].due /\ j < i)}
           W == {j \in Open(rs) : j < i}
<1>1. i \in Open(rs) /\ Cardinality(T) < Budget
    BY DEF Foremost
<1>2. \A j \in DOMAIN rs : j \in Nat /\ rs[j].due \in Nat
    BY Tables
<1>3. i \in DOMAIN rs /\ \A j \in Open(rs) : j \in DOMAIN rs /\ rs[j].fired
    BY <1>1 DEF Open
<1>4. T \in SUBSET DOMAIN rs /\ N \in SUBSET T /\ W \in SUBSET T
    BY <1>2, <1>3
<1> HIDE DEF T
<1>5. Cardinality(N) < Budget /\ Cardinality(W) < Budget
    BY <1>1, <1>4, FewerRows
<1> QED
    BY <1>1, <1>5 DEF NagWindow, WakeWindow

\* Rows that fired stay so, so none comes to be foremost that was open and was not.
LEMMA ForemostStays ==
    ASSUME NEW rs \in Seq(Row), NEW sr \in Seq(Row), NEW i \in Foremost(sr), i \in Open(rs),
           \A j \in DOMAIN rs :
              j \in DOMAIN sr /\ sr[j].due = rs[j].due /\ (rs[j].fired => sr[j].fired)
    PROVE  i \in Foremost(rs)
<1> DEFINE T == {j \in DOMAIN sr \ {i} : sr[j].fired /\ (sr[j].due <= sr[i].due \/ j < i)}
           S == {j \in DOMAIN rs \ {i} : rs[j].fired /\ (rs[j].due <= rs[i].due \/ j < i)}
<1>1. Cardinality(T) < Budget /\ i \in DOMAIN rs
    BY DEF Foremost, Open
<1>2. T \in SUBSET DOMAIN sr /\ S \in SUBSET T
    BY <1>1
<1> HIDE DEF T
<1>3. Cardinality(S) < Budget
    BY <1>1, <1>2, FewerRows
<1> QED
    BY <1>3 DEF Foremost

\* What was asked about an alarm depends on its row only by when it fired.
LEMMA SameSeen ==
    ASSUME NEW rs, NEW sr, NEW ns, NEW i, rs[i].at = sr[i].at
    PROVE  Seen(rs, ns, i) = Seen(sr, ns, i)
    BY DEF Seen

\* A row of the table is a row number, and there is one.
LEMMA ForemostRows ==
    ASSUME NEW rs \in Seq(Row), Len(rs) <= MaxRows, NEW i \in Foremost(rs)
    PROVE  i \in Ids /\ i \in DOMAIN rs /\ Len(rs) \in Nat /\ Len(rs) >= 1
    BY Tables, ReminderConstants DEF Foremost, Open, Ids

LEMMA SettlingKeepsAsking ==
    ASSUME AskInv, RemindersInv', Settles
    PROVE  AskInv'
<1> USE DEF AskInv, RemindersInv
<1>1. Kept /\ UNCHANGED <<now, up, nags, timer, running, late>> /\ rows \in Seq(Row)
    BY SettlingKeeps, TypeParts
<1>2. \A j \in Open(rows') : j \in Open(rows) /\ rows'[j].at = rows[j].at
    BY <1>1 DEF Open, Kept
<1>3. \A j \in Foremost(rows') : j \in Open(rows')
    BY DEF Foremost
<1>4. \A j \in Foremost(rows') : j \in Foremost(rows)
    BY <1>1, <1>2, <1>3, ForemostStays DEF Kept
<1>5. \A j \in Foremost(rows') : Seen(rows', nags, j) = Seen(rows, nags, j)
    BY <1>2, <1>3, SameSeen
<1> QED
    BY <1>1, <1>4, <1>5 DEF AskSet, AskNotYet, AskSoon, MayNag, Lateness, Kept

LEMMA WritesKeepAsking ==
    ASSUME AskInv, RemindersInv', NEW due \in Nat, Add(due) \/ \E i \in Ids : Snooze(i, due)
    PROVE  AskInv'
<1> USE DEF AskInv, RemindersInv
<1>1. /\ rows \in Seq(Row) /\ Len(rows) \in Nat /\ Len(rows) <= MaxRows
      /\ late \in [Ids -> Nat] /\ timer.left \in Nat
    BY TypeParts, Tables DEF TimerRec
<1>2. /\ rows' \in Seq(Row) /\ Len(rows') <= MaxRows
      /\ late' \in [Ids -> Nat] /\ timer'.left \in 0 .. Cap
    BY DEF TypeOK
<1>3. /\ up /\ Grown(due) /\ WriterArm(rows')
      /\ now' = now /\ up' = up /\ nags' = nags /\ running' = running
    BY WritesGrow
<1>4. /\ Len(rows') = Len(rows) + 1
      /\ \A j \in Open(rows') : j \in Open(rows) /\ rows'[j].at = rows[j].at
    BY <1>1, <1>2, <1>3, Tables DEF Grown, Open
<1>5. \A j \in Foremost(rows') : j \in Open(rows') /\ j \in WakeWindow(rows') /\ j \in Ids
    BY <1>2, ForemostInWindows, ForemostRows
<1>6. \A j \in Foremost(rows') : j \in Foremost(rows)
    BY <1>1, <1>2, <1>3, <1>4, <1>5, ForemostStays DEF Grown
<1>7. \A j \in Foremost(rows') : Seen(rows', nags, j) = Seen(rows, nags, j)
    BY <1>4, <1>5, SameSeen
<1>8. \/ running /\ timer'.left = 0 /\ late' = late
      \/ /\ ~running /\ late' = late
         /\ \A i \in Foremost(rows') :
               Seen(rows', nags, i).n < NagMax =>
                  /\ timer'.armed
                  /\ now - Seen(rows', nags, i).at >= NagEvery => timer'.left <= 1
      \/ ~running /\ timer'.armed /\ \A i \in Ids : late'[i] = 0
    BY <1>2, <1>3, <1>5, WriterArms
<1>9. AskSet'
    BY <1>3, <1>8 DEF AskSet
<1>10. AskNotYet'
    BY <1>3, <1>5, <1>6, <1>7, <1>8 DEF AskNotYet, MayNag
<1>11. AskSoon'
    <2> SUFFICES ASSUME NEW i \in Foremost(rows'),
                        Seen(rows', nags, i).n < NagMax,
                        now - Seen(rows', nags, i).at >= NagEvery
                 PROVE  late'[i] + timer'.left <= Cap + Len(rows') - 1
        BY <1>3 DEF AskSoon, MayNag, Lateness
    <2>1. late[i] + timer.left <= Cap + Len(rows) - 1
        BY <1>6, <1>7 DEF AskSoon, MayNag, Lateness
    <2>2. late[i] \in Nat /\ late'[i] \in Nat /\ (late'[i] = late[i] \/ late'[i] = 0)
          /\ (timer'.left = 0 \/ timer'.left <= 1 \/ late'[i] = 0)
        BY <1>1, <1>2, <1>5, <1>8
    <2>3. /\ timer.left \in Nat /\ timer'.left \in Nat /\ timer'.left <= Cap
          /\ Cap \in Nat \ {0} /\ Len(rows) \in Nat /\ Len(rows') = Len(rows) + 1
        BY <1>1, <1>2, <1>4, ReminderConstants
    <2>4. CASE late'[i] = 0
        BY <2>3, <2>4
    <2>5. CASE late'[i] # 0 /\ timer'.left <= 1
        BY <2>1, <2>2, <2>3, <2>5
    <2> QED
        BY <2>2, <2>3, <2>4, <2>5
<1> QED
    BY <1>9, <1>10, <1>11

LEMMA RunKeepsAsking ==
    ASSUME AskInv, RemindersInv', Run
    PROVE  AskInv'
<1> USE DEF AskInv, RemindersInv
<1>1. /\ now' = now /\ up /\ running' = FALSE /\ nags' = Nagged(rows', nags)
      /\ rows' \in Seq(Row) /\ Len(rows') <= MaxRows /\ nags' \in NagTable
      /\ now \in Nat /\ nags \in NagTable
    BY TypeParts DEF Run, TypeOK, NagTable, Nag
<1>2. \A i \in Foremost(rows') : /\ i \in Open(rows') /\ i \in Ids
                                 /\ i \in NagWindow(rows') /\ i \in WakeWindow(rows')
    BY <1>1, ForemostInWindows, ForemostRows
<1>3. \A i \in Foremost(rows') : ~ MayNag(rows', nags', i)
    BY <1>1, <1>2, NagCounts
<1>4. AskSoon'
    BY <1>1, <1>3 DEF AskSoon, MayNag
<1>5. \A i \in Foremost(rows') : Seen(rows', nags', i).n < NagMax => timer'.armed
    <2>1. CASE Sleep(rows', nags')
        BY <1>1, <1>2, <2>1, SleepsSoon
    <2>2. CASE SleepBlind
        BY <2>2, SleepsBlind
    <2> QED
        BY <2>1, <2>2 DEF Run
<1>6. \A i \in Foremost(rows') : late'[i] = 0
    <2>1. \A i \in Foremost(rows') : i \in Ids /\ ~ (DueNow(i) \/ AskNow(i))'
        BY <1>1, <1>2, <1>3 DEF DueNow, AskNow, MayNag, Pending, Open
    <2>2. \/ late' = [i \in Ids |-> IF (DueNow(i) \/ AskNow(i))' THEN late[i] ELSE 0]
          \/ late' = [i \in Ids |-> 0]
        BY DEF Run, Forgiven
    <2> QED
        BY <2>1, <2>2
<1> QED
    BY <1>1, <1>4, <1>5, <1>6 DEF AskSet, AskNotYet

LEMMA TimerKeepsAsking ==
    ASSUME AskInv, RemindersInv', Fire \/ RunFails
    PROVE  AskInv'
<1> USE DEF AskInv, RemindersInv
<1>1. CASE Fire
    <2>1. /\ timer.left = 0 /\ timer'.left = 0 /\ running' = TRUE
          /\ UNCHANGED <<now, up, rows, nags, late>>
        BY <1>1 DEF Fire, Off
    <2> QED
        BY <2>1 DEF AskSet, AskNotYet, AskSoon, MayNag, Lateness
<1>2. CASE RunFails
    <2>1. late' = [i \in Ids |-> 0] /\ UNCHANGED <<now, up, nags>>
        BY <1>2 DEF RunFails, Forgiven
    <2>2. rows' \in Seq(Row) /\ Len(rows') <= MaxRows /\ nags \in NagTable /\ now \in Nat
        BY TypeParts DEF TypeOK
    <2>3. \A i \in Foremost(rows') :
              i \in WakeWindow(rows') /\ i \in Ids /\ Len(rows') \in Nat /\ Len(rows') >= 1
        BY <2>2, ForemostInWindows, ForemostRows
    <2>4. \A i \in Foremost(rows') : Seen(rows', nags, i).n < NagMax => timer'.armed
        <3>1. CASE Sleep(rows', nags)
            BY <2>2, <2>3, <3>1, SleepsSoon
        <3>2. CASE SleepBlind
            BY <3>2, SleepsBlind
        <3> QED
            BY <1>2, <3>1, <3>2 DEF RunFails
    <2>5. \A i \in Foremost(rows') : late'[i] = 0
        BY <2>1, <2>3
    <2>6. timer'.left \in 0 .. Cap
        BY DEF TypeOK
    <2> QED
        BY <2>1, <2>3, <2>4, <2>5, <2>6, ReminderConstants
           DEF AskSet, AskNotYet, AskSoon, Lateness
<1> QED
    BY <1>1, <1>2

LEMMA TimeKeepsAsking ==
    ASSUME AskInv, RemindersInv', Tick \/ Suspend
    PROVE  AskInv'
<1> USE DEF AskInv, RemindersInv
<1>1. /\ now' = now + 1 /\ UNCHANGED <<up, rows, nags, running>>
      /\ timer' \in TimerRec /\ timer'.armed = timer.armed
      /\ \A i \in Ids : \/ late'[i] = 0
                        \/ late'[i] = late[i] /\ timer'.left = timer.left
                        \/ /\ DueNow(i) \/ AskNow(i)
                           /\ up /\ ~running
                           /\ timer.armed => late'[i] + timer'.left = late[i] + timer.left
    BY TimePasses
<1>2. /\ now \in Nat /\ rows \in Seq(Row) /\ Len(rows) \in Nat /\ Len(rows) <= MaxRows
      /\ nags \in NagTable /\ timer'.left \in 0 .. Cap
    BY <1>1, TypeParts, Tables DEF TimerRec
<1>3. \A i \in Foremost(rows) :
          /\ i \in Ids /\ ~ DueNow(i) /\ Seen(rows, nags, i).at \in Nat /\ Len(rows) >= 1
    BY <1>2, ForemostInWindows, ForemostRows, SeenType DEF Open, DueNow, Pending, Nag
<1>4. \A i \in Foremost(rows) : MayNag(rows, nags, i) => MayNag(rows, nags, i)'
    BY <1>1, <1>2, <1>3, ReminderConstants DEF MayNag
<1>5. AskSet'
    BY <1>1 DEF AskSet
<1>6. AskNotYet'
    <2> SUFFICES ASSUME NEW i \in Foremost(rows), ~ MayNag(rows, nags, i)'
                 PROVE  late'[i] = 0
        BY <1>1 DEF AskNotYet
    <2>1. ~ MayNag(rows, nags, i) /\ late[i] = 0
        BY <1>4 DEF AskNotYet
    <2> QED
        BY <1>1, <1>3, <2>1 DEF AskNow
<1>7. AskSoon'
    <2> SUFFICES ASSUME NEW i \in Foremost(rows)
                 PROVE  late'[i] + timer'.left <= Cap + Len(rows) - 1
        BY <1>1 DEF AskSoon, Lateness
    <2>1. CASE late'[i] = 0
        BY <1>2, <1>3, <2>1, ReminderConstants
    <2>2. CASE late'[i] # 0
        <3>1. MayNag(rows, nags, i)
            BY <1>1, <1>3, <2>2 DEF AskNow, AskNotYet
        <3>2. late[i] + timer.left <= Cap + Len(rows) - 1
            BY <3>1 DEF AskSoon, Lateness
        <3>3. up /\ ~running => timer.armed
            BY <3>1 DEF AskSet, MayNag
        <3> QED
            BY <1>1, <1>3, <2>2, <3>2, <3>3
    <2> QED
        BY <2>1, <2>2
<1> QED
    BY <1>5, <1>6, <1>7

LEMMA RestartsKeepAsking ==
    ASSUME AskInv, RemindersInv', Crash \/ Restart
    PROVE  AskInv'
<1> USE DEF AskInv, RemindersInv
<1>1. CASE Crash
    <2>1. /\ up' = FALSE /\ timer'.left = 0 /\ late' = [i \in Ids |-> 0] /\ rows' = rows
        BY <1>1 DEF Crash, Off
    <2>2. \A i \in Foremost(rows) : late'[i] = 0 /\ Len(rows) \in Nat /\ Len(rows) >= 1
        BY <2>1, TypeParts, ForemostRows
    <2> QED
        BY <2>1, <2>2, ReminderConstants DEF AskSet, AskNotYet, AskSoon, Lateness
<1>2. CASE Restart
    <2>1. running' = TRUE /\ UNCHANGED <<now, rows, nags, timer, late>>
        BY <1>2 DEF Restart
    <2> QED
        BY <2>1 DEF AskSet, AskNotYet, AskSoon, MayNag, Lateness
<1> QED
    BY <1>1, <1>2

\* An alarm nobody answered asks again within as much, in time awake, if it was
\* in nagUnacked's and nextReminderWake's window (BUDGET rows) from the moment it
\* fired, however full that window is and whoever waits outside it.
THEOREM AsksInTime == Spec => []ForemostAsks
<1>1. Init => AskInv
    <2> SUFFICES ASSUME Init PROVE AskInv
        OBVIOUS
    <2>1. Foremost(rows) = {} /\ running
        BY DEF Init, Foremost, Open
    <2> QED
        BY <2>1, InitInv DEF AskInv, AskSet, AskNotYet, AskSoon
<1>2. AskInv /\ [Next]_vars => AskInv'
    <2> SUFFICES ASSUME AskInv, [Next]_vars PROVE AskInv'
        OBVIOUS
    <2>0. RemindersInv'
        BY NextKeepsInv DEF AskInv
    <2>1. CASE \E due \in 0 .. MaxTime : Add(due) \/ \E i \in Ids : Snooze(i, due)
        BY <2>0, <2>1, WritesKeepAsking
    <2>2. CASE Settles
        BY <2>0, <2>2, SettlingKeepsAsking
    <2>3. CASE Run
        BY <2>0, <2>3, RunKeepsAsking
    <2>4. CASE Fire \/ RunFails
        BY <2>0, <2>4, TimerKeepsAsking
    <2>5. CASE Tick \/ Suspend
        BY <2>0, <2>5, TimeKeepsAsking
    <2>6. CASE Crash \/ Restart
        BY <2>0, <2>6, RestartsKeepAsking
    <2>7. CASE UNCHANGED vars
        <3>1. UNCHANGED <<now, up, rows, nags, timer, running, late>>
            BY <2>7 DEF vars
        <3> QED
            BY <2>0, <3>1 DEF AskInv, AskSet, AskNotYet, AskSoon, MayNag, Lateness
    <2> QED
        BY <2>1, <2>2, <2>3, <2>4, <2>5, <2>6, <2>7 DEF Next, Settles
<1>3. AskInv => ForemostAsks
    <2> SUFFICES ASSUME AskInv, NEW i \in Foremost(rows), AskNow(i) PROVE late[i] <= Lateness
        BY DEF ForemostAsks
    <2>1. late[i] + timer.left <= Lateness
        BY DEF AskInv, AskSoon, AskNow
    <2>2. timer.left \in Nat /\ late[i] \in Nat /\ Lateness \in Int
        <3>1. /\ rows \in Seq(Row) /\ Len(rows) <= MaxRows
              /\ timer \in TimerRec /\ late \in [Ids -> Nat]
            BY TypeParts DEF AskInv, RemindersInv
        <3> QED
            BY <3>1, ForemostRows, ReminderConstants DEF TimerRec, Lateness
    <2> QED
        BY <2>1, <2>2
<1> QED
    BY <1>1, <1>2, <1>3, PTL DEF Spec

-----------------------------------------------------------------------------
\* Whether and when a reminder fired never changes once it has: no claim, snooze,
\* answer or restart fires a row a second time (drainDue, snoozeReminder).
THEOREM FiresOnce == Spec => FiredOnce
<1>1. TypeOK /\ [Next]_vars =>
          [\A i \in DOMAIN rows :
              rows[i].fired => i \in DOMAIN rows' /\ rows'[i].fired
                               /\ rows'[i].at = rows[i].at]_vars
    <2> SUFFICES ASSUME TypeOK, Next, NEW i \in DOMAIN rows, rows[i].fired
                 PROVE  i \in DOMAIN rows' /\ rows'[i].fired /\ rows'[i].at = rows[i].at
        BY DEF vars
    <2>1. CASE \E due \in 0 .. MaxTime : Add(due) \/ \E j \in Ids : Snooze(j, due)
        BY <2>1, WritesGrow DEF Grown
    <2>2. CASE Settles
        BY <2>2, SettlingKeeps DEF Kept
    <2>3. CASE Run
        <3>1. rows' = Drained(rows) /\ i \notin Pending(rows)
            BY <2>3 DEF Run, Pending
        <3> QED
            BY <3>1, DrainClaims DEF TypeOK
    <2>4. CASE RunFails
        BY <2>4, FailureClaims DEF Claimed, TypeOK
    <2>5. CASE UNCHANGED rows
        BY <2>5
    <2> QED
        BY <2>1, <2>2, <2>3, <2>4, <2>5
           DEF Next, Settles, Fire, Tick, Suspend, Crash, Restart
<1> QED
    BY <1>1, TypeCorrect, PTL DEF Spec, FiredOnce
=============================================================================
