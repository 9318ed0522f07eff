# agentglass, verified

agentglass is a local server (`server/`, TypeScript on Bun) that watches and
steers coding agents: hooks in the agents report what they do and ask before
they do it, a web page, a desktop shell and a phone show it to one person, and
the person answers. These modules are a formal model of the parts of that
server where an order of events decides whether it is right: what each promises,
how the code keeps the promise, what TLC finds on small instances and what the
TLAPS proof system establishes for every instance.

Run a check with `tlc -config MCGate_held.cfg MCGate`, and a proof with
`tlapm GateProofs.tla`. `PROJECT.json` lists every run, the source lines each
definition stands for, the mutations each property catches, the hazards and the
findings.

## The system

Everything is one process with one JavaScript event loop, a SQLite file in the
state directory, small JSON files in the configuration directory, and the
subprocesses it drives (`git`, `gh`, `docker`, `tmux`, `task`). A handler runs
without interruption up to its next `await`; everything hard below comes from
what may happen at an `await`, from time, and from the process dying.

| component | state | operations | what is hard | what makes it right |
|---|---|---|---|---|
| **gate** (`hooks/gate_event.py`, `gate.ts`, gates table of `db.ts`, routes of `index.ts`) | a row per held tool call, a map of waiters with timers, one HTTP connection per hook | hold, attach again, status, decide, time out, deny or allow by rule, erase, restore at boot | a hook that retries over a lossy connection, a server that crashes, a person and a timer racing | one ruling per call, never changed; nothing outward goes ahead without a person; every hook lets go in the end |
| **spawn pool** (`spawnpool.ts`) | a count, a line of waiters, a guard timer per call | take a slot, wait, release, guard, test reset | continuations queued on the event loop, a subprocess that never ends | no slot leaked or returned twice, no wake-up lost, everyone runs |
| **shared reads** (`ttlread.ts`, `singleflight.ts`) | remembered answers, loads in flight | read, forced read, forget, land, fail | a load in flight across a write | bounded staleness, no flight leaked, a forced read sees the write |
| **reminders and wake-ups** (`reminders.ts`, `wakeup.ts`) | rows with a due time, one timer, counts of repeats | add, snooze, answer, claim, ask again, forget, boot | a timer set from a state that changes, a suspended laptop, restarts | fires once, and on time; asks again while unanswered |
| **keyring switch** (`keyringSwitch.ts`, `keyring.ts`, `credentials.ts`, `plugins.ts`) | two secret files, the system keyring, a setting, a map in memory | move all on or off, store, drop, read again | six steps over four stores, each of which can fail or be the last | no secret lost, none comes back old |
| **phone windows** (`mirrorlease.ts`, the window half of `tmuxctl.ts` and `terminal.ts`) | a grouped session per phone, the window's size, zoom and mark in tmux, a lease file, what each attach remembers, two timers per closed socket | open, fit, close, tear down, take over, fit from the desk, reclaim, sweep, stop, boot | five stores nobody writes together, clients that linger, a server killed anywhere, two phones | the desk gets its width back and keeps what it took; no session outlives its phone |
| **seat** (`seatreport.ts`, `seatwake.ts`, `seatnotice.ts`, `seatqueue.ts`, `seat.ts`, `lanternwatch.ts`) | a tray of reports, parked notices, the last wake, a queue of work with claims | report, wake, park, flush, read, open and close the chair, claim, finish, release | a person typing in the same box, prompts that fail, agents that die holding work, a restart that forgets the wakes | a stopped agent is heard; a task is with one agent, twice at most, and comes back |
| **settings door** (`settingsDoor.ts`, `settingClass.ts`, `agentRulesStore.ts`, `serverSettings.ts`) | cards waiting for the person, each with a timer; rules and modes with cards of their own | ask, replace, approve, decline, expire, apply after an await, set by hand | the setting moves meanwhile, two windows answer, a late click, an await before the write | one card, one answer, one write; an agent never widens what only the person may |
| tmux lock, pairing | a file of locks; one-time tickets | take, release; mint, claim, accept, collect | two processes; expiry | each at most once |

The components meet in few places: the gate, reminders and the settings door
call the alert channel (delivery is allowed to fail and changes no state of
theirs); panels read through the shared reads, whose loads take a slot of the
spawn pool; the settings door may run the keyring switch. Each of these calls is
a single call whose result is used locally, so the components are modelled one
by one, with what they call as an environment that may answer, fail or be late.
`PROJECT.json` lists the rest of the system (panels over GitHub, Jira, Docker,
git; terminals; plugins; ingest and usage; the web, mobile and desktop clients)
with the reason each is not modelled.

## Modules

`HeldCall` is the abstract promise of the gate; `Gate` is the gate. `SpawnPool`,
`ReadCache`, `Reminders`, `Keyring`, `PhoneWindow`, `Seat` and `SettingsDoor` are
one component each. `MC<Module>` gives the constants for TLC, one `.cfg` per run.
Each of the eight components has its theorems in `<Module>Proofs`. Operators marked
"Mutant" are plausible bugs of the definition below them; they are part of no
specification.

### HeldCall and Gate

A hook handles one tool call and makes one request at a time, so its connection
is one variable: `link[c]` is closed, a request on its way, held by the server,
or an answer coming back. A request whose client has gone may still arrive
(`stray`). `rows` is the gates table and survives a crash; `waiter` is the map
of `gate.ts` and does not; `hook`, `sent` and `deadline` are the locals of
`main()` in the hook. `Start`, `Retry`, `Hear*`, `ReadTimeout` and `GiveUp` are
the hook; `Attach`, `Replay`, `Unknown`, `RuleSpeaks`, `RuleUnrecorded`, `Hold`
and `HoldFails` are what `POST /gate` and `/gate/status` can do with a request;
`Decide`, `Timeout`, `EraseHistory`, `Crash` and `Restart` are the person, the
timer, the erase button, and the end and the boot of the process. `log`,
`gaveUp` and `offRecord` are history. Which rule matches which tool is an input:
a rule may speak or not at any moment.

`HeldCall` says the same without connections, timers, rows or restarts: rulings
that their author may give, at most one standing per call, each hook settling on
a ruling really given or giving up. `Gate!Abs` is the refinement mapping: the
standing rulings are the decided rows, the spoken ones the history.

### SpawnPool

A job is one call of `withSpawnSlot`. Resolving a promise only queues what awaits
it, so the model has the microtask queue (`micro`): a call that starts, a woken
waiter and the `finally` of a settled one each have an entry, handled in order.
A guard timer fires only on an empty queue. `Reset` is the test seam: it brings
back calls of an earlier generation, which is where a slot would be returned twice.

### ReadCache

One key of `ttlRead`. A load is sent, answered by GitHub from what is true at
that moment (`See`), remembered (`Store`) and closed (`Settle`): three awaits,
between which writes, other reads and `forgetReads` happen. The answer carries
the version and the time it was true, for the properties only. A load cannot
outlive the kill timeout of its subprocess (`MaxLoad`).

### Reminders

`rows` are numbered in insertion order; `timer` is the one timer of `wakeup.ts`;
`nags` dies with the process. A tick is the timer's floor of 250 ms. The wall
clock and the timer part ways in `Suspend`. `Run` is one claim with everything it
calls: `drainDue`, `nagUnacked`, and the `finally` that sets the timer; `RunFails` is
one whose first statement or whose second throws. `Forget` is the erase button and the
daily pruning, which take settled rows. The two
places that pick the few alarms that ask again do so in different orders, and so
do `NagWindow` and `WakeWindow`. `late` is history: how long, awake and without a
failure, a row has been owed something.

### Keyring

`file` is what the two secret files hold per slot, `ring` the system keyring,
`held` the map in memory. Operations are serial (`exclusive`), so the one that runs has a
program counter `pc`, and each `await` and each file written is a step:
`turnOn`, `turnOff`, storing and dropping a secret. A plugin's key goes in two ways:
`Drop` is the plugin revoked, replaced or removed, and like a token's it puts nothing
back; a key cleared among its settings (a store of `None`, then `DropKey`) puts back what
was there if the keyring or the file refuses, and with the setting off leaves the keyring
alone. `rehydrate` is not in the queue
and runs beside them. A keyring write that fails may have taken effect; a
rewrite that reports failure may have landed; the
process may die at every step. `accepted` is history: the value last stored in a
slot, and those begun to be stored since.

### PhoneWindow

`window` and `session` are tmux's own and outlive the server; `attach` is the
`PhoneAttach` of `terminal.ts`, `socket` a websocket and, once closed, its place
on the `owed` ledger; `leases` is the lease file with the zooms known in memory;
`claimed` is the desk's take-over. `OpenPane` is `attachArgvFor`, which decides
and records before anything happens, and `Land` is tmux running the argv it
built: between the two the server's other handlers run. `CloseSocket` starts the
two teardown timers, `TearDown` is one of them; `ClientGoes` may leave a session
behind. `TakeOver`, `DeskFit` and `DeskZoom` are the person; `Reclaim`
is the panel's poll, `SweepMirrors` the interval, `ServerKilled`, `ServerStops`,
`BootReap` and `BootSweep` the life of the process. `Restored` is
`restoreWindows`, whose order of questions decides everything: is a phone on the
window, did the desk take it, does it already read what it had. `PutBack` is the
shutdown's loop of it, newest attach first. `phoneZoom`, `tookManual` and `raced` are
history: whose zoom the window has, whether `manual` was taken for the way back, and
whether a mark came off while an argv was out.

What is fixed: one window on the engine's own socket, more than one pane, a desk
client that stays attached and is wider than the phone. Between a spawn and tmux running
its argv anything may happen, with one bound: the first of a closed attach's own two
timers (1500 ms) finds its argv run or its client gone. The reclaim's two
seconds of patience are left out: it only ever comes later.

### Seat

`reports`, `parked` and `task` are rows of the database; `woken`, `sending` and
`looking` die with the process. A prompt is in `sending` between the decision to
send it and what `promptSeat` finds in the chair: nobody, a box with text in it or
a turn in flight (`Park`), or an empty one (`TypedIn`). `LookStarts` and
`LookEnds` are `wakeSeats` around its await of the parked notices. The
queue's `by` and `tries` are `taken_by` and `attempts`; `Claim` is the route with
its own look at the attempts and the conditional UPDATE. The agent in the chair
claims a row for a name it opens next, as its instructions have it: `handing` is
that window, in which `NeverOpens` or a look may intervene, and an agent is opened
for one task. `missed`, `early` and `handed` are history. `FieldChanges` is
all the board can say: whether something in the project needs a person.

### SettingsDoor

A value is its rank on the ladder of `settingClass.ts`. `Verdict` is what an
agent's change comes to; `Queue` makes a card, replacing the caller's older one,
unless `MAX_PENDING` wait; `Approve` is a yes up to the first await of `decide`,
`Applies` what happens after it; `GoesPast` and `Timer` are the two ways time
counts, `expires` and a timer 50 ms later. A setting lives in the server, in a window,
in a rule of a project, in a base rule or in the launch mode. The last two are reached in
two ways (`Ways`): through the door, as `launch.deny` and `launch.mode`, and through the
store of the rules. `Reads`, `Values` and `Written` say what each way sees, takes and
leaves (`writeLaunchBase` lifts what was denied and no more), and `Granted` what a yes does
in each. `Drop` takes a rule's cards down when the store writes it;
`writeLaunchBase`, which Settings, `POST /launch-permissions` and the door's two settings
call, takes none down. `Reaches` is the wall around a seat, which lets it to the door and
not to the store. The removal of a rule is `PersonSets`. `applied` is history.

## What the runs show

| run | shows | bounds |
|---|---|---|
| `gate_held` | type, queue = undecided rows, nothing outward proceeds without a person, one ruling per call, decisions stand, windows are fixed, `Gate` refines `HeldCall`; every hook lets go and every hold resolves | one outward call, a fail-open machine, patience 2, six ticks |
| `pool_slots` | the count is the slots out; no wake-up lost; everyone runs though no subprocess ends | five calls, two slots, test resets |
| `reads_answers` | no flight leaked; no answer older than a ttl and a load; every read answered | two readers, one write, four ticks |
| `reads_forced` | **finding**: a forced read can join a flight older than its write | as above |
| `reminders_on_time` | each fires once, and within the cap; one that is in the window since it fired asks again within the cap | two rows, window of one, seven ticks |
| `reminders_answered` | **finding**: an alarm let into the window by an answer is not asked about | as above |
| `keyring_moves` | no secret lost or old, in the stores or in memory | one token, one plugin key, two values, two stores, clearings or drops, one crash, one failure per store, any number per move |
| `phone_back` | a narrow window is provably the phone's and gets its width back; what the desk took stays taken but for an argv that was out; no session outlives its phone | two phones, two panes, one act of the desk or end of the process |
| `phone_pinned` | **finding**: a window fitted by hand stays at the phone's width, unmarked | one phone, one act |
| `seat_heard` | a report that an agent is stopped is read; one agent per task, two ever; a vanished agent's work comes back | one report, one task, two names, one mishap |
| `door_cards` | one card per ask, one write per answer; what is the person's stays the person's; cards leave | two agents, one confined; the switch, a value kept for the person, a window's setting and a base rule; three requests, two places, one write by hand |
| `door_stale` | **finding**: a yes applies a card whose setting has moved on | one agent, one request, a setting of each kind |

Why the bounds are enough. The gate run has one call: calls share nothing but
the clock and the life of the server, every action touches one call or acts on
each by itself, and the theorems hold for any set of calls. Six ticks let a hold
expire, be restored and be retried after its hook's deadline. The call is outward and
the machine fails open, which is where the two policies differ; inward calls and machines
that fail closed take the same steps and are covered, but for liveness, by the theorems. Two slots are
fewer than the code's least limit (four), which only makes contention denser;
five calls give two out, two waiting and one arriving. Two readers are a flight's
owner and a joiner, of either kind. Two reminders and a window of one are
the alarm inside the window and the one outside. One secret per file is what tells the
two files, and the way back from the second, apart; a second store is what makes a first one old.
Two phones are one that leaves while another stays, and one that opens on what
another left; one act of the desk or one end of the process falls between any two
of their steps, and between an argv built and an argv run. Two names are what a task can
be wrongly given to twice, and one report is heard or it is not: others only raise the count that wakes the seat.
Three requests on two places are an older ask, a newer one and one too many. The launch
mode, whose cards one caller may have several of, and the rules of a project are in
`door_stale` alone. In `Class`, `personTop` is the absolute value kept for the person, as of
`flightPlan.pilot`; the relative one of budgets ("raised") is not modelled.
Every property is also checked against a mutation of the code that it must catch.

**Findings.** Four places where the code does not do what a comment beside it says;
`PROJECT.json` quotes each and the run's counterexample shows it.

1. `ttlread.ts:36`: all forced reads of a key share one flight, so one may be answered
   from before the write that made it necessary.
2. `tmuxctl.ts:4746`: a window the desk had fitted reads `manual` before the phone and
   after it; the restore takes that for put back, clears the mark and leaves the
   phone's width, the state its own comment says nothing can ever fix.
3. `agentRulesStore.ts:302`: a card of a rule or of the launch mode is applied without a
   look at what its setting reads by then. It relies on being taken down when the setting
   moves, which the mode's other writes and `writeLaunchBase` do not do; a server setting is
   compared, but before the await of its validation.
4. `reminders.ts:123`: answering an alarm does not set the timer. The alarm it lets into a
   full nag window stays silent if the timer was off, though `wakeup.ts:16` has a new
   row for the only change a sleeping timer cannot see.

**Seen while modelling**, and left without a run of its own:

- `gate_event.py:295`: sending a lost request again asks for the whole window anew,
  so the server may hold a call after its hook has let it go.
- `spawnpool.ts:106`: between the release that wakes a waiter and the waiter's own
  turn a call already queued takes the slot, and the count passes the limit.
- `ttlread.ts:40`: a plain load that began before a write may land after `forgetReads`, or
  after a forced load, and put the old answer back for a ttl. `AnswerAge` bounds it and
  does not forbid it.
- `keyring.ts:243`: a keyring read that failed is taken for "nothing there"; a second
  failure in the same store then deletes an item a file still points at, which is
  why `keyring_moves` has one failure per store.
- `mirrorlease.ts:69`: `load` reads leases back without their zoom, so a killed
  server's zoom stays until somebody takes it off; and `tmuxctl.ts:3886` forgets a
  lease whose session is still being spawned, though the comment above it says a
  session that cannot be seen may not be forgotten. `TakenBackStays` therefore
  speaks of zooms made, and no property of zooms that end.
- `tmuxctl.ts:4304` asks whether the desk has the window when it builds the argv; tmux runs
  it some milliseconds later. A take-over in between (or a restore or a reclaim) takes the
  mark off, and the argv then narrows and zooms a window that is claimed and unmarked, and
  that the sweep does not know for the phone's. While the claim holds no teardown
  puts it back. The properties leave exactly this out (`raced`, `LateLanding`).
- A `largest` taken as the way back by a second phone leaves `largest` when both are gone;
  a fit from the desk sets no claim, so a phone's next frame narrows the window again.
- `seatwoken.ts:10` says the first look after a restart wakes every seat once;
  `seatwake.ts:142` skips a seat on its first sighting. The fingerprint is noted before
  the prompt is sent and its outcome is not looked at, so a lost wake is not repeated.
  `BlockerHeard` is claimed for behaviours in which a last word is not lost for good.
- `seatreport.ts:277` hands over 100 reports and marks all that are unread.
- `seatqueue.ts:135` frees a row whose agent is not open yet; two agents may then be on
  one task. `OneAtWork` leaves exactly these out (`early`).

## Fairness

Liveness is claimed under weak fairness of what the runtime really does and
nothing else. Gate: time passes, a started hook runs on and its socket timeout
fires, a server that is down is brought back (`Restart`), timers and live
requests are served; people, agents, the network and crashes owe nothing, so the
server may crash for ever and the hook still ends by its own deadline. SpawnPool:
the microtask queue is drained and guard timers fire; no subprocess need end.
ReadCache: a load ends, by `gh`'s kill timeout if not before. Reminders and
Keyring claim no liveness: being on time is stated as a bound, which is safety.
PhoneWindow: timers and intervals fire, tmux runs what it was given, the client
of a closed socket goes in the end, a dead server is started again, and a panel
of the desk is open, since it is its poll that reclaims; no phone need close and no
person need act. Seat: the Lantern's watch is on, a prompt on its way arrives
within its timeout, a turn of the agent ends, and a seat that was told to read its inbox
does; whoever keeps filling the box submits it again and again (strong fairness, the
only one), or a notice could stay parked behind one unsent sentence for ever.
SettingsDoor: time passes and timers fire; nobody need answer or look.
In the gate run the clock stops at `MaxTime`; a hook starts, and a hold is
taken, only if its window ends before that, so no liveness property is cut off
by the bound.

## What is proved

All theorems hold for every value of the constants that satisfies the one assumption
beside their declaration (`GateConstants`, `PoolConstants`, `CacheConstants`,
`ReminderConstants`, `KeyringConstants`, `WindowConstants`, `SeatConstants`,
`DoorConstants`: bounds are natural numbers, what must not be empty is not, model
values differ), and TLAPS checks them with nothing else assumed. One has a
hypothesis, stated in the theorem and explained below. Every safety invariant and
action property of the passing runs is proved.

*Gate* (`GateProofs`): `TypeCorrect`; `QueueSafe`, the queue in memory is the
undecided rows; `OnlyAPersonApproves`; `RuledOnce`; `DecisionsStand`;
`WindowsFixed`; and `GateImplementsHeldCall`, the refinement. `QueueMatchesRows`
is inductive with the types alone. `ProceedsOnAWord` and `OneRuling` are not:
what the hook did says nothing about who ruled unless every answer on its way
was spoken for that call by somebody entitled to it. `RulingsAccounted` says
exactly that of the rows, the connections and the outcomes, call by call, and
`HookMatchesLink` ties the connection to where the hook is; with the queue
invariant they are inductive, and both properties follow. The refinement shows
each step of the gate to be a ruling, an erasure, a hook settling or giving up, or
a stutter, with the same invariants.

*SpawnPool* (`SpawnPoolProofs`): `TypeCorrect`, `SlotsKept` and `NoWakeUpLost`,
for any finite set of calls and any limit. The invariant is `TypeOK`,
`SlotsAccounted`, `NoIdleSlot` and `LineMatchesStages` together: the count never
goes negative because it is the number of slots held, and a release keeps
`NoIdleSlot` because the head of the line is a call that is really waiting, and
is there once, so waking it adds one to the calls on their way to a slot.

*ReadCache* (`ReadCacheProofs`): `TypeCorrect`, `NoFlightLeaks` (`FlightsAreLoads`)
and `AnswersAreRecent` (`AnswerAge`), for any callers, ttl, kill timeout and number
of writes. An answer's age says nothing about the next one's, so the invariant dates
what answers come from: `LoadsTimed`, no load in flight is older than its subprocess
may be and what it brought was true while it ran; `MemoTimed`, what is remembered was
true at most a load before it was remembered; `OwnersWait` and `WaitersJoined`,
whoever waits waits for a running load of the kind asked for. Forgetting and failing
only take away; a landing answers its own readers and leaves the rest theirs.

*Reminders* (`RemindersProofs`): `TypeCorrect`, `FiresInTime` (`FiresOnTime`),
`AsksInTime` (`ForemostAsks`) and `FiresOnce` (`FiredOnce`), for any number of
reminders, any cap and any nagging. That a due reminder is not too late is not
inductive: the timer decides how late it will be. `DueSoon` adds the two up, `late[i] + timer.left` is
within the bound for what is due; `TimerSet` says that a run is on or the timer
is whenever something is pending, and `NotYetLate` that the clock has run for nothing
else. A write may put off a run about to start by the floor, and adds a row, which is
where the bound's `Len(rows)` comes from. `AsksInTime` has the same three parts for
alarms that ask again. Of all alarms it would be false, as the fourth finding shows; it
speaks of those that were in the window (`Budget` rows) from the moment they
fired (`Foremost`). That set only grows by a run, which sets the timer: an answer, a snooze
or an erasure leaves who else ever fired as it was.

*Keyring* (`KeyringProofs`): `TypeCorrect`, `SecretsKept` (`NeverLost`),
`HeldStaysCurrent` (`HeldIsCurrent`) and `NeverAnotherValue`, for any secrets, any
split over the two files, any number of stores and deaths, and any failures of a move. Between two
steps of a move a secret may be in one place only, so the invariant says which, per
step. `MovedInRing`: what has moved is in the keyring with the value that will go to
the file, until an undo begins. `UndoUnmarked` and `DeleteUnmarked`: what is
put back or deleted is what no file points at, which is why the order of the two
files matters. `StoreInv` says the same of a store that is half done, and
`MemoryGood` follows the value in memory and the read that is still out, which may
land after both. `SecretsKept` has the hypothesis `MaxFaults <= 1`, the failures one
store may meet: a second one deletes an item a file still points at (`keyring.ts:243`,
seen while modelling). `NeverAnotherValue` is what holds without it, for any number of failures: a slot
then reads as a value it may have or as nothing, never as an old one.

*PhoneWindow* (`PhoneWindowProofs`): `TypeCorrect`, `NarrowStaysProvable`
(`StillProvable`) and `TakenBackHolds` (`TakenBackStays`), for any panes, number of
phones, acts of the desk and ends of the process. The proof gives more than
`StillProvable` asks: until `manual` is once recorded, or a mark comes off while an argv is
out, a narrow window carries its mark whoever owes it something (`NarrowIsMarked`). Three
facts keep it so. A narrow window reads `manual` (`NarrowIsManual`), and neither the mark
nor any attach has `manual` for the way back (`HadNotManual`), so a restore, or the boot's
sweep, that finds the window as it was and clears the mark finds a wide one. A phone about to
land has its window marked unless `raced` says otherwise (`SpawningMarked`), so a landing
cannot narrow an unmarked one; that is also where a death between the spawn and the landing
is dealt with. `ClaimHolds`, under a take-over no open phone fits, and no argv narrows or
zooms but one that was out, gives the action property with its one exception (`LateLanding`). The shutdown puts back any number of attaches one after
another: `PutBackSound` is an induction over its turns.

*Seat* (`SeatProofs`): `TypeCorrect`, `OneAgentPerTask` and `NoThirdGo`, for any
names, tasks, attempts, reports and mishaps (`SeatConstants`). The invariant adds
two parts. `AttemptsCounted`: the attempts on a row are the times it was handed
out; a release keeps them, which is all `NeverThird` needs. `HandsHoldRows`:
whoever has been given a task, or is about to be, is the one on its row, unless it
is finished or was freed early; `OneAtWork` follows, because a row has one name.
Steps of the tray leave the queue alone and are proved together.

*SettingsDoor* (`SettingsDoorProofs`): `TypeCorrect` with the ceiling, `OneCard`,
`OneWrite` and `PersonsHand`, for
any agents, settings, classes and ceilings (`DoorConstants`). The three state
properties are inductive together with `Separate` (a request that is being applied
no longer waits), `Made` (what was never asked waits nowhere and was never applied,
so a new card starts clean) and `AsksFitAgents` (no card asks for the switch on, or for
a value kept for the person), from which the action property follows.

The library's induction theorems take an operator, which the provers here cannot
instantiate. Where a proof needs induction over numbers it is stated with sets:
`LeastMoment` (Reminders) and `LeastNumber` (PhoneWindow) take the least element of a
set of naturals from well-foundedness, `UpTo` goes from each number to the next, and
`PutBackTurns` unfolds a recursive function with it. Induction over other data was not
needed.

Only model-checked: all liveness (`NarrowEnds`, `MirrorsEnd`, `EveryReadAnswered` and
those of the gate, the pool, the seat and the door), which rests on fairness and on
ENABLED, which the prover does not treat; and the finding runs, whose counterexamples
are TLC's.

## Not modelled

In the gate: which tool a rule matches (`gaterules.ts`), the words told to the
chair, and a throwing UPDATE in `finish`. In the pool: statistics. In the reads:
more than one key (keys share only the sweep past `MAX_ENTRIES`, which `Forget`
covers). In the reminders: the resolution of a local time in a zone, the text
and delivery of a notification, and the schedule that uses `wakeup.ts` as a
second caller. In the keyring: an unreadable credentials file, a save of several
plugin keys at once, two rehydrations at once, and the D-Bus protocol. Around a
phone's window: a panel's own view sessions, several windows, tmux servers other
than the engine's, typing and drawing. Around the seat: the needs it puts to the
person, dropped tasks and cleared rows, the limits on notices (8) and on reports
read at once (100), the line of an overdue look, Polaris, and every text. At the
door: secrets, the scope of a setting, a rule suggested and not in force, several rules in
one write of `launch.deny`, the diff and its size limit, Polaris' asks, and
which rule speaks for an action. What of this can go wrong and has no property is a
hazard in `PROJECT.json` with a note.

The rest of the repository, most of it by lines, is the interface (React views,
a phone app, a desktop shell) and adapters over `git`, `gh`, Jira, Docker and the
file system: their states are copies of what another program says, and their
difficulty is in data. The components of `PROJECT.json` say so one by one.

## Plan

What is left, in this order.

1. `Pairing`: a ticket minted, claimed, accepted and collected, each once, under
   expiry; `TmuxLock`, a file read, changed and rewritten by two processes.
2. An abstract specification of a phone's window (who has it, and what it goes back
   to) that `PhoneWindow` implements while `tookManual` is false, and one of a secret's
   life that `Keyring` implements.
3. In `Seat` and `SettingsDoor`, the bounds on what waits (parked notices, cards) as
   invariants of their own.
