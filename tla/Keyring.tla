------------------------------ MODULE Keyring ------------------------------
(***************************************************************************)
(* Where a secret is: keyring.ts and keyringSwitch.ts, over credentials.ts *)
(* and plugins.ts.  A slot's file holds its value, or a mark when the      *)
(* system keyring holds it; a map in memory is what synchronous readers    *)
(* see.  One operation at a time runs in the queue (`exclusive`): the      *)
(* switch turned on or off, a secret stored, a secret dropped.  Reading    *)
(* the keyring again (`rehydrate`) runs beside them.  Every await, and     *)
(* every file written, is a step; any step may fail, and the process may   *)
(* die between any two.                                                    *)
(***************************************************************************)
EXTENDS Naturals, FiniteSets

CONSTANTS
    Slots,          \* the secrets: tokens and plugin keys
    PluginSlots,    \* those in secrets.json; the others are in credentials.json
    Values,         \* what a secret can be
    Mark, None,     \* KEYRING_MARK; nothing there
    MaxFaults,      \* bound: failures within one store
    MaxStores,      \* bound: secrets stored or dropped
    MaxCrashes      \* bound: deaths of the process

ASSUME KeyringConstants ==
    /\ PluginSlots \subseteq Slots
    /\ None \notin Values /\ Mark \notin Values /\ Mark # None
    /\ MaxFaults \in Nat /\ MaxStores \in Nat /\ MaxCrashes \in Nat

VARIABLES
    file,       \* what the two files hold
    ring,       \* what the system keyring holds
    setting,    \* secretsKeyring in the settings file
    held,       \* the map in memory
    pc,         \* where the operation in the queue is
    move,       \* what turnOn or turnOff has in hand
    store,      \* what a store or a drop has in hand
    hyd,        \* rehydrate: what it has left, and the read it has out
    accepted,   \* history: what each slot may rightly read as
    stores, crashes

disk   == <<file, ring, setting>>
counts == <<stores, crashes>>
vars   == <<file, ring, setting, held, pc, move, store, hyd, accepted, stores, crashes>>

Item     == Values \cup {None}
Nothing  == [s \in Slots |-> None]
NoMove   == [stage |-> "on", todo |-> {}, moved |-> {}, written |-> {},
             real |-> Nothing, before |-> Nothing, slot |-> None]
NoStore  == [slot |-> None, value |-> None, prior |-> None, before |-> None, faults |-> 0]
NoHyd    == [todo |-> {}, slot |-> None, fresh |-> FALSE, seen |-> FALSE, got |-> None]

Marked   == {s \in Slots : file[s] = Mark}
Stored   == {s \in Slots : file[s] # None}
Readable(s) == IF file[s] = Mark THEN ring[s] ELSE file[s]

\* The slots of S that may be next: those of credentials.json go first.
First(S) == IF S \subseteq PluginSlots THEN S ELSE S \ PluginSlots

Init ==
    /\ file \in [Slots -> Values]
    /\ ring = Nothing /\ setting = FALSE /\ held = Nothing
    /\ pc = "idle" /\ move = NoMove /\ store = NoStore /\ hyd = NoHyd
    /\ accepted = [s \in Slots |-> {file[s]}]
    /\ stores = 0 /\ crashes = 0

-----------------------------------------------------------------------------
(* The map in memory: a write by an operation makes a read that is out stale. *)

Touched(s) == hyd' = [hyd EXCEPT !.fresh = @ /\ hyd.slot # s]

\* setHeld, dropHeld
Hold(s, v) == held' = [held EXCEPT ![s] = v] /\ Touched(s)

\* forgetAll
ForgetAll == held' = Nothing /\ hyd' = [hyd EXCEPT !.fresh = FALSE]

Reading == held' = held /\ hyd' = hyd

\* A write of the keyring: done, or reported failed with or without effect.
Put(s, v)     == ring' = [ring EXCEPT ![s] = v]
PutFails(s, v) == Put(s, v) \/ ring' = ring

Done == pc' = "idle" /\ move' = NoMove /\ store' = NoStore
-----------------------------------------------------------------------------
(* Both files rewritten: rewriteBoth, its two files and its way back. *)

InFile(n) == IF n = 1 THEN Slots \ PluginSlots ELSE PluginSlots

ToMark == move.stage \in {"on", "offback"}

\* File n with the moved slots marked, or with their values.
Rewritten(n, mark) ==
    [s \in Slots |-> IF s \in move.moved \cap InFile(n)
                     THEN (IF mark THEN Mark ELSE move.real[s]) ELSE file[s]]

\* Where the two directions go on when both files are rewritten, or are not.
AfterRewrite(ok) ==
    CASE move.stage = "on"      -> pc' = (IF ok THEN "save" ELSE "judge") /\ UNCHANGED <<move, store>>
      [] move.stage = "onback"  -> IF ok THEN pc' = "judge" /\ UNCHANGED <<move, store>> ELSE Done
      [] move.stage = "off"     -> IF ok THEN pc' = "save" /\ UNCHANGED <<move, store>> ELSE Done
      [] move.stage = "offback" -> Done

FirstFile ==
    /\ pc = "first"
    /\ \/ /\ file' = Rewritten(1, ToMark)
          /\ pc' = "second" /\ UNCHANGED <<move, store>>
       \/ /\ file' \in {file, Rewritten(1, ToMark)}
          /\ AfterRewrite(FALSE)
    /\ Reading
    /\ UNCHANGED <<ring, setting, accepted, counts>>

SecondFile ==
    /\ pc = "second"
    /\ \/ /\ file' = Rewritten(2, ToMark)
          /\ AfterRewrite(TRUE)
       \/ /\ file' \in {file, Rewritten(2, ToMark)}
          /\ pc' = "revert" /\ UNCHANGED <<move, store>>
    /\ Reading
    /\ UNCHANGED <<ring, setting, accepted, counts>>

\* The second could not be: the first goes back, and whether it did is not asked.
RevertFirst ==
    /\ pc = "revert"
    /\ file' \in {file, Rewritten(1, ~ToMark)}
    /\ AfterRewrite(FALSE)
    /\ Reading
    /\ UNCHANGED <<ring, setting, accepted, counts>>
-----------------------------------------------------------------------------
(* turnOn *)

TurnOn ==
    /\ pc = "idle"
    /\ pc' = "copy"
    /\ move' = [NoMove EXCEPT !.todo = Stored]
    /\ Reading
    /\ UNCHANGED <<disk, store, accepted, counts>>

\* A slot already moved: the keyring must have it.
CheckMoved(s) ==
    /\ pc = "copy" /\ s \in First(move.todo) /\ file[s] = Mark
    /\ \/ /\ ring[s] # None
          /\ move' = [move EXCEPT !.todo = @ \ {s}]
          /\ Hold(s, ring[s]) /\ UNCHANGED pc
       \/ pc' = "undo" /\ Reading /\ UNCHANGED move
    /\ UNCHANGED <<disk, store, accepted, counts>>

\* A value goes to the keyring, over whatever was there.
Copy(s) ==
    /\ pc = "copy" /\ s \in First(move.todo) /\ file[s] # Mark
    /\ \/ /\ Put(s, file[s])
          /\ move' = [move EXCEPT !.written = @ \cup {s}, !.before[s] = ring[s], !.slot = s]
          /\ pc' = "readback"
       \/ PutFails(s, file[s]) /\ pc' = "undo" /\ UNCHANGED move
    /\ Reading
    /\ UNCHANGED <<file, setting, store, accepted, counts>>

\* It is read back before anything else.
Readback ==
    /\ pc = "readback"
    /\ LET s == move.slot IN
       \/ /\ ring[s] = file[s]
          /\ Hold(s, file[s])
          /\ move' = [move EXCEPT !.todo = @ \ {s}, !.moved = @ \cup {s}, !.real[s] = file[s]]
          /\ pc' = "copy"
       \/ pc' = "undo" /\ Reading /\ UNCHANGED move
    /\ UNCHANGED <<disk, store, accepted, counts>>

Copied ==
    /\ pc = "copy" /\ move.todo = {}
    /\ pc' = IF move.moved = {} THEN "save" ELSE "first"
    /\ Reading
    /\ UNCHANGED <<disk, move, store, accepted, counts>>

\* Mutant: a rewrite that reported failure is believed to have changed nothing.
JudgeUnseen ==
    /\ pc = "judge"
    /\ pc' = "undo" /\ UNCHANGED <<move, store>>
    /\ Reading
    /\ UNCHANGED <<disk, accepted, counts>>

\* Only files seen without the marks let the keyring's copies go.
Judge ==
    /\ pc = "judge"
    /\ IF move.moved \cap Marked # {} THEN Done ELSE pc' = "undo" /\ UNCHANGED <<move, store>>
    /\ Reading
    /\ UNCHANGED <<disk, accepted, counts>>

\* undo: each item written is forgotten, then put back, best effort.
Undo(s) ==
    /\ pc = "undo" /\ s \in First(move.written)
    /\ Hold(s, None)
    /\ move' = [move EXCEPT !.slot = s]
    /\ pc' = "putting"
    /\ UNCHANGED <<disk, store, accepted, counts>>

UndoPut ==
    /\ pc = "putting"
    /\ PutFails(move.slot, move.before[move.slot])
    /\ move' = [move EXCEPT !.written = @ \ {move.slot}]
    /\ pc' = "undo"
    /\ Reading
    /\ UNCHANGED <<file, setting, store, accepted, counts>>

Undone ==
    /\ pc = "undo" /\ move.written = {}
    /\ Done
    /\ Reading
    /\ UNCHANGED <<disk, accepted, counts>>
-----------------------------------------------------------------------------
(* turnOff *)

TurnOff ==
    /\ pc = "idle"
    /\ IF Marked = {}
       THEN setting' \in {setting, FALSE} /\ ForgetAll /\ UNCHANGED <<pc, move>>
       ELSE /\ pc' = "read"
            /\ move' = [NoMove EXCEPT !.stage = "off", !.todo = Marked]
            /\ Reading /\ UNCHANGED setting
    /\ UNCHANGED <<file, ring, store, accepted, counts>>

\* Mutant: the file's own content is taken for the value.
ReadBackFile(s) ==
    /\ pc = "read" /\ s \in First(move.todo)
    /\ \/ /\ ring[s] # None
          /\ move' = [move EXCEPT !.todo = @ \ {s}, !.moved = @ \cup {s}, !.real[s] = file[s]]
          /\ UNCHANGED <<pc, store>>
       \/ Done
    /\ Reading
    /\ UNCHANGED <<disk, accepted, counts>>

\* What a mark points at is read; a secret not there refuses the whole move.
ReadBack(s) ==
    /\ pc = "read" /\ s \in First(move.todo)
    /\ \/ /\ ring[s] # None
          /\ move' = [move EXCEPT !.todo = @ \ {s}, !.moved = @ \cup {s}, !.real[s] = ring[s]]
          /\ UNCHANGED <<pc, store>>
       \/ Done
    /\ Reading
    /\ UNCHANGED <<disk, accepted, counts>>

AllRead ==
    /\ pc = "read" /\ move.todo = {}
    /\ pc' = "first"
    /\ Reading
    /\ UNCHANGED <<disk, move, store, accepted, counts>>

\* The keyring's copies go last; one that cannot be deleted is left behind.
Delete(s) ==
    /\ pc = "delete" /\ s \in First(move.moved)
    /\ PutFails(s, None)
    /\ move' = [move EXCEPT !.moved = @ \ {s}]
    /\ Reading
    /\ UNCHANGED <<file, setting, pc, store, accepted, counts>>

Deleted ==
    /\ pc = "delete" /\ move.moved = {}
    /\ ForgetAll
    /\ Done
    /\ UNCHANGED <<disk, accepted, counts>>

\* writeSecretsKeyring, in either direction, and what its failure sets off.
Save ==
    /\ pc = "save"
    /\ \/ setting' = (move.stage = "on")
          /\ IF move.stage = "on" THEN Done ELSE pc' = "delete" /\ UNCHANGED <<move, store>>
       \/ /\ UNCHANGED <<setting, store>>
          /\ pc' = IF move.moved = {} THEN "undo" ELSE "first"
          /\ move' = IF move.moved = {} THEN move
                     ELSE [move EXCEPT !.stage = IF @ = "on" THEN "onback" ELSE "offback"]
    /\ Reading
    /\ UNCHANGED <<file, ring, accepted, counts>>
-----------------------------------------------------------------------------
(* storeCredential; savePluginSettings, where an empty key (None) is one cleared. *)

MayFault == store.faults < MaxFaults
Fault(st) == [st EXCEPT !.faults = @ + 1]

\* What a slot can be told to hold; only a plugin's settings can say nothing.
Savable(s) == IF s \in PluginSlots THEN Item ELSE Values

StoreBegins(s, v) ==
    /\ pc = "idle" /\ stores < MaxStores
    /\ stores' = stores + 1
    /\ UNCHANGED <<ring, setting, move, crashes>>

\* The keyring is off: the file takes the value, or refuses it.
StorePlain(s, v) ==
    /\ StoreBegins(s, v)
    /\ ~setting
    /\ \/ file' = [file EXCEPT ![s] = v] /\ accepted' = [accepted EXCEPT ![s] = {v}]
       \/ UNCHANGED <<file, accepted>>
    /\ Reading
    /\ UNCHANGED <<pc, store>>

\* The keyring is on: what it holds is read first, to put back if the save fails.
StoreSealed(s, v) ==
    /\ StoreBegins(s, v)
    /\ setting
    /\ pc' = IF v = None THEN "drop" ELSE "seal"
    /\ accepted' = [accepted EXCEPT ![s] = @ \cup {v}]
    /\ LET st == [NoStore EXCEPT !.slot = s, !.value = v]
       IN  \/ store' = [st EXCEPT !.prior = ring[s]]
           \/ MaxFaults > 0 /\ store' = Fault(st)
    /\ Reading
    /\ UNCHANGED file

\* A refused key is put back whatever failed; a refused token is not.
Refused(st) ==
    IF store.slot \in PluginSlots THEN pc' = "putback" /\ store' = st /\ UNCHANGED move ELSE Done

\* sealValue: the keyring must be ready, is read once more, and is written.
Seal ==
    /\ pc = "seal"
    /\ \E st \in {[store EXCEPT !.before = ring[store.slot]]}
                 \cup (IF MayFault THEN {Fault(store)} ELSE {}) :
          \/ Put(store.slot, store.value) /\ pc' = "sealed" /\ store' = st /\ UNCHANGED move
          \/ /\ st.faults < MaxFaults
             /\ PutFails(store.slot, store.value) /\ Refused(Fault(st))
    /\ Reading
    /\ UNCHANGED <<file, setting, accepted, counts>>

\* It is read back, and only then held; what cannot be read back was not kept.
Sealed ==
    /\ pc = "sealed"
    /\ \/ /\ Hold(store.slot, store.value)
          /\ pc' = "filing" /\ UNCHANGED store
       \/ MayFault /\ pc' = "unseal" /\ store' = Fault(store) /\ Reading
    /\ UNCHANGED <<disk, move, accepted, counts>>

\* The item is put back as it was read, or deleted if nothing was read.
Unseal ==
    /\ pc = "unseal"
    /\ \/ Put(store.slot, store.before) /\ Refused(store)
       \/ MayFault /\ PutFails(store.slot, store.before) /\ Refused(Fault(store))
    /\ Reading
    /\ UNCHANGED <<file, setting, accepted, counts>>

\* dropValue of a key cleared: the keyring's copy goes, or what it was is put back.
DropKey ==
    /\ pc = "drop"
    /\ \/ /\ Put(store.slot, None) /\ Hold(store.slot, None)
          /\ pc' = "filing" /\ UNCHANGED store
       \/ /\ MayFault /\ PutFails(store.slot, None) /\ Reading
          /\ pc' = "putback" /\ store' = Fault(store)
    /\ UNCHANGED <<file, setting, move, accepted, counts>>

\* The file takes the mark or forgets the key; if not, the keyring goes back.
Filing ==
    /\ pc = "filing"
    /\ \/ /\ file' = [file EXCEPT ![store.slot] = IF store.value = None THEN None ELSE Mark]
          /\ accepted' = [accepted EXCEPT ![store.slot] = {store.value}]
          /\ Done
       \/ /\ MayFault /\ pc' = "putback" /\ store' = Fault(store)
          /\ UNCHANGED <<file, move, accepted>>
    /\ Reading
    /\ UNCHANGED <<ring, setting, counts>>

\* putBack
PutBack ==
    /\ pc = "putback"
    /\ \/ Put(store.slot, store.prior) /\ Hold(store.slot, store.prior)
       \/ MayFault /\ PutFails(store.slot, store.prior) /\ Reading
    /\ Done
    /\ UNCHANGED <<file, setting, accepted, counts>>
-----------------------------------------------------------------------------
(* disconnectProvider, and keepSecrets: a plugin revoked, replaced or removed *)

\* The keyring's copy goes before the file's, and a failure leaves the file.
Drop(s) ==
    /\ pc = "idle" /\ stores < MaxStores /\ file[s] # None
    /\ stores' = stores + 1
    /\ accepted' = [accepted EXCEPT ![s] = @ \cup {None}]
    /\ IF setting \/ file[s] = Mark
       THEN \/ Put(s, None) /\ Hold(s, None) /\ pc' = "clear"
            \/ PutFails(s, None) /\ Reading /\ UNCHANGED pc
       ELSE pc' = "clear" /\ Reading /\ UNCHANGED ring
    /\ store' = IF pc' = "clear" THEN [NoStore EXCEPT !.slot = s] ELSE store
    /\ UNCHANGED <<file, setting, move, crashes>>

Clear ==
    /\ pc = "clear"
    /\ \/ file' = [file EXCEPT ![store.slot] = None]
          /\ accepted' = [accepted EXCEPT ![store.slot] = {None}]
       \/ UNCHANGED <<file, accepted>>
    /\ Done
    /\ Reading
    /\ UNCHANGED <<ring, setting, counts>>
-----------------------------------------------------------------------------
(* hydrateKeyring: one read out at a time, beside the queue. *)

Hydrate ==
    /\ hyd = NoHyd /\ Marked # {}
    /\ hyd' = [NoHyd EXCEPT !.todo = Marked]
    /\ UNCHANGED <<disk, held, pc, move, store, accepted, counts>>

Ask(s) ==
    /\ s \in First(hyd.todo) /\ hyd.slot = None
    /\ hyd' = [hyd EXCEPT !.todo = @ \ {s}, !.slot = s, !.fresh = TRUE, !.seen = FALSE]
    /\ UNCHANGED <<disk, held, pc, move, store, accepted, counts>>

See ==
    /\ hyd.slot # None /\ ~hyd.seen
    /\ hyd' = [hyd EXCEPT !.seen = TRUE, !.got = ring[hyd.slot]]
    /\ UNCHANGED <<disk, held, pc, move, store, accepted, counts>>

AfterSeen == IF hyd.todo = {} THEN NoHyd
             ELSE [hyd EXCEPT !.slot = None, !.fresh = FALSE, !.seen = FALSE, !.got = None]

\* Mutant: what the read returned is taken, whatever happened meanwhile.
LearnAnyway ==
    /\ hyd.slot # None /\ hyd.seen
    /\ held' = [held EXCEPT ![hyd.slot] = hyd.got]
    /\ hyd' = AfterSeen
    /\ UNCHANGED <<disk, pc, move, store, accepted, counts>>

\* A value written while the read was out is the newer one.
Learn ==
    /\ hyd.slot # None /\ hyd.seen
    /\ held' = IF hyd.fresh THEN [held EXCEPT ![hyd.slot] = hyd.got] ELSE held
    /\ hyd' = AfterSeen
    /\ UNCHANGED <<disk, pc, move, store, accepted, counts>>

\* The keyring is not ready, or a read fails: the rest is left.
HydrateStops ==
    /\ hyd # NoHyd
    /\ hyd' = NoHyd
    /\ UNCHANGED <<disk, held, pc, move, store, accepted, counts>>

\* The process dies and starts again: boot reads the keyring.  A settings file
\* that was being written may be cut short, which reads as off.
Crash ==
    /\ crashes < MaxCrashes
    /\ crashes' = crashes + 1
    /\ held' = Nothing
    /\ setting' \in IF pc = "save" THEN {setting, FALSE} ELSE {setting}
    /\ hyd' = IF Marked = {} THEN NoHyd ELSE [NoHyd EXCEPT !.todo = Marked]
    /\ Done
    /\ UNCHANGED <<file, ring, accepted, stores>>

Next ==
    \/ TurnOn \/ Readback \/ Copied \/ Judge \/ UndoPut \/ Undone
    \/ TurnOff \/ AllRead \/ Deleted
    \/ FirstFile \/ SecondFile \/ RevertFirst \/ Save
    \/ \E s \in Slots : CheckMoved(s) \/ Copy(s) \/ Undo(s) \/ ReadBack(s) \/ Delete(s)
    \/ \E s \in Slots : \E v \in Savable(s) : StorePlain(s, v) \/ StoreSealed(s, v)
    \/ DropKey \/ Seal \/ Sealed \/ Unseal \/ Filing \/ PutBack
    \/ (\E s \in Slots : Drop(s)) \/ Clear
    \/ Hydrate \/ (\E s \in Slots : Ask(s)) \/ See \/ Learn \/ HydrateStops
    \/ Crash

Spec == Init /\ [][Next]_vars
-----------------------------------------------------------------------------
\* Every variable keeps its type.
TypeOK ==
    /\ file \in [Slots -> Values \cup {None, Mark}]
    /\ ring \in [Slots -> Item] /\ held \in [Slots -> Item]
    /\ setting \in BOOLEAN
    /\ pc \in {"idle", "copy", "readback", "first", "second", "revert", "judge", "undo", "putting", "save",
               "read", "delete", "seal", "drop", "sealed", "unseal", "filing", "putback", "clear"}
    /\ move \in [stage : {"on", "onback", "off", "offback"}, todo : SUBSET Slots,
                 moved : SUBSET Slots, written : SUBSET Slots, real : [Slots -> Item],
                 before : [Slots -> Item], slot : Slots \cup {None}]
    /\ store \in [slot : Slots \cup {None}, value : Item, prior : Item, before : Item,
                  faults : 0 .. MaxFaults]
    /\ hyd \in [todo : SUBSET Slots, slot : Slots \cup {None}, fresh : BOOLEAN,
                seen : BOOLEAN, got : Item]
    /\ accepted \in [Slots -> SUBSET Item]
    /\ stores \in 0 .. MaxStores /\ crashes \in 0 .. MaxCrashes

\* keyring.ts:15: "A secret is never in neither place."  Whatever fails and
\* wherever the process dies, a slot reads as the last value stored in it, or as
\* one whose storing (or dropping) was begun later and never finished.
NeverLost == \A s \in Slots : Readable(s) \in accepted[s]

\* What the process uses for a slot the keyring keeps is nothing, or a value the
\* slot may rightly read as: an older token read by a slow rehydrate never
\* replaces the one just stored, and an undone move leaves none behind.
HeldIsCurrent ==
    \A s \in Marked : held[s] # None => held[s] \in accepted[s]
=============================================================================
