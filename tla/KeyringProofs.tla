--------------------------- MODULE KeyringProofs ---------------------------
(***************************************************************************)
(* Proofs about the keyring switch, for any secrets, any split over the    *)
(* two files, any number of stores and deaths, and any failures of a move. *)
(***************************************************************************)
EXTENDS Keyring, TLAPS

Stages  == {"on", "onback", "off", "offback"}
Storing == {"seal", "drop", "sealed", "unseal", "filing", "putback", "clear"}
Moving  == {"copy", "readback", "first", "second", "revert", "judge", "undo", "putting",
            "save", "read", "delete"}
Undoing == {"undo", "putting"}

-----------------------------------------------------------------------------
(* What the stores hold. *)

\* What a keyring read that failed is taken for: two failures in one store let it
\* pass for what was there.
Blank == IF MaxFaults > 1 THEN {None} ELSE {}

Rightly(s) == accepted[s] \cup Blank

\* Every place a slot is read from holds what it may read as.
PlacesGood ==
    \A s \in Slots : IF file[s] = Mark THEN ring[s] \in Rightly(s) ELSE file[s] \in accepted[s]

\* The slots whose value in memory counts: marked, or about to be.
Kept == Marked \cup (IF pc \in Undoing THEN {} ELSE move.moved)

\* What memory has of them, and what a read that is out and still fresh has seen.
MemoryGood ==
    \A s \in Kept :
        /\ held[s] # None => held[s] \in accepted[s]
        /\ hyd.slot = s /\ hyd.fresh /\ hyd.seen /\ hyd.got # None => hyd.got \in accepted[s]

-----------------------------------------------------------------------------
(* What a move has in hand. *)

\* A slot that moved is in the keyring with the value that goes to its file.
MovedInRing ==
    pc \notin Undoing =>
        \A s \in move.moved : ring[s] = move.real[s] /\ move.real[s] \in accepted[s]

\* What is still to do has not moved; a slot being copied is still to do.
ToDoUnmoved ==
    /\ pc \in {"copy", "readback", "read"} => move.todo \cap move.moved = {}
    /\ pc \in {"copy", "readback"} => move.todo \subseteq Stored
    /\ pc = "readback" => move.slot \in move.todo
    /\ pc = "read" => move.todo \subseteq Marked

\* Only what no file points at is put back.
UndoUnmarked ==
    /\ pc \in {"copy", "readback", "undo", "putting"} => move.written \cap Marked = {}
    /\ pc = "putting" => move.slot \in move.written
    /\ pc = "readback" => move.written \subseteq move.moved \cup {move.slot}
    /\ pc \in {"copy", "read", "first", "second", "revert", "judge", "save"}
          => move.written \subseteq move.moved

\* Nothing is deleted from the keyring while a file may point at it.
DeleteUnmarked ==
    /\ pc = "second" /\ move.stage = "off" => move.moved \cap InFile(1) \cap Marked = {}
    /\ (pc = "save" /\ move.stage = "off") \/ pc = "delete" => move.moved \cap Marked = {}
    /\ pc = "save" => move.stage \in {"on", "off"}
    /\ pc \in {"copy", "readback"} => move.stage = "on"

MoveRests == pc \notin Moving => move.moved = {}

MoveInv == MovedInRing /\ ToDoUnmoved /\ UndoUnmarked /\ DeleteUnmarked /\ MoveRests

-----------------------------------------------------------------------------
(* What a store has in hand. *)

\* v is what the slot may read as, or nothing at all after n failures.
PutsBack(v, n) ==
    file[store.slot] = Mark =>
        v \in Rightly(store.slot) \/ (v = None /\ store.faults >= n)

StoreInv ==
    /\ pc \in Storing => store.slot \in Slots
    /\ pc \in Storing \ {"clear"} => store.value \in accepted[store.slot]
    /\ pc \in {"seal", "sealed", "unseal"} => store.value \in Values
    /\ pc = "drop" => store.value = None
    /\ pc \in {"seal", "drop", "sealed", "filing"} => PutsBack(store.prior, 1)
    /\ pc \in {"unseal", "putback"} => PutsBack(store.prior, 2)
    /\ pc = "seal" => store.before = None
    /\ pc = "sealed" => PutsBack(store.before, 1)
    /\ pc = "unseal" => PutsBack(store.before, 2)
    /\ pc \in {"sealed", "filing"} => ring[store.slot] = store.value
    /\ pc = "filing" =>
          /\ held[store.slot] = store.value
          /\ hyd.slot = store.slot /\ hyd.fresh /\ hyd.seen => hyd.got = store.value

KeyringInv == TypeOK /\ PlacesGood /\ MemoryGood /\ MoveInv /\ StoreInv

-----------------------------------------------------------------------------
(* Types, part by part, and the pieces the steps are made of. *)

MoveRec  == [stage : Stages, todo : SUBSET Slots, moved : SUBSET Slots, written : SUBSET Slots,
             real : [Slots -> Item], before : [Slots -> Item], slot : Slots \cup {None}]
StoreRec == [slot : Slots \cup {None}, value : Item, prior : Item, before : Item,
             faults : 0 .. MaxFaults]
HydRec   == [todo : SUBSET Slots, slot : Slots \cup {None}, fresh : BOOLEAN,
             seen : BOOLEAN, got : Item]

StoresType == /\ file \in [Slots -> Values \cup {None, Mark}]
              /\ ring \in [Slots -> Item] /\ setting \in BOOLEAN
              /\ accepted \in [Slots -> SUBSET Item]
MemoryType == held \in [Slots -> Item] /\ hyd \in HydRec
WorkType   == pc \in {"idle"} \cup Moving \cup Storing /\ move \in MoveRec /\ store \in StoreRec
CountType  == stores \in 0 .. MaxStores /\ crashes \in 0 .. MaxCrashes

LEMMA TypeParts == TypeOK <=> StoresType /\ MemoryType /\ WorkType /\ CountType
    BY DEF TypeOK, StoresType, MemoryType, WorkType, CountType, MoveRec, StoreRec, HydRec,
           Stages, Moving, Storing

LEMMA PartsType == StoresType' /\ MemoryType' /\ WorkType' /\ CountType' => TypeOK'
    BY DEF TypeOK, StoresType, MemoryType, WorkType, CountType, MoveRec, StoreRec, HydRec,
           Stages, Moving, Storing

LEMMA RestTypes ==
    /\ Nothing \in [Slots -> Item]
    /\ NoMove \in MoveRec /\ NoStore \in StoreRec /\ NoHyd \in HydRec
    BY KeyringConstants DEF Nothing, Item, NoMove, MoveRec, Stages, NoStore, StoreRec, NoHyd, HydRec

\* No move under way, none to account for.
LEMMA RestingMove ==
    ASSUME pc' \notin Moving, move'.moved = {}
    PROVE  MoveInv'
    BY DEF MoveInv, MovedInRing, ToDoUnmoved, UndoUnmarked, DeleteUnmarked, MoveRests, Moving

\* No store under way, none to account for.
LEMMA RestingStore ==
    ASSUME pc' \notin Storing
    PROVE  StoreInv'
    BY DEF StoreInv, Storing

\* Memory left alone stays good while no slot begins to count.
LEMMA ReadingKeepsMemory ==
    ASSUME MemoryGood, Reading,
           \A s \in Kept' : s \in Kept /\ accepted[s] \subseteq accepted'[s]
    PROVE  MemoryGood'
<1>1. held' = held /\ hyd' = hyd
    BY DEF Reading
<1> QED
    BY <1>1 DEF MemoryGood

\* A value written to memory makes the read that is out stale.
LEMMA HoldKeepsMemory ==
    ASSUME MemoryType, MemoryGood, NEW s \in Slots, NEW v, Hold(s, v),
           s \in Kept' => v = None \/ v \in accepted'[s],
           \A t \in Kept' : t \in Slots /\ (t # s => t \in Kept /\ accepted[t] \subseteq accepted'[t])
    PROVE  MemoryGood'
<1>1. held' = [held EXCEPT ![s] = v] /\ hyd' = [hyd EXCEPT !.fresh = @ /\ hyd.slot # s]
    BY DEF Hold, Touched
<1>2. /\ hyd'.slot = hyd.slot /\ hyd'.seen = hyd.seen /\ hyd'.got = hyd.got
      /\ hyd'.fresh => hyd.fresh /\ hyd.slot # s
    BY <1>1 DEF MemoryType, HydRec
<1>3. held'[s] = v /\ \A t \in Slots \ {s} : held'[t] = held[t]
    BY <1>1 DEF MemoryType
<1> SUFFICES ASSUME NEW t \in Kept'
             PROVE  /\ held'[t] # None => held'[t] \in accepted'[t]
                    /\ hyd'.slot = t /\ hyd'.fresh /\ hyd'.seen /\ hyd'.got # None
                          => hyd'.got \in accepted'[t]
    BY DEF MemoryGood
<1>4. CASE t = s
    BY <1>2, <1>3, <1>4
<1>5. CASE t # s
    BY <1>2, <1>3, <1>5 DEF MemoryGood
<1> QED
    BY <1>4, <1>5

LEMMA HoldKeepsType ==
    ASSUME MemoryType, NEW s, NEW v \in Item, Hold(s, v)
    PROVE  MemoryType'
    BY DEF MemoryType, Hold, Touched, HydRec

\* Memory emptied is good, and stays so.
LEMMA ForgettingIsGood ==
    ASSUME MemoryType, ForgetAll, Kept' \subseteq Slots
    PROVE  MemoryType' /\ MemoryGood'
<1>1. held' = Nothing /\ hyd' = [hyd EXCEPT !.fresh = FALSE]
    BY DEF ForgetAll
<1>2. hyd' \in HydRec /\ ~hyd'.fresh
    BY <1>1 DEF MemoryType, HydRec
<1>3. MemoryType'
    BY <1>1, <1>2, RestTypes DEF MemoryType
<1>4. \A s \in Slots : held'[s] = None
    BY <1>1 DEF Nothing
<1> QED
    BY <1>2, <1>3, <1>4 DEF MemoryGood

-----------------------------------------------------------------------------

LEMMA InitInv == Init => KeyringInv
<1> SUFFICES ASSUME Init PROVE KeyringInv
    OBVIOUS
<1>1. StoresType
    BY RestTypes DEF Init, StoresType, Item
<1>2. MemoryType /\ WorkType /\ CountType
    BY RestTypes, KeyringConstants DEF Init, MemoryType, WorkType, CountType
<1>3. file \in [Slots -> Values] /\ accepted = [s \in Slots |-> {file[s]}] /\ held = Nothing /\ hyd = NoHyd
    BY DEF Init
<1>4. \A s \in Slots : file[s] # Mark /\ file[s] \in accepted[s]
    BY <1>3, KeyringConstants
<1>5. PlacesGood
    BY <1>4 DEF PlacesGood
<1>6. pc = "idle" /\ move.moved = {}
    BY DEF Init, NoMove
<1>7. Kept = {}
    BY <1>4, <1>6 DEF Kept, Marked, Undoing
<1>8. MemoryGood
    BY <1>7 DEF MemoryGood
<1>9. MoveInv
    BY <1>6 DEF MoveInv, MovedInRing, ToDoUnmoved, UndoUnmarked, DeleteUnmarked, MoveRests
<1>10. StoreInv
    BY <1>6 DEF StoreInv, Storing
<1> QED
    BY <1>1, <1>2, <1>5, <1>8, <1>9, <1>10, TypeParts DEF KeyringInv

-----------------------------------------------------------------------------
(* Reading the keyring again. *)

HydrateStep == Hydrate \/ (\E s \in Slots : Ask(s)) \/ See \/ Learn \/ HydrateStops

LEMMA HydrateKeepsInv ==
    ASSUME KeyringInv, HydrateStep
    PROVE  KeyringInv'
<1> USE DEF KeyringInv
<1>1. UNCHANGED <<disk, pc, move, store, accepted, counts>>
    BY DEF HydrateStep, Hydrate, Ask, See, Learn, HydrateStops
<1>2. UNCHANGED <<file, ring, setting, pc, move, store, accepted, stores, crashes>>
    BY <1>1 DEF disk, counts
<1>3. StoresType' /\ WorkType' /\ CountType'
    BY <1>2, TypeParts DEF StoresType, WorkType, CountType
<1>4. PlacesGood' /\ MoveInv'
    BY <1>2 DEF PlacesGood, Rightly, MoveInv, MovedInRing, ToDoUnmoved, UndoUnmarked,
                DeleteUnmarked, MoveRests, Marked, Stored
<1>5. Kept' = Kept /\ Kept \subseteq Slots
    BY <1>2, TypeParts DEF Kept, Marked, WorkType, MoveRec
<1>6. \A s \in Kept : ring[s] # None => ring[s] \in accepted[s]
    BY DEF Kept, Marked, PlacesGood, Rightly, Blank, MoveInv, MovedInRing
<1> DEFINE FilingHeld == pc = "filing" =>
              /\ held'[store.slot] = store.value
              /\ hyd'.slot = store.slot /\ hyd'.fresh /\ hyd'.seen => hyd'.got = store.value
<1>7. MemoryType' /\ MemoryGood' /\ FilingHeld
    <2> USE TypeParts DEF MemoryType
    <2>0. pc = "filing" => store.slot \in Slots /\ ring[store.slot] = store.value
        BY DEF StoreInv, Storing
    <2>1. CASE Hydrate \/ HydrateStops
        <3>1. hyd' \in HydRec /\ ~hyd'.fresh /\ held' = held
            BY <2>1, RestTypes DEF Hydrate, HydrateStops, HydRec, NoHyd, Marked
        <3> QED
            BY <1>2, <1>5, <3>1 DEF MemoryGood, StoreInv
    <2>2. ASSUME NEW s \in Slots, Ask(s) PROVE MemoryType' /\ MemoryGood' /\ FilingHeld
        <3>1. hyd' \in HydRec /\ ~hyd'.seen /\ held' = held
            BY <2>2 DEF Ask, HydRec
        <3> QED
            BY <1>2, <1>5, <3>1 DEF MemoryGood, StoreInv
    <2>3. CASE See
        <3>1. hyd' \in HydRec /\ hyd'.got = ring[hyd'.slot] /\ held' = held
            BY <2>3 DEF See, HydRec, StoresType
        <3> QED
            BY <1>2, <1>5, <1>6, <2>0, <3>1 DEF MemoryGood, StoreInv
    <2>4. CASE Learn
        <3>1. hyd.slot \in Slots /\ hyd.seen /\ hyd.got \in Item
            BY <2>4 DEF Learn, HydRec
        <3>2. held' = IF hyd.fresh THEN [held EXCEPT ![hyd.slot] = hyd.got] ELSE held
            BY <2>4 DEF Learn
        <3>3. hyd' \in HydRec /\ ~hyd'.fresh
            BY <2>4, RestTypes DEF Learn, AfterSeen, HydRec, NoHyd
        <3> QED
            BY <1>2, <1>5, <2>0, <3>1, <3>2, <3>3 DEF MemoryGood, StoreInv
    <2> QED
        BY <2>1, <2>2, <2>3, <2>4 DEF HydrateStep
<1>8. StoreInv'
    BY <1>2, <1>7 DEF StoreInv, PutsBack, Rightly
<1> QED
    BY <1>3, <1>4, <1>7, <1>8, PartsType

-----------------------------------------------------------------------------
(* Steps of a move that write no store. *)

\* A step of a move that only reads leaves every place as it is.
LEMMA QuietKeepsPlaces ==
    ASSUME StoresType, PlacesGood, UNCHANGED <<file, ring, accepted>>, setting' \in BOOLEAN
    PROVE  StoresType' /\ PlacesGood'
    BY DEF StoresType, PlacesGood, Rightly

\* What ends a move or a store rests, and nothing new counts.
LEMMA DoneKeepsInv ==
    ASSUME KeyringInv, Done, UNCHANGED <<file, ring, accepted, counts>>, setting' \in BOOLEAN,
           Reading \/ ForgetAll
    PROVE  KeyringInv'
<1> USE DEF KeyringInv
<1>1. pc' = "idle" /\ move' = NoMove /\ store' = NoStore /\ move'.moved = {}
    BY DEF Done, NoMove
<1>2. StoresType' /\ PlacesGood'
    BY TypeParts, QuietKeepsPlaces
<1>3. WorkType' /\ CountType'
    BY <1>1, RestTypes, TypeParts DEF WorkType, CountType, counts
<1>4. MoveInv' /\ StoreInv'
    BY <1>1, RestingMove, RestingStore DEF Moving, Storing
<1>5. Kept' \subseteq Kept /\ Kept' \subseteq Slots
    BY <1>1, TypeParts DEF Kept, Marked, Undoing
<1>6. MemoryType' /\ MemoryGood'
    <2>1. CASE Reading
        BY <1>5, <2>1, TypeParts, ReadingKeepsMemory DEF Reading, MemoryType
    <2>2. CASE ForgetAll
        BY <1>5, <2>2, TypeParts, ForgettingIsGood
    <2> QED
        BY <2>1, <2>2
<1> QED
    BY <1>2, <1>3, <1>4, <1>6, PartsType

\* So does what only moves the program counter, and the invariant of the move with it.
LEMMA QuietStep ==
    ASSUME KeyringInv, UNCHANGED <<disk, store, accepted, counts>>, Reading,
           pc' \in Moving, move' \in MoveRec, MoveInv',
           \A s \in move'.moved : pc' \in Undoing \/ s \in Kept
    PROVE  KeyringInv'
<1> USE DEF KeyringInv
<1>1. UNCHANGED <<file, ring, setting, store, accepted, stores, crashes>>
    BY DEF disk, counts
<1>2. StoresType' /\ PlacesGood'
    BY <1>1, TypeParts, QuietKeepsPlaces DEF StoresType
<1>3. WorkType' /\ CountType'
    BY <1>1, TypeParts DEF WorkType, CountType
<1>4. StoreInv'
    BY RestingStore DEF Moving, Storing
<1>5. Kept' \subseteq Kept
    BY <1>1 DEF Kept, Marked
<1>6. MemoryType' /\ MemoryGood'
    BY <1>1, <1>5, TypeParts, ReadingKeepsMemory DEF Reading, MemoryType
<1> QED
    BY <1>2, <1>3, <1>4, <1>6, PartsType

LEMMA OnStepsKeepInv ==
    ASSUME KeyringInv, TurnOn \/ Copied \/ Judge \/ Undone
    PROVE  KeyringInv'
<1> USE DEF KeyringInv
<1>0. move \in MoveRec /\ (move.moved \cap Marked # {} \/ move.moved \cap Marked = {})
    BY TypeParts DEF WorkType
<1>1. CASE TurnOn
    <2>1. /\ pc' = "copy" /\ move' = [NoMove EXCEPT !.todo = Stored]
          /\ UNCHANGED <<disk, store, accepted, counts>> /\ Reading
        BY <1>1 DEF TurnOn
    <2>2. /\ move' \in MoveRec /\ move'.stage = "on"
          /\ move'.todo = Stored /\ move'.moved = {} /\ move'.written = {}
        BY <2>1, RestTypes DEF MoveRec, NoMove, Stored
    <2>3. MoveInv'
        BY <2>1, <2>2 DEF MoveInv, MovedInRing, ToDoUnmoved, UndoUnmarked, DeleteUnmarked,
                          MoveRests, Moving, Undoing, disk, Stored
    <2> QED
        BY <2>1, <2>2, <2>3, QuietStep DEF Moving
<1>2. CASE Copied
    <2>1. /\ pc = "copy" /\ pc' \in {"save", "first"} /\ move' = move
          /\ pc' = "save" => move.moved = {}
          /\ UNCHANGED <<disk, store, accepted, counts>> /\ Reading
        BY <1>2 DEF Copied
    <2>2. MoveInv'
        BY <2>1 DEF MoveInv, MovedInRing, ToDoUnmoved, UndoUnmarked, DeleteUnmarked,
                    MoveRests, Moving, Undoing, disk
    <2> QED
        BY <1>0, <2>1, <2>2, QuietStep DEF Moving, Kept, Undoing
<1>3. CASE Judge
    <2>1. CASE move.moved \cap Marked # {}
        BY <1>3, <2>1, TypeParts, DoneKeepsInv DEF Judge, disk, StoresType
    <2>2. CASE move.moved \cap Marked = {}
        <3>1. /\ pc = "judge" /\ pc' = "undo" /\ move' = move
              /\ UNCHANGED <<disk, store, accepted, counts>> /\ Reading
            BY <1>3, <2>2 DEF Judge
        <3>2. MoveInv'
            BY <2>2, <3>1 DEF MoveInv, MovedInRing, ToDoUnmoved, UndoUnmarked, DeleteUnmarked,
                              MoveRests, Moving, Undoing, disk, Marked
        <3> QED
            BY <1>0, <3>1, <3>2, QuietStep DEF Moving, Undoing
    <2> QED
        BY <2>1, <2>2
<1>4. CASE Undone
    BY <1>4, TypeParts, DoneKeepsInv DEF Undone, disk, StoresType
<1> QED
    BY <1>1, <1>2, <1>3, <1>4

\* A step that writes one slot of the memory, a slot that rightly reads so.
LEMMA HoldStep ==
    ASSUME KeyringInv, UNCHANGED <<disk, store, accepted, counts>>,
           NEW s \in Slots, NEW v \in Item, Hold(s, v), v = None \/ v \in accepted[s],
           pc' \in Moving, move' \in MoveRec, MoveInv',
           \A t \in move'.moved : pc' \in Undoing \/ t = s \/ t \in Kept
    PROVE  KeyringInv'
<1> USE DEF KeyringInv
<1>1. UNCHANGED <<file, ring, setting, store, accepted, stores, crashes>>
    BY DEF disk, counts
<1>2. StoresType' /\ PlacesGood'
    BY <1>1, TypeParts, QuietKeepsPlaces DEF StoresType
<1>3. WorkType' /\ CountType'
    BY <1>1, TypeParts DEF WorkType, CountType
<1>4. StoreInv'
    BY RestingStore DEF Moving, Storing
<1>5. \A t \in Kept' : t \in Slots /\ (t # s => t \in Kept)
    BY <1>1 DEF Kept, Marked, MoveRec
<1>6. MemoryType' /\ MemoryGood'
    BY <1>1, <1>5, TypeParts, HoldKeepsMemory, HoldKeepsType
<1> QED
    BY <1>2, <1>3, <1>4, <1>6, PartsType

LEMMA CheckMovedKeepsInv ==
    ASSUME KeyringInv, NEW s \in Slots, CheckMoved(s)
    PROVE  KeyringInv'
<1> USE DEF KeyringInv
<1>0. move \in MoveRec /\ ring \in [Slots -> Item] /\ pc = "copy" /\ file[s] = Mark
      /\ UNCHANGED <<disk, store, accepted, counts>>
    BY TypeParts DEF WorkType, StoresType, CheckMoved
<1>1. CASE ring[s] # None /\ move' = [move EXCEPT !.todo = @ \ {s}] /\ Hold(s, ring[s]) /\ UNCHANGED pc
    <2>1. /\ move' \in MoveRec /\ move'.todo \subseteq move.todo
          /\ move'.moved = move.moved /\ move'.written = move.written
          /\ move'.real = move.real /\ move'.slot = move.slot /\ move'.stage = move.stage
        BY <1>0, <1>1 DEF MoveRec
    <2>2. MoveInv'
        BY <1>0, <1>1, <2>1 DEF MoveInv, MovedInRing, ToDoUnmoved, UndoUnmarked, DeleteUnmarked,
                    MoveRests, Moving, Undoing, disk, Stored, Marked
    <2>3. ring[s] \in accepted[s]
        BY <1>0, <1>1 DEF PlacesGood, Rightly, Blank
    <2> QED
        BY <1>0, <1>1, <2>1, <2>2, <2>3, HoldStep DEF Moving, Kept, Undoing
<1>2. CASE pc' = "undo" /\ Reading /\ UNCHANGED move
    <2>1. MoveInv'
        BY <1>0, <1>2 DEF MoveInv, MovedInRing, ToDoUnmoved, UndoUnmarked, DeleteUnmarked,
                    MoveRests, Moving, Undoing, disk, Marked
    <2> QED
        BY <1>0, <1>2, <2>1, QuietStep DEF Moving, Undoing
<1> QED
    BY <1>1, <1>2 DEF CheckMoved

LEMMA ReadbackKeepsInv ==
    ASSUME KeyringInv, Readback
    PROVE  KeyringInv'
<1> USE DEF KeyringInv
<1> DEFINE s == move.slot
<1>0. /\ move \in MoveRec /\ ring \in [Slots -> Item] /\ pc = "readback"
      /\ s \in move.todo /\ s \in Slots /\ s \notin move.moved
      /\ UNCHANGED <<disk, store, accepted, counts>>
    BY TypeParts DEF WorkType, StoresType, Readback, MoveInv, ToDoUnmoved, MoveRec
<1>1. CASE /\ ring[s] = file[s] /\ Hold(s, file[s]) /\ pc' = "copy"
           /\ move' = [move EXCEPT !.todo = @ \ {s}, !.moved = @ \cup {s}, !.real[s] = file[s]]
    <2>1. /\ file[s] \in Item /\ file[s] # Mark /\ file[s] \in accepted[s]
        BY <1>0, <1>1, KeyringConstants DEF Item, PlacesGood
    <2>2. /\ move' \in MoveRec
          /\ move'.todo = move.todo \ {s} /\ move'.moved = move.moved \cup {s}
          /\ move'.written = move.written /\ move'.stage = move.stage
          /\ move'.real[s] = file[s] /\ \A t \in Slots \ {s} : move'.real[t] = move.real[t]
        BY <1>0, <1>1, <2>1 DEF MoveRec
    <2>3. MoveInv'
        <3>1. MovedInRing'
            BY <1>0, <1>1, <2>1, <2>2 DEF MoveInv, MovedInRing, disk, MoveRec, Undoing
        <3>2. ToDoUnmoved' /\ UndoUnmarked'
            BY <1>0, <1>1, <2>2 DEF MoveInv, ToDoUnmoved, UndoUnmarked, disk, Stored, Marked
        <3> QED
            BY <1>0, <1>1, <2>2, <3>1, <3>2 DEF MoveInv, DeleteUnmarked, MoveRests, Moving
    <2> QED
        BY <1>0, <1>1, <2>1, <2>2, <2>3, HoldStep DEF Moving, Kept, Undoing
<1>2. CASE pc' = "undo" /\ Reading /\ UNCHANGED move
    <2>1. MoveInv'
        BY <1>0, <1>2 DEF MoveInv, MovedInRing, ToDoUnmoved, UndoUnmarked, DeleteUnmarked,
                    MoveRests, Moving, Undoing, disk, Marked
    <2> QED
        BY <1>0, <1>2, <2>1, QuietStep DEF Moving, Undoing
<1> QED
    BY <1>1, <1>2 DEF Readback

LEMMA UndoKeepsInv ==
    ASSUME KeyringInv, NEW s \in Slots, Undo(s)
    PROVE  KeyringInv'
<1> USE DEF KeyringInv
<1>0. /\ move \in MoveRec /\ pc = "undo" /\ s \in move.written /\ Hold(s, None) /\ pc' = "putting"
      /\ move' = [move EXCEPT !.slot = s]
      /\ UNCHANGED <<disk, store, accepted, counts>>
    BY TypeParts DEF WorkType, Undo, First
<1>1. move' \in MoveRec /\ move'.written = move.written /\ move'.slot = s
    BY <1>0 DEF MoveRec
<1>2. MoveInv'
    BY <1>0, <1>1 DEF MoveInv, MovedInRing, ToDoUnmoved, UndoUnmarked, DeleteUnmarked,
                MoveRests, Moving, Undoing, disk, Marked
<1> QED
    BY <1>0, <1>1, <1>2, HoldStep DEF Moving, Undoing, Item

LEMMA OffStepsKeepInv ==
    ASSUME KeyringInv, TurnOff \/ (\E s \in Slots : ReadBack(s)) \/ AllRead \/ Deleted
    PROVE  KeyringInv'
<1> USE DEF KeyringInv
<1>0. move \in MoveRec /\ setting \in BOOLEAN
    BY TypeParts DEF WorkType, StoresType
<1>1. CASE TurnOff
    <2>1. CASE Marked = {}
        <3>1. /\ pc = "idle" /\ pc' = pc /\ move' = move /\ ForgetAll /\ setting' \in BOOLEAN
              /\ UNCHANGED <<file, ring, store, accepted, counts>>
            BY <1>0, <1>1, <2>1 DEF TurnOff
        <3>2. StoresType' /\ PlacesGood'
            BY <3>1, TypeParts, QuietKeepsPlaces
        <3>3. WorkType' /\ CountType'
            BY <3>1, TypeParts DEF WorkType, CountType, counts
        <3>4. move'.moved = {}
            BY <3>1 DEF MoveInv, MoveRests, Moving
        <3>5. MoveInv' /\ StoreInv'
            BY <3>1, <3>4, RestingMove, RestingStore DEF Moving, Storing
        <3>6. Kept' \subseteq Slots
            BY <3>4 DEF Kept, Marked
        <3>7. MemoryType' /\ MemoryGood'
            BY <3>1, <3>6, TypeParts, ForgettingIsGood
        <3> QED
            BY <3>2, <3>3, <3>5, <3>7, PartsType
    <2>2. CASE Marked # {}
        <3>1. /\ pc' = "read" /\ move' = [NoMove EXCEPT !.stage = "off", !.todo = Marked]
              /\ UNCHANGED <<disk, store, accepted, counts>> /\ Reading
            BY <1>1, <2>2 DEF TurnOff, disk
        <3>2. move' \in MoveRec /\ move'.todo = Marked /\ move'.moved = {} /\ move'.written = {}
            BY <3>1, RestTypes DEF MoveRec, NoMove, Marked, Stages
        <3>3. MoveInv'
            BY <3>1, <3>2 DEF MoveInv, MovedInRing, ToDoUnmoved, UndoUnmarked, DeleteUnmarked,
                              MoveRests, Moving, Undoing, disk, Marked
        <3> QED
            BY <3>1, <3>2, <3>3, QuietStep DEF Moving
    <2> QED
        BY <2>1, <2>2
<1>2. ASSUME NEW s \in Slots, ReadBack(s) PROVE KeyringInv'
    <2>1. CASE Done
        BY <1>2, <2>1, TypeParts, DoneKeepsInv DEF ReadBack, disk, StoresType
    <2>2. CASE /\ ring[s] # None /\ UNCHANGED <<pc, store>>
               /\ move' = [move EXCEPT !.todo = @ \ {s}, !.moved = @ \cup {s}, !.real[s] = ring[s]]
        <3>1. /\ pc = "read" /\ s \in move.todo /\ pc' = "read"
              /\ UNCHANGED <<disk, store, accepted, counts>> /\ Reading
            BY <1>2, <2>2 DEF ReadBack, First
        <3>2. s \in Marked /\ s \notin move.moved /\ ring[s] \in accepted[s] /\ ring[s] \in Item
            BY <2>2, <3>1, TypeParts
            DEF MoveInv, ToDoUnmoved, Marked, PlacesGood, Rightly, Blank, StoresType
        <3>3. /\ move' \in MoveRec
              /\ move'.todo = move.todo \ {s} /\ move'.moved = move.moved \cup {s}
              /\ move'.written = move.written
              /\ move'.real[s] = ring[s] /\ \A t \in Slots \ {s} : move'.real[t] = move.real[t]
            BY <1>0, <2>2, <3>2 DEF MoveRec
        <3>4. MoveInv'
            <4>1. MovedInRing'
                BY <1>0, <3>1, <3>2, <3>3 DEF MoveInv, MovedInRing, disk, MoveRec, Undoing
            <4>2. ToDoUnmoved' /\ UndoUnmarked'
                BY <3>1, <3>3 DEF MoveInv, ToDoUnmoved, UndoUnmarked, disk, Marked
            <4> QED
                BY <3>1, <4>1, <4>2 DEF MoveInv, DeleteUnmarked, MoveRests, Moving
        <3> QED
            BY <3>1, <3>2, <3>3, <3>4, QuietStep DEF Moving, Kept, Undoing
    <2> QED
        BY <1>2, <2>1, <2>2 DEF ReadBack
<1>3. CASE AllRead
    <2>1. /\ pc = "read" /\ pc' = "first" /\ move' = move
          /\ UNCHANGED <<disk, store, accepted, counts>> /\ Reading
        BY <1>3 DEF AllRead
    <2>2. MoveInv'
        BY <2>1 DEF MoveInv, MovedInRing, ToDoUnmoved, UndoUnmarked, DeleteUnmarked,
                    MoveRests, Moving, Undoing, disk
    <2> QED
        BY <1>0, <2>1, <2>2, QuietStep DEF Moving, Kept, Undoing
<1>4. CASE Deleted
    BY <1>4, TypeParts, DoneKeepsInv DEF Deleted, disk, StoresType
<1> QED
    BY <1>1, <1>2, <1>3, <1>4

-----------------------------------------------------------------------------
(* Steps of a move that write a store. *)

\* What a file becomes: some moved slots of it marked, or with their values.
PartlyRewritten(n) ==
    \A s \in Slots : \/ file'[s] = file[s]
                     \/ s \in move.moved \cap InFile(n) /\ file'[s] \in {Mark, move.real[s]}

\* Moving off, the values are back in file n when it is done.
Unsealed(n) == move.stage = "off" => \A s \in move.moved \cap InFile(n) : file'[s] = move.real[s]

LEMMA RewriteIs ==
    ASSUME WorkType, StoresType, NEW n \in {1, 2},
           \/ file' = file \/ file' = Rewritten(n, ToMark) \/ file' = Rewritten(n, ~ToMark)
    PROVE  /\ file' \in [Slots -> Item \cup {Mark}] /\ PartlyRewritten(n)
           /\ file' = Rewritten(n, ToMark) => Unsealed(n)
<1>1. /\ move.moved \subseteq Slots /\ move.real \in [Slots -> Item]
      /\ file \in [Slots -> Item \cup {Mark}]
    BY DEF WorkType, MoveRec, StoresType, Item
<1>2. CASE file' = file
    BY <1>1, <1>2 DEF PartlyRewritten, Unsealed, Rewritten, ToMark
<1>3. CASE file' = Rewritten(n, ToMark)
    BY <1>1, <1>3 DEF PartlyRewritten, Unsealed, Rewritten, ToMark
<1>4. CASE file' = Rewritten(n, ~ToMark)
    BY <1>1, <1>4 DEF PartlyRewritten, Unsealed, Rewritten, ToMark
<1> QED
    BY <1>2, <1>3, <1>4

LEMMA RewrittenGood ==
    ASSUME KeyringInv, pc \in {"first", "second", "revert"}, NEW n \in {1, 2},
           file' \in [Slots -> Item \cup {Mark}], PartlyRewritten(n),
           UNCHANGED <<ring, setting, accepted>>
    PROVE  /\ StoresType' /\ PlacesGood'
           /\ Marked' \subseteq Marked \cup move.moved
           /\ Unsealed(n) /\ move.stage = "off" => Marked' \cap move.moved \cap InFile(n) = {}
<1> USE DEF KeyringInv
<1>1. \A s \in move.moved : ring[s] = move.real[s] /\ move.real[s] \in accepted[s]
    BY DEF MoveInv, MovedInRing, Undoing
<1>2. \A s \in move.moved : s \in Slots /\ move.real[s] # Mark
    BY TypeParts, KeyringConstants DEF WorkType, MoveRec, Item
<1>3. StoresType'
    BY TypeParts DEF StoresType, Item
<1>4. PlacesGood'
    BY <1>1, <1>2 DEF PlacesGood, Rightly, PartlyRewritten
<1>5. Marked' \subseteq Marked \cup move.moved
    BY DEF Marked, PartlyRewritten
<1>6. Unsealed(n) /\ move.stage = "off" => Marked' \cap move.moved \cap InFile(n) = {}
    BY <1>2 DEF Unsealed, Marked
<1> QED
    BY <1>3, <1>4, <1>5, <1>6

\* The rest of a step that rewrites a file: memory is left alone, and it goes on or ends.
LEMMA RewriteStep ==
    ASSUME KeyringInv, pc \in {"first", "second", "revert"}, StoresType', PlacesGood',
           Marked' \subseteq Marked \cup move.moved,
           Reading, UNCHANGED <<ring, setting, accepted, counts>>,
           \/ Done
           \/ move' = move /\ UNCHANGED store /\ pc' \in Moving \ Undoing /\ MoveInv'
    PROVE  KeyringInv'
<1> USE DEF KeyringInv
<1>1. WorkType' /\ CountType'
    BY TypeParts, RestTypes DEF WorkType, CountType, Done, counts
<1>2. pc' \notin Storing
    BY DEF Done, Storing, Moving
<1>3. MoveInv' /\ StoreInv'
    BY <1>2, RestingMove, RestingStore DEF Done, Moving, NoMove
<1>4. Kept' \subseteq Kept
    <2>1. move'.moved \subseteq move.moved
        BY DEF Done, NoMove
    <2> QED
        BY <2>1 DEF Kept, Undoing
<1>5. MemoryType' /\ MemoryGood'
    BY <1>4, TypeParts, ReadingKeepsMemory DEF Reading, MemoryType
<1> QED
    BY <1>1, <1>3, <1>5, PartsType

\* Where a rewrite goes on from.
LEMMA AfterRewriteGoes ==
    ASSUME WorkType, NEW ok \in BOOLEAN, AfterRewrite(ok)
    PROVE  \/ Done
           \/ /\ move' = move /\ UNCHANGED store
              /\ \/ pc' = "judge" /\ move.stage \in {"on", "onback"}
                 \/ pc' = "save" /\ move.stage \in {"on", "off"} /\ ok
    BY DEF AfterRewrite, WorkType, MoveRec, Stages

LEMMA FilesKeepInv ==
    ASSUME KeyringInv, FirstFile \/ SecondFile \/ RevertFirst
    PROVE  KeyringInv'
<1> USE DEF KeyringInv
<1>0. WorkType /\ StoresType /\ move \in MoveRec
    BY TypeParts DEF WorkType
<1>1. CASE FirstFile
    <2>0. pc = "first" /\ Reading /\ UNCHANGED <<ring, setting, accepted, counts>>
        BY <1>1 DEF FirstFile
    <2>1. /\ file' \in [Slots -> Item \cup {Mark}] /\ PartlyRewritten(1)
          /\ file' = Rewritten(1, ToMark) => Unsealed(1)
        BY <1>0, <1>1, RewriteIs DEF FirstFile
    <2>4. /\ StoresType' /\ PlacesGood' /\ Marked' \subseteq Marked \cup move.moved
          /\ Unsealed(1) /\ move.stage = "off" => Marked' \cap move.moved \cap InFile(1) = {}
        BY <2>0, <2>1, RewrittenGood
    <2>2. CASE file' = Rewritten(1, ToMark) /\ pc' = "second" /\ UNCHANGED <<move, store>>
        <3>1. move.stage = "off" => Marked' \cap move.moved \cap InFile(1) = {}
            BY <2>1, <2>2, <2>4
        <3>2. MoveInv'
            BY <2>0, <2>2, <3>1 DEF MoveInv, MovedInRing, ToDoUnmoved, UndoUnmarked,
                                          DeleteUnmarked, MoveRests, Moving, Undoing, InFile
        <3> QED
            BY <2>0, <2>2, <2>4, <3>2, RewriteStep DEF Moving, Undoing
    <2>3. CASE AfterRewrite(FALSE)
        <3>1. Done \/ (move' = move /\ UNCHANGED store /\ pc' = "judge")
            BY <1>0, <2>3, AfterRewriteGoes
        <3>2. Done \/ MoveInv'
            BY <2>0, <3>1 DEF MoveInv, MovedInRing, ToDoUnmoved, UndoUnmarked,
                              DeleteUnmarked, MoveRests, Moving, Undoing
        <3> QED
            BY <2>0, <2>4, <3>1, <3>2, RewriteStep DEF Moving, Undoing
    <2> QED
        BY <1>1, <2>2, <2>3 DEF FirstFile
<1>2. CASE SecondFile
    <2>0. pc = "second" /\ Reading /\ UNCHANGED <<ring, setting, accepted, counts>>
        BY <1>2 DEF SecondFile
    <2>1. /\ file' \in [Slots -> Item \cup {Mark}] /\ PartlyRewritten(2)
          /\ file' = Rewritten(2, ToMark) => Unsealed(2)
        BY <1>0, <1>2, RewriteIs DEF SecondFile
    <2>4. /\ StoresType' /\ PlacesGood' /\ Marked' \subseteq Marked \cup move.moved
          /\ Unsealed(2) /\ move.stage = "off" => Marked' \cap move.moved \cap InFile(2) = {}
        BY <2>0, <2>1, RewrittenGood
    <2>2. CASE file' = Rewritten(2, ToMark) /\ AfterRewrite(TRUE)
        <3>1. \/ Done
              \/ /\ move' = move /\ UNCHANGED store
                 /\ pc' = "judge" \/ (pc' = "save" /\ move.stage \in {"on", "off"})
            BY <1>0, <2>2, AfterRewriteGoes
        <3>2. move.stage = "off" => Marked' \cap move.moved = {}
            <4> SUFFICES ASSUME move.stage = "off" PROVE Marked' \cap move.moved = {}
                OBVIOUS
            <4>1. Marked' \cap move.moved \cap InFile(2) = {}
                BY <2>1, <2>2, <2>4
            <4>2. Marked \cap move.moved \cap InFile(1) = {}
                BY <2>0 DEF MoveInv, DeleteUnmarked
            <4>3. Marked' \cap move.moved \cap InFile(1) = {}
                BY <2>1, <4>2 DEF PartlyRewritten, InFile, Marked
            <4>4. Marked' \subseteq InFile(1) \cup InFile(2)
                BY DEF Marked, InFile
            <4> QED
                BY <4>1, <4>3, <4>4
        <3>3. Done \/ MoveInv'
            BY <2>0, <3>1, <3>2 DEF MoveInv, MovedInRing, ToDoUnmoved, UndoUnmarked,
                                    DeleteUnmarked, MoveRests, Moving, Undoing
        <3> QED
            BY <2>0, <2>4, <3>1, <3>3, RewriteStep DEF Moving, Undoing
    <2>3. CASE pc' = "revert" /\ UNCHANGED <<move, store>>
        <3>1. MoveInv'
            BY <2>0, <2>3 DEF MoveInv, MovedInRing, ToDoUnmoved, UndoUnmarked,
                              DeleteUnmarked, MoveRests, Moving, Undoing
        <3> QED
            BY <2>0, <2>3, <2>4, <3>1, RewriteStep DEF Moving, Undoing
    <2> QED
        BY <1>2, <2>2, <2>3 DEF SecondFile
<1>3. CASE RevertFirst
    <2>0. pc = "revert" /\ Reading /\ UNCHANGED <<ring, setting, accepted, counts>> /\ AfterRewrite(FALSE)
        BY <1>3 DEF RevertFirst
    <2>1. StoresType' /\ PlacesGood' /\ Marked' \subseteq Marked \cup move.moved
        <3>1. file' \in [Slots -> Item \cup {Mark}] /\ PartlyRewritten(1)
            BY <1>0, <1>3, RewriteIs DEF RevertFirst
        <3> QED
            BY <2>0, <3>1, RewrittenGood
    <2>2. Done \/ (move' = move /\ UNCHANGED store /\ pc' = "judge")
        BY <1>0, <2>0, AfterRewriteGoes
    <2>3. Done \/ MoveInv'
        BY <2>0, <2>2 DEF MoveInv, MovedInRing, ToDoUnmoved, UndoUnmarked,
                          DeleteUnmarked, MoveRests, Moving, Undoing
    <2> QED
        BY <2>0, <2>1, <2>2, <2>3, RewriteStep DEF Moving, Undoing
<1> QED
    BY <1>1, <1>2, <1>3

\* A write of the keyring by a move, to a slot that no file points at and that has
\* not moved, or no longer counts as moved.
LEMMA RingStep ==
    ASSUME KeyringInv, NEW s \in Slots, NEW v \in Item, ring' = ring \/ Put(s, v), file[s] # Mark,
           Reading, UNCHANGED <<file, setting, store, accepted, counts>>,
           pc' \in Moving, move' \in MoveRec, MoveInv', move'.moved \subseteq move.moved,
           pc \in Undoing => pc' \in Undoing
    PROVE  KeyringInv'
<1> USE DEF KeyringInv
<1>1. ring' \in [Slots -> Item] /\ \A t \in Slots \ {s} : ring'[t] = ring[t]
    BY TypeParts DEF StoresType, Put
<1>2. StoresType' /\ PlacesGood'
    BY <1>1, TypeParts DEF StoresType, PlacesGood, Rightly
<1>3. WorkType' /\ CountType'
    BY TypeParts DEF WorkType, CountType, counts
<1>4. StoreInv'
    BY RestingStore DEF Moving, Storing
<1>5. Kept' \subseteq Kept
    BY DEF Kept, Marked
<1>6. MemoryType' /\ MemoryGood'
    BY <1>5, TypeParts, ReadingKeepsMemory DEF Reading, MemoryType
<1> QED
    BY <1>2, <1>3, <1>4, <1>6, PartsType

LEMMA RingWritesKeepInv ==
    ASSUME KeyringInv, UndoPut \/ (\E s \in Slots : Copy(s) \/ Delete(s))
    PROVE  KeyringInv'
<1> USE DEF KeyringInv
<1>0. move \in MoveRec /\ ring \in [Slots -> Item] /\ file \in [Slots -> Item \cup {Mark}]
    BY TypeParts DEF WorkType, StoresType, Item
<1>1. ASSUME NEW s \in Slots, Copy(s) PROVE KeyringInv'
    <2>1. /\ pc = "copy" /\ s \in move.todo /\ s \notin move.moved
          /\ file[s] # Mark /\ file[s] \in Item
          /\ Reading /\ UNCHANGED <<file, setting, store, accepted, counts>>
        BY <1>0, <1>1 DEF Copy, First, MoveInv, ToDoUnmoved
    <2>2. ring' = ring \/ Put(s, file[s])
        BY <1>1 DEF Copy, PutFails
    <2>3. \A t \in Slots \ {s} : ring'[t] = ring[t]
        BY <1>0, <2>2 DEF Put
    <2>4. CASE /\ move' = [move EXCEPT !.written = @ \cup {s}, !.before[s] = ring[s], !.slot = s]
               /\ pc' = "readback"
        <3>1. /\ move' \in MoveRec /\ move'.written = move.written \cup {s} /\ move'.slot = s
              /\ move'.todo = move.todo /\ move'.moved = move.moved /\ move'.real = move.real
              /\ move'.stage = move.stage
            BY <1>0, <2>4 DEF MoveRec
        <3>2. MoveInv'
            <4>1. MovedInRing'
                BY <1>0, <2>1, <2>3, <3>1 DEF MoveInv, MovedInRing, MoveRec, Undoing
            <4>2. ToDoUnmoved' /\ UndoUnmarked'
                BY <2>1, <2>4, <3>1 DEF MoveInv, ToDoUnmoved, UndoUnmarked, Stored, Marked
            <4> QED
                BY <2>1, <2>4, <3>1, <4>1, <4>2 DEF MoveInv, DeleteUnmarked, MoveRests, Moving
        <3> QED
            BY <2>1, <2>2, <2>4, <3>1, <3>2, RingStep DEF Moving, Undoing
    <2>5. CASE pc' = "undo" /\ UNCHANGED move
        <3>1. MoveInv'
            BY <2>1, <2>5 DEF MoveInv, MovedInRing, ToDoUnmoved, UndoUnmarked, DeleteUnmarked,
                              MoveRests, Moving, Undoing, Marked
        <3> QED
            BY <1>0, <2>1, <2>2, <2>5, <3>1, RingStep DEF Moving, Undoing
    <2> QED
        BY <1>1, <2>4, <2>5 DEF Copy
<1>2. CASE UndoPut
    <2>1. /\ pc = "putting" /\ pc' = "undo" /\ move.slot \in move.written
          /\ move.slot \in Slots /\ file[move.slot] # Mark /\ move.before[move.slot] \in Item
          /\ move' = [move EXCEPT !.written = @ \ {move.slot}]
          /\ ring' = ring \/ Put(move.slot, move.before[move.slot])
          /\ Reading /\ UNCHANGED <<file, setting, store, accepted, counts>>
        BY <1>0, <1>2 DEF UndoPut, PutFails, MoveInv, UndoUnmarked, MoveRec, Marked
    <2>2. /\ move' \in MoveRec /\ move'.written \subseteq move.written
          /\ move'.moved = move.moved
        BY <1>0, <2>1 DEF MoveRec
    <2>3. MoveInv'
        BY <2>1, <2>2 DEF MoveInv, MovedInRing, ToDoUnmoved, UndoUnmarked, DeleteUnmarked,
                          MoveRests, Moving, Undoing, Marked
    <2> QED
        BY <2>1, <2>2, <2>3, RingStep DEF Moving, Undoing
<1>3. ASSUME NEW s \in Slots, Delete(s) PROVE KeyringInv'
    <2>1. /\ pc = "delete" /\ pc' = pc /\ s \in move.moved /\ file[s] # Mark
          /\ move' = [move EXCEPT !.moved = @ \ {s}]
          /\ ring' = ring \/ Put(s, None)
          /\ Reading /\ UNCHANGED <<file, setting, store, accepted, counts>>
        BY <1>3 DEF Delete, First, PutFails, MoveInv, DeleteUnmarked, Marked
    <2>2. /\ move' \in MoveRec /\ move'.moved = move.moved \ {s} /\ move'.real = move.real
          /\ \A t \in Slots \ {s} : ring'[t] = ring[t]
        BY <1>0, <2>1 DEF MoveRec, Put
    <2>3. MoveInv'
        BY <1>0, <2>1, <2>2 DEF MoveInv, MovedInRing, ToDoUnmoved, UndoUnmarked, DeleteUnmarked,
                          MoveRests, Moving, Undoing, Marked, MoveRec
    <2> QED
        BY <2>1, <2>2, <2>3, RingStep DEF Moving, Undoing, Item
<1> QED
    BY <1>1, <1>2, <1>3

LEMMA SaveKeepsInv ==
    ASSUME KeyringInv, Save
    PROVE  KeyringInv'
<1> USE DEF KeyringInv
<1>0. move \in MoveRec /\ pc = "save" /\ Reading /\ UNCHANGED <<file, ring, accepted, counts>>
      /\ move.stage \in {"on", "off"} /\ move.written \subseteq move.moved
    BY TypeParts DEF WorkType, Save, MoveInv, DeleteUnmarked, UndoUnmarked
<1>1. setting' \in BOOLEAN
    BY TypeParts DEF Save, StoresType
<1>2. CASE Done
    BY <1>0, <1>1, <1>2, DoneKeepsInv
<1>3. CASE ~Done
    <2>1. /\ UNCHANGED store
          /\ \/ move' = move /\ pc' = "delete" /\ move.stage = "off"
             \/ move' = move /\ pc' = "undo" /\ move.moved = {}
             \/ /\ pc' = "first"
                /\ move' = [move EXCEPT !.stage = IF @ = "on" THEN "onback" ELSE "offback"]
        BY <1>0, <1>3 DEF Save
    <2>2. /\ move' \in MoveRec /\ move'.moved = move.moved /\ move'.written = move.written
          /\ move'.real = move.real /\ move'.todo = move.todo /\ pc' \in Moving
        BY <1>0, <2>1 DEF MoveRec, Stages, Moving
    <2>3. MoveInv'
        BY <1>0, <2>1, <2>2 DEF MoveInv, MovedInRing, ToDoUnmoved, UndoUnmarked, DeleteUnmarked,
                                MoveRests, Moving, Undoing, Marked
    <2>4. StoresType' /\ PlacesGood'
        BY <1>0, <1>1, TypeParts, QuietKeepsPlaces
    <2>5. WorkType' /\ CountType'
        BY <1>0, <2>1, <2>2, TypeParts DEF WorkType, CountType, counts
    <2>6. StoreInv'
        BY <2>2, RestingStore DEF Moving, Storing
    <2>7. Kept' \subseteq Kept
        BY <1>0, <2>2 DEF Kept, Marked, Undoing
    <2>8. MemoryType' /\ MemoryGood'
        BY <1>0, <2>7, TypeParts, ReadingKeepsMemory DEF Reading, MemoryType
    <2> QED
        BY <2>3, <2>4, <2>5, <2>6, <2>8, PartsType
<1> QED
    BY <1>2, <1>3

-----------------------------------------------------------------------------
(* Stores and drops. *)

\* No move is under way: what is marked is all that counts.
LEMMA OutsideMoves ==
    ASSUME KeyringInv, pc \notin Moving, pc' \notin Moving, move' = move \/ move' = NoMove
    PROVE  /\ Kept = Marked /\ Kept' = Marked' /\ Marked \subseteq Slots
           /\ move' \in MoveRec /\ MoveInv'
<1>1. move.moved = {} /\ move'.moved = {} /\ NoMove.moved = {}
    BY DEF KeyringInv, MoveInv, MoveRests, NoMove
<1>2. move' \in MoveRec
    BY RestTypes, TypeParts DEF KeyringInv, WorkType
<1> QED
    BY <1>1, <1>2, RestingMove DEF Kept, Marked

\* What a slot may read as once v may be stored in it.
LEMMA StoreBeginsKeeps ==
    ASSUME KeyringInv, NEW s \in Slots, NEW v \in Item,
           accepted' = [accepted EXCEPT ![s] = @ \cup {v}], UNCHANGED <<file, ring, setting>>
    PROVE  /\ StoresType' /\ PlacesGood'
           /\ v \in accepted'[s] /\ \A t \in Slots : accepted[t] \subseteq accepted'[t]
<1> USE DEF KeyringInv
<1>1. v \in accepted'[s] /\ \A t \in Slots : accepted[t] \subseteq accepted'[t]
    BY TypeParts DEF StoresType
<1> QED
    BY <1>1, TypeParts DEF StoresType, PlacesGood, Rightly

LEMMA StorePlainKeepsInv ==
    ASSUME KeyringInv, NEW s \in Slots, NEW v \in Item, StorePlain(s, v)
    PROVE  KeyringInv'
<1> USE DEF KeyringInv
<1>1. /\ pc = "idle" /\ pc' = pc /\ move' = move /\ store' = store /\ Reading
      /\ stores < MaxStores /\ stores' = stores + 1 /\ crashes' = crashes
      /\ ring' = ring /\ setting' = setting
      /\ \/ file' = [file EXCEPT ![s] = v] /\ accepted' = [accepted EXCEPT ![s] = {v}]
         \/ file' = file /\ accepted' = accepted
    BY DEF StorePlain, StoreBegins
<1>2. /\ Kept = Marked /\ Kept' = Marked' /\ Marked \subseteq Slots
      /\ move' \in MoveRec /\ MoveInv'
    BY <1>1, OutsideMoves DEF Moving
<1>3. WorkType' /\ CountType'
    BY <1>1, TypeParts, KeyringConstants DEF WorkType, CountType
<1>4. StoresType' /\ PlacesGood'
    BY <1>1, TypeParts, KeyringConstants DEF StoresType, PlacesGood, Rightly, Item
<1>5. StoreInv'
    BY <1>1, RestingStore DEF Storing
<1>6. \A t \in Kept' : t \in Kept /\ accepted[t] \subseteq accepted'[t]
    BY <1>1, <1>2, TypeParts, KeyringConstants DEF Marked, StoresType, Item
<1>7. MemoryType' /\ MemoryGood'
    BY <1>1, <1>6, TypeParts, ReadingKeepsMemory DEF Reading, MemoryType
<1> QED
    BY <1>2, <1>3, <1>4, <1>5, <1>7, PartsType

LEMMA StoreSealedKeepsInv ==
    ASSUME KeyringInv, NEW s \in Slots, NEW v \in Item, v = None \/ v \in Values, StoreSealed(s, v)
    PROVE  KeyringInv'
<1> USE DEF KeyringInv
<1>1. /\ pc = "idle" /\ move' = move /\ Reading
      /\ pc' = IF v = None THEN "drop" ELSE "seal"
      /\ stores < MaxStores /\ stores' = stores + 1 /\ crashes' = crashes
      /\ UNCHANGED <<file, ring, setting>>
      /\ accepted' = [accepted EXCEPT ![s] = @ \cup {v}]
    BY DEF StoreSealed, StoreBegins
<1>2. /\ store' \in StoreRec /\ store'.slot = s /\ store'.value = v /\ store'.before = None
      /\ \/ store'.prior = ring[s]
         \/ store'.prior = None /\ store'.faults >= 1
    <2> DEFINE st == [NoStore EXCEPT !.slot = s, !.value = v]
    <2>1. /\ st \in StoreRec /\ st.slot = s /\ st.value = v
          /\ st.prior = None /\ st.before = None /\ st.faults = 0
        BY RestTypes DEF StoreRec, NoStore, Item
    <2>2. \/ store' = [st EXCEPT !.prior = ring[s]]
          \/ MaxFaults > 0 /\ store' = Fault(st)
        BY DEF StoreSealed
    <2> HIDE DEF st
    <2>3. CASE store' = [st EXCEPT !.prior = ring[s]]
        BY <2>1, <2>3, TypeParts DEF StoreRec, StoresType
    <2>4. CASE MaxFaults > 0 /\ store' = Fault(st)
        <3>1. st.faults + 1 = 1 /\ 1 \in 0 .. MaxFaults
            BY <2>1, <2>4, KeyringConstants
        <3> QED
            BY <2>1, <2>4, <3>1 DEF StoreRec, Fault
    <2> QED
        BY <2>2, <2>3, <2>4
<1>3. /\ Kept = Marked /\ Kept' = Marked' /\ Marked \subseteq Slots
      /\ move' \in MoveRec /\ MoveInv'
    BY <1>1, OutsideMoves DEF Moving
<1>4. WorkType' /\ CountType'
    BY <1>1, <1>2, <1>3, TypeParts, KeyringConstants DEF WorkType, CountType, Storing
<1>5. /\ StoresType' /\ PlacesGood'
      /\ v \in accepted'[s] /\ \A t \in Slots : accepted[t] \subseteq accepted'[t]
    BY <1>1, StoreBeginsKeeps DEF Item
<1>6. StoreInv'
    <2>1. file[s] = Mark => ring[s] \in Rightly(s)'
        BY <1>5 DEF PlacesGood, Rightly
    <2>2. PutsBack(store.prior, 1)'
        BY <1>1, <1>2, <2>1 DEF PutsBack
    <2> QED
        BY <1>1, <1>2, <1>5, <2>2 DEF StoreInv, Storing
<1>7. \A t \in Kept' : t \in Kept /\ accepted[t] \subseteq accepted'[t]
    BY <1>1, <1>3, <1>5 DEF Marked
<1>8. MemoryType' /\ MemoryGood'
    BY <1>1, <1>7, TypeParts, ReadingKeepsMemory DEF Reading, MemoryType
<1> QED
    BY <1>3, <1>4, <1>5, <1>6, <1>8, PartsType

\* A step of a store that may write the keyring: what it writes there is what the
\* slot may read as, if the file points at it.
LEMMA StoreRingStep ==
    ASSUME KeyringInv, pc \in Storing, UNCHANGED <<file, setting, accepted, counts>>, Reading,
           NEW w \in Item, ring' = ring \/ Put(store.slot, w),
           file[store.slot] = Mark => w \in Rightly(store.slot),
           pc' \in {"idle"} \cup Storing, move' = move \/ move' = NoMove,
           store' \in StoreRec, StoreInv'
    PROVE  KeyringInv'
<1> USE DEF KeyringInv
<1>1. pc \notin Moving /\ pc' \notin Moving /\ store.slot \in Slots
    BY DEF Storing, Moving, StoreInv
<1>2. /\ Kept = Marked /\ Kept' = Marked' /\ move' \in MoveRec /\ MoveInv'
    BY <1>1, OutsideMoves
<1>3. StoresType' /\ PlacesGood'
    BY <1>1, TypeParts DEF StoresType, PlacesGood, Rightly, Put
<1>4. WorkType' /\ CountType'
    BY <1>2, TypeParts DEF WorkType, CountType, counts
<1>5. \A t \in Kept' : t \in Kept /\ accepted[t] \subseteq accepted'[t]
    BY <1>2 DEF Marked
<1>6. MemoryType' /\ MemoryGood'
    BY <1>5, TypeParts, ReadingKeepsMemory DEF Reading, MemoryType
<1> QED
    BY <1>2, <1>3, <1>4, <1>6, PartsType

\* One failure more.
LEMMA FaultType ==
    ASSUME NEW st \in StoreRec, st.faults < MaxFaults
    PROVE  /\ Fault(st) \in StoreRec /\ Fault(st).slot = st.slot /\ Fault(st).value = st.value
           /\ Fault(st).prior = st.prior /\ Fault(st).before = st.before
           /\ Fault(st).faults = st.faults + 1 /\ st.faults \in Nat
<1>1. st.faults \in Nat /\ st.faults + 1 \in 0 .. MaxFaults
    BY KeyringConstants DEF StoreRec
<1> QED
    BY <1>1 DEF StoreRec, Fault

\* What is put back after two failures is still what the slot may read as.
LEMMA PutsBackRightly ==
    ASSUME KeyringInv, NEW v, PutsBack(v, 2), file[store.slot] = Mark
    PROVE  v \in Rightly(store.slot)
<1>1. store.faults \in 0 .. MaxFaults
    BY TypeParts DEF KeyringInv, WorkType, StoreRec
<1> QED
    BY <1>1, KeyringConstants DEF PutsBack, Rightly, Blank

LEMMA SealKeepsInv ==
    ASSUME KeyringInv, Seal
    PROVE  KeyringInv'
<1> USE DEF KeyringInv
<1>0. /\ pc = "seal" /\ Reading /\ UNCHANGED <<file, setting, accepted, counts>>
      /\ store \in StoreRec /\ store.slot \in Slots /\ ring \in [Slots -> Item]
      /\ store.value \in accepted[store.slot] /\ store.value \in Values /\ store.value \in Item
      /\ store.before = None /\ PutsBack(store.prior, 1)
    BY TypeParts DEF Seal, WorkType, StoresType, StoreInv, Storing, Item
<1>1. PICK st \in {[store EXCEPT !.before = ring[store.slot]]}
                  \cup (IF MayFault THEN {Fault(store)} ELSE {}) :
          \/ Put(store.slot, store.value) /\ pc' = "sealed" /\ store' = st /\ UNCHANGED move
          \/ /\ st.faults < MaxFaults
             /\ PutFails(store.slot, store.value) /\ Refused(Fault(st))
    BY DEF Seal
<1>2. /\ st \in StoreRec /\ st.slot = store.slot /\ st.value = store.value
      /\ st.prior = store.prior /\ st.faults \in Nat /\ st.faults >= store.faults
      /\ \/ st.before = ring[store.slot]
         \/ st.before = None /\ st.faults >= 1
    <2>1. CASE st = [store EXCEPT !.before = ring[store.slot]]
        BY <1>0, <2>1, KeyringConstants DEF StoreRec
    <2>2. CASE MayFault /\ st = Fault(store)
        BY <1>0, <2>2, FaultType DEF MayFault
    <2> QED
        BY <1>1, <2>1, <2>2
<1>3. file[store.slot] = Mark => ring[store.slot] \in Rightly(store.slot)
    BY <1>0 DEF PlacesGood
<1>4. file[store.slot] = Mark => store.value \in Rightly(store.slot)
    BY <1>0 DEF Rightly
<1>5. CASE Put(store.slot, store.value) /\ pc' = "sealed" /\ store' = st /\ UNCHANGED move
    <2>1. PutsBack(store.prior, 1)' /\ PutsBack(store.before, 1)'
        BY <1>0, <1>2, <1>3, <1>5 DEF PutsBack, Rightly, StoreRec
    <2>2. ring'[store'.slot] = store'.value
        BY <1>0, <1>2, <1>5 DEF Put
    <2>3. StoreInv'
        BY <1>0, <1>2, <1>5, <2>1, <2>2 DEF StoreInv, Storing
    <2> QED
        BY <1>0, <1>2, <1>4, <1>5, <2>3, StoreRingStep DEF Storing
<1>6. CASE st.faults < MaxFaults /\ PutFails(store.slot, store.value) /\ Refused(Fault(st))
    <2>1. /\ Fault(st) \in StoreRec /\ Fault(st).slot = store.slot
          /\ Fault(st).value = store.value /\ Fault(st).prior = store.prior
          /\ Fault(st).faults >= store.faults + 1
        BY <1>0, <1>2, <1>6, FaultType DEF StoreRec
    <2>2. /\ move' = move \/ move' = NoMove
          /\ \/ pc' = "putback" /\ store' = Fault(st)
             \/ pc' = "idle" /\ store' = NoStore
        BY <1>6 DEF Refused, Done
    <2>3. pc' = "putback" => PutsBack(store.prior, 2)'
        BY <1>0, <2>1, <2>2 DEF PutsBack, Rightly, StoreRec
    <2>4. StoreInv'
        BY <1>0, <2>1, <2>2, <2>3 DEF StoreInv, Storing
    <2> QED
        BY <1>0, <1>4, <1>6, <2>1, <2>2, <2>4, RestTypes, StoreRingStep DEF Storing, PutFails
<1> QED
    BY <1>1, <1>5, <1>6

\* A key cleared may read as nothing from the moment it is begun.
LEMMA DropKeyKeepsInv ==
    ASSUME KeyringInv, DropKey
    PROVE  KeyringInv'
<1> USE DEF KeyringInv
<1>0. /\ pc = "drop" /\ UNCHANGED <<file, setting, move, accepted, stores, crashes>>
      /\ store \in StoreRec /\ store.slot \in Slots /\ None \in Item
      /\ store.value = None /\ None \in accepted[store.slot] /\ PutsBack(store.prior, 1)
    BY TypeParts DEF DropKey, counts, WorkType, StoreInv, Storing, Item
<1>1. CASE /\ Put(store.slot, None) /\ Hold(store.slot, None)
           /\ pc' = "filing" /\ UNCHANGED store
    <2>1. /\ Kept = Marked /\ Kept' = Marked' /\ Marked \subseteq Slots
          /\ move' \in MoveRec /\ MoveInv'
        BY <1>0, <1>1, OutsideMoves DEF Moving
    <2>2. StoresType' /\ PlacesGood'
        BY <1>0, <1>1, TypeParts DEF StoresType, PlacesGood, Rightly, Put
    <2>3. WorkType' /\ CountType'
        BY <1>0, <1>1, <2>1, TypeParts DEF WorkType, CountType, Storing
    <2>4. MemoryType' /\ MemoryGood'
        <3>1. Kept' = Kept
            BY <1>0, <2>1 DEF Marked
        <3> QED
            BY <1>0, <1>1, <2>1, <3>1, TypeParts, HoldKeepsMemory, HoldKeepsType
    <2>5. /\ held'[store'.slot] = None /\ ring'[store'.slot] = None
          /\ ~(hyd'.slot = store'.slot /\ hyd'.fresh)
        BY <1>0, <1>1, TypeParts DEF Hold, Touched, Put, MemoryType, StoresType, HydRec
    <2>6. PutsBack(store.prior, 1)'
        BY <1>0, <1>1 DEF PutsBack, Rightly
    <2>7. StoreInv'
        BY <1>0, <1>1, <2>5, <2>6 DEF StoreInv, Storing
    <2> QED
        BY <2>1, <2>2, <2>3, <2>4, <2>7, PartsType
<1>2. CASE /\ MayFault /\ PutFails(store.slot, None) /\ Reading
           /\ pc' = "putback" /\ store' = Fault(store)
    <2>1. /\ store' \in StoreRec /\ store'.slot = store.slot /\ store'.value = store.value
          /\ store'.prior = store.prior /\ store'.faults = store.faults + 1
          /\ store.faults \in Nat
        BY <1>0, <1>2, FaultType DEF MayFault
    <2>2. PutsBack(store.prior, 2)'
        BY <1>0, <2>1 DEF PutsBack, Rightly
    <2>3. StoreInv'
        BY <1>0, <1>2, <2>1, <2>2 DEF StoreInv, Storing
    <2> QED
        BY <1>0, <1>2, <2>1, <2>3, StoreRingStep DEF Storing, Rightly, counts, PutFails
<1> QED
    BY <1>1, <1>2 DEF DropKey

LEMMA SealedKeepsInv ==
    ASSUME KeyringInv, Sealed
    PROVE  KeyringInv'
<1> USE DEF KeyringInv
<1>0. /\ pc = "sealed" /\ UNCHANGED <<file, ring, setting, move, accepted, stores, crashes>>
      /\ store \in StoreRec /\ store.slot \in Slots /\ ring[store.slot] = store.value
      /\ store.value \in accepted[store.slot] /\ store.value \in Values /\ store.value \in Item
      /\ PutsBack(store.prior, 1) /\ PutsBack(store.before, 1)
    BY TypeParts DEF Sealed, disk, counts, WorkType, StoreInv, Storing, Item
<1>1. CASE Hold(store.slot, store.value) /\ pc' = "filing" /\ UNCHANGED store
    <2>1. /\ Kept = Marked /\ Kept' = Marked' /\ Marked \subseteq Slots
          /\ move' \in MoveRec /\ MoveInv'
        BY <1>0, <1>1, OutsideMoves DEF Moving
    <2>2. StoresType' /\ PlacesGood' /\ WorkType' /\ CountType'
        BY <1>0, <1>1, <2>1, TypeParts DEF StoresType, PlacesGood, Rightly, WorkType, CountType, Storing
    <2>3. MemoryType' /\ MemoryGood'
        <3>1. Kept' = Kept
            BY <1>0, <2>1 DEF Marked
        <3> QED
            BY <1>0, <1>1, <2>1, <3>1, TypeParts, HoldKeepsMemory, HoldKeepsType
    <2>4. /\ held'[store'.slot] = store'.value
          /\ ~(hyd'.slot = store'.slot /\ hyd'.fresh)
        BY <1>0, <1>1, TypeParts DEF Hold, Touched, MemoryType, HydRec
    <2>5. StoreInv'
        BY <1>0, <1>1, <2>4 DEF StoreInv, Storing, PutsBack, Rightly
    <2> QED
        BY <2>1, <2>2, <2>3, <2>5, PartsType
<1>2. CASE MayFault /\ pc' = "unseal" /\ store' = Fault(store) /\ Reading
    <2>1. /\ store' \in StoreRec /\ store'.slot = store.slot /\ store'.value = store.value
          /\ store'.prior = store.prior /\ store'.before = store.before
          /\ store'.faults = store.faults + 1 /\ store.faults \in Nat
        BY <1>0, <1>2, FaultType DEF MayFault
    <2>2. PutsBack(store.prior, 2)' /\ PutsBack(store.before, 2)'
        BY <1>0, <2>1 DEF PutsBack, Rightly
    <2>3. StoreInv'
        BY <1>0, <1>2, <2>1, <2>2 DEF StoreInv, Storing
    <2> QED
        BY <1>0, <1>2, <2>1, <2>3, StoreRingStep DEF Storing, Rightly, counts
<1> QED
    BY <1>1, <1>2 DEF Sealed

LEMMA UnsealKeepsInv ==
    ASSUME KeyringInv, Unseal
    PROVE  KeyringInv'
<1> USE DEF KeyringInv
<1>0. /\ pc = "unseal" /\ Reading /\ UNCHANGED <<file, setting, accepted, counts>>
      /\ store \in StoreRec /\ store.slot \in Slots /\ store.before \in Item
      /\ store.value \in accepted[store.slot]
      /\ PutsBack(store.prior, 2) /\ PutsBack(store.before, 2)
    BY TypeParts DEF Unseal, WorkType, StoreRec, StoreInv, Storing
<1>1. file[store.slot] = Mark => store.before \in Rightly(store.slot)
    BY <1>0, PutsBackRightly
<1>2. PICK st \in StoreRec :
         /\ st.slot = store.slot /\ st.value = store.value /\ st.prior = store.prior
         /\ st.faults >= store.faults /\ st.faults \in Nat /\ Refused(st)
         /\ ring' = ring \/ Put(store.slot, store.before)
    <2>1. store.faults \in Nat
        BY <1>0 DEF StoreRec
    <2>2. CASE Put(store.slot, store.before) /\ Refused(store)
        BY <1>0, <2>1, <2>2
    <2>3. CASE MayFault /\ PutFails(store.slot, store.before) /\ Refused(Fault(store))
        <3>1. /\ Fault(store) \in StoreRec /\ Fault(store).slot = store.slot
              /\ Fault(store).value = store.value /\ Fault(store).prior = store.prior
              /\ Fault(store).faults >= store.faults /\ Fault(store).faults \in Nat
            BY <1>0, <2>1, <2>3, FaultType DEF MayFault
        <3>2. ring' = ring \/ Put(store.slot, store.before)
            BY <2>3 DEF PutFails
        <3> QED
            BY <2>3, <3>1, <3>2
    <2> QED
        BY <2>2, <2>3 DEF Unseal
<1>3. /\ move' = move \/ move' = NoMove
      /\ \/ pc' = "putback" /\ store' = st
         \/ pc' = "idle" /\ store' = NoStore
    BY <1>2 DEF Refused, Done
<1>4. pc' = "putback" => PutsBack(store.prior, 2)'
    BY <1>0, <1>2, <1>3 DEF PutsBack, Rightly, StoreRec
<1>5. StoreInv'
    BY <1>0, <1>2, <1>3, <1>4 DEF StoreInv, Storing
<1> QED
    BY <1>0, <1>1, <1>2, <1>3, <1>5, RestTypes, StoreRingStep DEF Storing

LEMMA FilingKeepsInv ==
    ASSUME KeyringInv, Filing
    PROVE  KeyringInv'
<1> USE DEF KeyringInv
<1>0. /\ pc = "filing" /\ Reading /\ UNCHANGED <<ring, setting, counts>>
      /\ store \in StoreRec /\ store.slot \in Slots /\ ring[store.slot] = store.value
      /\ store.value \in accepted[store.slot] /\ store.value \in Item
      /\ PutsBack(store.prior, 1) /\ held[store.slot] = store.value
      /\ hyd.slot = store.slot /\ hyd.fresh /\ hyd.seen => hyd.got = store.value
    BY TypeParts DEF Filing, WorkType, StoreRec, StoreInv, Storing
<1>1. CASE /\ file' = [file EXCEPT ![store.slot] = IF store.value = None THEN None ELSE Mark]
           /\ accepted' = [accepted EXCEPT ![store.slot] = {store.value}]
           /\ Done
    <2>1. pc' = "idle" /\ move' = NoMove /\ store' = NoStore
        BY <1>1 DEF Done
    <2>2. /\ Kept = Marked /\ Kept' = Marked' /\ Marked \subseteq Slots
          /\ move' \in MoveRec /\ MoveInv'
        BY <1>0, <2>1, OutsideMoves DEF Moving
    <2>3. StoresType' /\ PlacesGood'
        BY <1>0, <1>1, TypeParts DEF StoresType, PlacesGood, Rightly
    <2>4. WorkType' /\ CountType' /\ StoreInv'
        BY <1>0, <2>1, <2>2, RestTypes, RestingStore, TypeParts DEF WorkType, CountType, counts, Storing
    <2>5. /\ accepted'[store.slot] = {store.value}
          /\ \A t \in Marked' \ {store.slot} : t \in Marked /\ accepted'[t] = accepted[t]
        BY <1>0, <1>1, TypeParts DEF StoresType, Marked
    <2>6. held' = held /\ hyd' = hyd
        BY <1>0 DEF Reading
    <2>7. MemoryType' /\ MemoryGood'
        BY <1>0, <2>2, <2>5, <2>6, TypeParts DEF MemoryType, MemoryGood
    <2> QED
        BY <2>2, <2>3, <2>4, <2>7, PartsType
<1>2. CASE /\ MayFault /\ pc' = "putback" /\ store' = Fault(store)
           /\ UNCHANGED <<file, move, accepted>>
    <2>1. /\ store' \in StoreRec /\ store'.slot = store.slot /\ store'.value = store.value
          /\ store'.prior = store.prior /\ store'.faults = store.faults + 1
          /\ store.faults \in Nat
        BY <1>0, <1>2, FaultType DEF MayFault
    <2>2. PutsBack(store.prior, 2)'
        BY <1>0, <1>2, <2>1 DEF PutsBack, Rightly
    <2>3. StoreInv'
        BY <1>0, <1>2, <2>1, <2>2 DEF StoreInv, Storing
    <2> QED
        BY <1>0, <1>2, <2>1, <2>3, StoreRingStep DEF Storing, Rightly
<1> QED
    BY <1>1, <1>2 DEF Filing

LEMMA PutBackKeepsInv ==
    ASSUME KeyringInv, PutBack
    PROVE  KeyringInv'
<1> USE DEF KeyringInv
<1>0. /\ pc = "putback" /\ UNCHANGED <<file, setting, accepted, counts>>
      /\ store \in StoreRec /\ store.slot \in Slots /\ store.prior \in Item
      /\ PutsBack(store.prior, 2)
      /\ pc' = "idle" /\ move' = NoMove /\ store' = NoStore
    BY TypeParts DEF PutBack, WorkType, StoreRec, StoreInv, Storing, Done
<1>1. file[store.slot] = Mark => store.prior \in Rightly(store.slot)
    BY <1>0, PutsBackRightly
<1>2. CASE Put(store.slot, store.prior) /\ Hold(store.slot, store.prior)
    <2>1. /\ Kept = Marked /\ Kept' = Marked' /\ Marked \subseteq Slots
          /\ move' \in MoveRec /\ MoveInv'
        BY <1>0, OutsideMoves DEF Moving
    <2>2. StoresType' /\ PlacesGood'
        BY <1>0, <1>1, <1>2, TypeParts DEF StoresType, PlacesGood, Rightly, Put
    <2>3. WorkType' /\ CountType' /\ StoreInv'
        BY <1>0, <2>1, RestTypes, RestingStore, TypeParts DEF WorkType, CountType, counts, Storing
    <2>4. MemoryType' /\ MemoryGood'
        <3>1. Kept' = Kept
            BY <1>0, <2>1 DEF Marked
        <3>2. store.slot \in Kept' => store.prior = None \/ store.prior \in accepted'[store.slot]
            BY <1>0, <1>1, <2>1 DEF Marked, Rightly, Blank
        <3> QED
            BY <1>0, <1>2, <2>1, <3>1, <3>2, TypeParts, HoldKeepsMemory, HoldKeepsType
    <2> QED
        BY <2>1, <2>2, <2>3, <2>4, PartsType
<1>3. CASE PutFails(store.slot, store.prior) /\ Reading
    <2>1. StoreInv'
        BY <1>0, RestingStore DEF Storing
    <2> QED
        BY <1>0, <1>1, <1>3, <2>1, RestTypes, StoreRingStep DEF Storing, PutFails
<1> QED
    BY <1>2, <1>3 DEF PutBack

LEMMA ClearKeepsInv ==
    ASSUME KeyringInv, Clear
    PROVE  KeyringInv'
<1> USE DEF KeyringInv
<1>1. /\ pc = "clear" /\ Reading /\ UNCHANGED <<ring, setting, counts>> /\ store.slot \in Slots
      /\ pc' = "idle" /\ move' = NoMove /\ store' = NoStore
      /\ \/ /\ file' = [file EXCEPT ![store.slot] = None]
            /\ accepted' = [accepted EXCEPT ![store.slot] = {None}]
         \/ file' = file /\ accepted' = accepted
    BY DEF Clear, Done, StoreInv, Storing
<1>2. /\ Kept = Marked /\ Kept' = Marked' /\ Marked \subseteq Slots
      /\ move' \in MoveRec /\ MoveInv'
    BY <1>1, OutsideMoves DEF Moving
<1>3. StoresType' /\ PlacesGood'
    BY <1>1, TypeParts, KeyringConstants DEF StoresType, PlacesGood, Rightly, Item
<1>4. WorkType' /\ CountType' /\ StoreInv'
    BY <1>1, <1>2, RestTypes, RestingStore, TypeParts DEF WorkType, CountType, counts, Storing
<1>5. \A t \in Kept' : t \in Kept /\ accepted[t] \subseteq accepted'[t]
    BY <1>1, <1>2, TypeParts, KeyringConstants DEF Marked, StoresType
<1>6. MemoryType' /\ MemoryGood'
    BY <1>1, <1>5, TypeParts, ReadingKeepsMemory DEF Reading, MemoryType
<1> QED
    BY <1>2, <1>3, <1>4, <1>6, PartsType

LEMMA DropKeepsInv ==
    ASSUME KeyringInv, NEW s \in Slots, Drop(s)
    PROVE  KeyringInv'
<1> USE DEF KeyringInv
<1>1. /\ pc = "idle" /\ move' = move
      /\ stores < MaxStores /\ stores' = stores + 1 /\ crashes' = crashes
      /\ UNCHANGED <<file, setting>>
      /\ accepted' = [accepted EXCEPT ![s] = @ \cup {None}]
      /\ \/ pc' = "clear" /\ store' = [NoStore EXCEPT !.slot = s]
         \/ pc' = "idle" /\ store' = store
      /\ \/ ring' = ring \/ Put(s, None)
      /\ Hold(s, None) \/ Reading
    BY DEF Drop, PutFails
<1>2. store' \in StoreRec /\ (pc' = "clear" => store'.slot = s)
    BY <1>1, RestTypes, TypeParts DEF StoreRec, NoStore, WorkType
<1>3. /\ Kept = Marked /\ Kept' = Marked' /\ Marked \subseteq Slots
      /\ move' \in MoveRec /\ MoveInv'
    BY <1>1, OutsideMoves DEF Moving
<1>4. None \in accepted'[s] /\ \A t \in Slots : accepted[t] \subseteq accepted'[t]
    BY <1>1, TypeParts DEF StoresType
<1>5. StoresType' /\ PlacesGood'
    BY <1>1, <1>4, TypeParts DEF StoresType, PlacesGood, Rightly, Put, Item
<1>6. WorkType' /\ CountType'
    BY <1>1, <1>2, <1>3, TypeParts, KeyringConstants DEF WorkType, CountType, Storing
<1>7. StoreInv'
    BY <1>1, <1>2 DEF StoreInv, Storing
<1>8. \A t \in Kept' : t \in Slots /\ t \in Kept /\ accepted[t] \subseteq accepted'[t]
    BY <1>1, <1>3, <1>4 DEF Marked
<1>9. MemoryType' /\ MemoryGood'
    <2>1. CASE Hold(s, None)
        BY <1>8, <2>1, TypeParts, HoldKeepsMemory, HoldKeepsType DEF Item
    <2>2. CASE Reading
        BY <1>8, <2>2, TypeParts, ReadingKeepsMemory DEF Reading, MemoryType
    <2> QED
        BY <1>1, <2>1, <2>2
<1> QED
    BY <1>3, <1>5, <1>6, <1>7, <1>9, PartsType

LEMMA CrashKeepsInv ==
    ASSUME KeyringInv, Crash
    PROVE  KeyringInv'
<1> USE DEF KeyringInv
<1>1. /\ crashes < MaxCrashes /\ crashes' = crashes + 1
      /\ held' = Nothing
      /\ hyd' = NoHyd \/ hyd' = [NoHyd EXCEPT !.todo = Marked]
      /\ pc' = "idle" /\ move' = NoMove /\ store' = NoStore
      /\ UNCHANGED <<file, ring, accepted, stores>>
    BY DEF Crash, Done
<1>2. setting' \in BOOLEAN
    BY TypeParts DEF Crash, StoresType
<1>3. move'.moved = {} /\ MoveInv' /\ StoreInv'
    BY <1>1, RestingMove, RestingStore DEF NoMove, Moving, Storing
<1>4. StoresType' /\ PlacesGood'
    BY <1>1, <1>2, TypeParts, QuietKeepsPlaces
<1>5. WorkType' /\ CountType'
    BY <1>1, RestTypes, TypeParts, KeyringConstants DEF WorkType, CountType
<1>6. hyd' \in HydRec /\ ~hyd'.fresh
    BY <1>1, RestTypes DEF HydRec, NoHyd, Marked
<1>7. Kept' \subseteq Slots
    BY <1>3 DEF Kept, Marked
<1>8. \A t \in Slots : held'[t] = None
    BY <1>1 DEF Nothing
<1>9. MemoryType' /\ MemoryGood'
    BY <1>1, <1>6, <1>7, <1>8, RestTypes DEF MemoryType, MemoryGood
<1> QED
    BY <1>3, <1>4, <1>5, <1>9, PartsType

-----------------------------------------------------------------------------
LEMMA NextKeepsInv ==
    ASSUME KeyringInv, [Next]_vars
    PROVE  KeyringInv'
<1>1. CASE TurnOn \/ Copied \/ Judge \/ Undone
    BY <1>1, OnStepsKeepInv
<1>2. CASE UndoPut \/ (\E s \in Slots : Copy(s) \/ Delete(s))
    BY <1>2, RingWritesKeepInv
<1>3. CASE FirstFile \/ SecondFile \/ RevertFirst
    BY <1>3, FilesKeepInv
<1>4. CASE Save
    BY <1>4, SaveKeepsInv
<1>5. CASE HydrateStep
    BY <1>5, HydrateKeepsInv
<1>6. CASE DropKey \/ Seal \/ Sealed \/ Unseal \/ Filing \/ PutBack \/ Clear \/ Crash
    BY <1>6, DropKeyKeepsInv, SealKeepsInv, SealedKeepsInv, UnsealKeepsInv, FilingKeepsInv, PutBackKeepsInv,
       ClearKeepsInv, CrashKeepsInv
<1>7. CASE \E s \in Slots : \E v \in Savable(s) : StorePlain(s, v) \/ StoreSealed(s, v)
    <2>1. PICK s \in Slots : \E v \in Savable(s) : StorePlain(s, v) \/ StoreSealed(s, v)
        BY <1>7
    <2>2. PICK v \in Savable(s) : StorePlain(s, v) \/ StoreSealed(s, v)
        BY <2>1
    <2>3. v \in Item /\ (v = None \/ v \in Values)
        BY DEF Savable, Item
    <2> QED
        BY <2>2, <2>3, StorePlainKeepsInv, StoreSealedKeepsInv
<1>8. CASE \E s \in Slots : Drop(s)
    BY <1>8, DropKeepsInv
<1>9. CASE UNCHANGED vars
    <2>1. UNCHANGED <<file, ring, setting, held, pc, move, store, hyd, accepted, stores, crashes>>
        BY <1>9 DEF vars
    <2>2. TypeOK'
        BY <2>1, TypeParts, PartsType DEF KeyringInv, StoresType, MemoryType, WorkType, CountType
    <2>3. Kept' = Kept
        BY <2>1 DEF Kept, Marked
    <2>4. PlacesGood' /\ MemoryGood'
        BY <2>1, <2>3 DEF KeyringInv, PlacesGood, Rightly, MemoryGood
    <2>5. MoveInv' /\ StoreInv'
        BY <2>1 DEF KeyringInv, MoveInv, MovedInRing, ToDoUnmoved, UndoUnmarked, DeleteUnmarked,
                    MoveRests, Marked, Stored, StoreInv, PutsBack, Rightly
    <2> QED
        BY <2>2, <2>4, <2>5 DEF KeyringInv
<1>10. CASE Readback \/ (\E s \in Slots : CheckMoved(s) \/ Undo(s))
    BY <1>10, ReadbackKeepsInv, CheckMovedKeepsInv, UndoKeepsInv
<1>11. CASE TurnOff \/ AllRead \/ Deleted \/ (\E s \in Slots : ReadBack(s))
    BY <1>11, OffStepsKeepInv
<1> QED
    BY <1>1, <1>2, <1>3, <1>4, <1>5, <1>6, <1>7, <1>8, <1>9, <1>10, <1>11 DEF Next, HydrateStep

\* Whatever fails, and wherever the process dies, the invariant holds.
THEOREM KeyringInvariant == Spec => []KeyringInv
<1>1. Init => KeyringInv
    BY InitInv
<1>2. KeyringInv /\ [Next]_vars => KeyringInv'
    BY NextKeepsInv
<1> QED
    BY <1>1, <1>2, PTL DEF Spec

\* Every variable of the switch keeps its type.
THEOREM TypeCorrect == Spec => []TypeOK
<1>1. KeyringInv => TypeOK
    BY DEF KeyringInv
<1> QED
    BY <1>1, KeyringInvariant, PTL

\* What the process uses for a slot the keyring keeps is nothing, or a value the
\* slot may rightly read as, whatever fails and however often (setHeld, dropHeld
\* and rehydrate in keyring.ts).
THEOREM HeldStaysCurrent == Spec => []HeldIsCurrent
<1>1. KeyringInv => HeldIsCurrent
    BY DEF KeyringInv, MemoryGood, Kept, HeldIsCurrent
<1> QED
    BY <1>1, KeyringInvariant, PTL

\* No slot ever reads as a value it may not have, in its file or in the keyring,
\* whatever fails and however often: at worst a marked slot reads as nothing.
THEOREM NeverAnotherValue ==
    Spec => [](\A s \in Slots : Readable(s) \in accepted[s] \cup {None})
<1>1. KeyringInv => \A s \in Slots : Readable(s) \in accepted[s] \cup {None}
    BY DEF KeyringInv, PlacesGood, Rightly, Blank, Readable
<1> QED
    BY <1>1, KeyringInvariant, PTL

\* keyring.ts:15: "A secret is never in neither place."  While no store meets two
\* failures (storeCredential and savePluginSettings put back what they read, and a
\* read that failed reads as nothing there), that holds through every failure of a
\* move, every interleaving with rehydrate, and every death of the process.
THEOREM SecretsKept == MaxFaults <= 1 => (Spec => []NeverLost)
<1> SUFFICES ASSUME MaxFaults <= 1 PROVE Spec => []NeverLost
    OBVIOUS
<1>1. KeyringInv => NeverLost
    BY KeyringConstants DEF KeyringInv, PlacesGood, Rightly, Blank, Readable, NeverLost
<1> QED
    BY <1>1, KeyringInvariant, PTL
=============================================================================
