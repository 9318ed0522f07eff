------------------------- MODULE PhoneWindowProofs -------------------------
(***************************************************************************)
(* Proofs about a phone on a window, for any panes, any number of phones,  *)
(* and any acts of the desk and ends of the process.                       *)
(***************************************************************************)
EXTENDS PhoneWindow, WellFoundedInduction, TLAPS

Owes == {"open", "owed twice", "owed once"}

\* What is to be put back was recorded.
OwingHad == \A i \in Owing : attach[i].had \in Sizes

\* A narrow window reads `manual`: nothing else sets a phone's width.
NarrowIsManual == window.narrow => window.size = "manual"

\* A narrow window is marked, until `manual` is once taken for the way back or a
\* mark comes off under an argv that is out.
NarrowIsMarked == tookManual \/ raced \/ (window.narrow => window.mark # None)

\* Until then, neither the mark nor an attach has it to put back.
HadNotManual ==
    tookManual \/ (window.mark # "manual" /\ \A i \in Attaches : attach[i].had # "manual")

\* An attach about to land has its server running and its window marked, unless
\* the mark came off under it.
SpawningMarked ==
    \A i \in Attaches :
        session[i] = "spawning" =>
            /\ raced \/ window.mark # None
            /\ process = "up"
            /\ socket[i] \in {"open", "owed twice"}

\* Under a take-over no open phone fits, and no argv narrows or zooms but those
\* the take-over found out.
ClaimHolds ==
    claimed => \A i \in Attaches :
        /\ socket[i] = "open" => ~attach[i].fit
        /\ session[i] = "spawning" => raced \/ (~attach[i].squeezes /\ ~attach[i].zooms)

WindowInv ==
    /\ WindowTypeOK /\ OwingHad /\ NarrowIsManual /\ NarrowIsMarked
    /\ HadNotManual /\ SpawningMarked /\ ClaimHolds
-----------------------------------------------------------------------------
(* Induction over the attaches a shutdown puts back, one after another. *)

LEMMA LeastNumber ==
    ASSUME NEW T, T \subseteq Nat, T # {}
    PROVE  \E x \in T : \A y \in T : x <= y
<1> DEFINE Less == OpToRel(<, Nat)
<1>1. IsWellFoundedOn(Less, Nat)
    BY NatLessThanWellFounded, Zenon
<1>2. \A x, y \in Nat : <<y, x>> \in Less <=> y < x
    BY DEF OpToRel
<1> HIDE DEF Less
<1>3. PICK x \in T : \A y \in T : ~ (<<y, x>> \in Less)
    BY <1>1, WFMin
<1>4. ASSUME NEW y \in T PROVE x <= y
    <2>1. x \in Nat /\ y \in Nat /\ ~ (<<y, x>> \in Less)
        BY <1>3
    <2>2. ~ (y < x)
        BY <1>2, <2>1
    <2> QED
        BY <2>1, <2>2
<1> QED
    BY <1>4

\* A set that has 0, and each number up to m with the one before it, has them all.
LEMMA UpTo ==
    ASSUME NEW m \in Nat, NEW S, 0 \in S, \A n \in 1 .. m : n - 1 \in S => n \in S
    PROVE  \A n \in 0 .. m : n \in S
<1> DEFINE T == (0 .. m) \ S
<1>1. SUFFICES ASSUME T # {} PROVE FALSE
    OBVIOUS
<1>2. T \subseteq Nat
    OBVIOUS
<1>3. PICK x \in T : \A y \in T : x <= y
    BY <1>1, <1>2, LeastNumber
<1>4. x \in 1 .. m /\ x - 1 \in 0 .. m /\ x - 1 \notin T
    BY <1>3
<1> QED
    BY <1>4

\* One turn of the shutdown's loop.
Turn(w, n) ==
    LET i == MaxAttaches - n + 1
    IN  IF i \in Owing THEN Restored(w, i, Lingers) ELSE w

\* The loop's window is what its turns make of it.
LEMMA PutBackTurns ==
    /\ PutBack[0] = window
    /\ \A n \in 1 .. MaxAttaches : PutBack[n] = Turn(PutBack[n - 1], n)
<1> DEFINE Solves(g, m) == g = [n \in 0 .. m |-> IF n = 0 THEN window ELSE Turn(g[n - 1], n)]
           S == {m \in Nat : \E g : Solves(g, m)}
<1>0. MaxAttaches \in Nat
    BY WindowConstants
<1>1. 0 \in S
    <2>1. Solves([n \in 0 .. 0 |-> window], 0)
        OBVIOUS
    <2> QED
        BY <2>1
<1>2. ASSUME NEW m \in 1 .. MaxAttaches, m - 1 \in S PROVE m \in S
    <2>1. PICK g : Solves(g, m - 1)
        BY <1>2
    <2> DEFINE h == [n \in 0 .. m |-> IF n = m THEN Turn(g[m - 1], m) ELSE g[n]]
    <2>2. ASSUME NEW n \in 0 .. m
          PROVE  h[n] = IF n = 0 THEN window ELSE Turn(h[n - 1], n)
        <3>1. CASE n = 0
            BY <2>1, <3>1
        <3>2. CASE n # 0 /\ n # m
            <4>1. n \in 0 .. m - 1 /\ n - 1 \in 0 .. m /\ n - 1 # m
                BY <3>2
            <4>2. g[n] = Turn(g[n - 1], n)
                BY <2>1, <3>2, <4>1
            <4>3. h[n] = g[n] /\ h[n - 1] = g[n - 1]
                BY <3>2, <4>1
            <4> QED
                BY <3>2, <4>2, <4>3
        <3>3. CASE n # 0 /\ n = m
            <4>1. m - 1 \in 0 .. m /\ m - 1 # m
                OBVIOUS
            <4>2. h[n] = Turn(g[m - 1], m) /\ h[n - 1] = g[m - 1]
                BY <3>3, <4>1
            <4> QED
                BY <3>3, <4>2
        <3> QED
            BY <3>1, <3>2, <3>3
    <2>3. Solves(h, m)
        BY <2>2
    <2>4. m \in Nat
        OBVIOUS
    <2> HIDE DEF Solves, h
    <2> QED
        BY <2>3, <2>4
<1>3. \E g : Solves(g, MaxAttaches)
    <2> HIDE DEF Solves
    <2>1. MaxAttaches \in S
        <3> HIDE DEF S
        <3>1. \A n \in 0 .. MaxAttaches : n \in S
            BY <1>0, <1>1, <1>2, UpTo
        <3> QED
            BY <1>0, <3>1
    <2> QED
        BY <2>1
<1>4. PutBack = CHOOSE g : Solves(g, MaxAttaches)
    BY DEF PutBack, Turn
<1>5. Solves(PutBack, MaxAttaches)
    <2> HIDE DEF Solves
    <2> QED
        BY <1>3, <1>4
<1>6. 0 \in 0 .. MaxAttaches /\ \A n \in 1 .. MaxAttaches : n \in 0 .. MaxAttaches /\ n # 0
    BY <1>0
<1> QED
    BY <1>5, <1>6

-----------------------------------------------------------------------------
(* What tmux's window is after each of the pieces of a handler. *)

WindowRec == [size : Sizes, narrow : BOOLEAN, zoom : Panes \cup {None}, mark : Sizes \cup {None}]
AttachRec == [pane : Panes \cup {None}, fit : BOOLEAN, zooms : BOOLEAN,
              squeezes : BOOLEAN, had : Sizes \cup {None}, owesZoom : Panes \cup {None}]

\* A window as the invariant has it.
Sound(w) ==
    /\ w \in WindowRec
    /\ w.narrow => w.size = "manual"
    /\ tookManual \/ raced \/ (w.narrow => w.mark # None)
    /\ tookManual \/ w.mark # "manual"

LEMMA TypeParts ==
    WindowTypeOK <=>
        /\ window \in WindowRec
        /\ session \in [Attaches -> {None, "spawning", "attached", "gone", "left over"}]
        /\ attach \in [Attaches -> AttachRec]
        /\ socket \in [Attaches -> {None, "over"} \cup Owes]
        /\ leases \in [Attaches -> {NoLease, None} \cup Panes]
        /\ claimed \in BOOLEAN /\ process \in {"up", "down", "booting"}
        /\ events \in 0 .. MaxEvents
        /\ phoneZoom \in BOOLEAN /\ tookManual \in BOOLEAN /\ raced \in BOOLEAN
    BY DEF WindowTypeOK, WindowRec, AttachRec, Owes

LEMMA PartsType ==
    /\ window' \in WindowRec
    /\ session' \in [Attaches -> {None, "spawning", "attached", "gone", "left over"}]
    /\ attach' \in [Attaches -> AttachRec]
    /\ socket' \in [Attaches -> {None, "over"} \cup Owes]
    /\ leases' \in [Attaches -> {NoLease, None} \cup Panes]
    /\ claimed' \in BOOLEAN /\ process' \in {"up", "down", "booting"}
    /\ events' \in 0 .. MaxEvents
    /\ phoneZoom' \in BOOLEAN /\ tookManual' \in BOOLEAN /\ raced' \in BOOLEAN
    => WindowTypeOK'
    BY DEF WindowTypeOK, WindowRec, AttachRec, Owes

LEMMA ClearedIs ==
    ASSUME NEW w \in WindowRec
    PROVE  /\ Cleared(w) \in WindowRec /\ Cleared(w).mark = None
           /\ Cleared(w).size = w.size /\ Cleared(w).narrow = w.narrow /\ Cleared(w).zoom = w.zoom
    BY DEF Cleared, WindowRec

LEMMA MarkedIs ==
    ASSUME NEW w \in WindowRec
    PROVE  /\ Marked(w) \in WindowRec /\ Marked(w).mark # None
           /\ Marked(w).mark = IF w.mark = None THEN w.size ELSE w.mark
           /\ Marked(w).size = w.size /\ Marked(w).narrow = w.narrow /\ Marked(w).zoom = w.zoom
<1>1. CASE w.mark = None
    BY <1>1 DEF Marked, WindowRec, Sizes, None
<1>2. CASE w.mark # None
    BY <1>2 DEF Marked
<1> QED
    BY <1>1, <1>2

LEMMA SpentIs ==
    ASSUME NEW a \in AttachRec
    PROVE  /\ Spent(a) \in AttachRec /\ Spent(a).had = a.had /\ Spent(a).fit = a.fit
           /\ ~Spent(a).squeezes /\ ~Spent(a).zooms
    BY DEF Spent, AttachRec

LEMMA SqueezedIs ==
    ASSUME NEW w \in WindowRec
    PROVE  /\ Squeezed(w) \in WindowRec /\ Squeezed(w).size = "manual" /\ Squeezed(w).narrow
           /\ Squeezed(w).mark = w.mark /\ Squeezed(w).zoom = w.zoom
    BY DEF Squeezed, WindowRec, Sizes

LEMMA GivenBackIs ==
    ASSUME NEW w \in WindowRec, NEW size \in Sizes
    PROVE  /\ GivenBack(w, size) \in WindowRec /\ ~GivenBack(w, size).narrow
           /\ GivenBack(w, size).size = size
           /\ GivenBack(w, size).mark = w.mark /\ GivenBack(w, size).zoom = w.zoom
    BY DEF GivenBack, WindowRec

\* What every way back ends with.
LEMMA WideIs ==
    ASSUME NEW w \in WindowRec, NEW size \in Sizes
    PROVE  /\ Cleared(GivenBack(w, size)) \in WindowRec /\ ~Cleared(GivenBack(w, size)).narrow
           /\ Cleared(GivenBack(w, size)).mark = None
<1> DEFINE g == GivenBack(w, size)
<1>1. g \in WindowRec /\ ~g.narrow
    BY GivenBackIs
<1> HIDE DEF g
<1>2. Cleared(g) \in WindowRec /\ ~Cleared(g).narrow /\ Cleared(g).mark = None
    BY <1>1, ClearedIs
<1> QED
    BY <1>2 DEF g

LEMMA UnzoomedIs ==
    ASSUME NEW w \in WindowRec
    PROVE  /\ Unzoomed(w) \in WindowRec /\ Unzoomed(w).zoom = None
           /\ Unzoomed(w).size = w.size /\ Unzoomed(w).narrow = w.narrow
           /\ Unzoomed(w).mark = w.mark
    BY DEF Unzoomed, WindowRec

LEMMA UnzoomedFromIs ==
    ASSUME NEW w \in WindowRec, NEW pane
    PROVE  /\ UnzoomedFrom(w, pane) \in WindowRec
           /\ UnzoomedFrom(w, pane).size = w.size /\ UnzoomedFrom(w, pane).narrow = w.narrow
           /\ UnzoomedFrom(w, pane).mark = w.mark
    BY UnzoomedIs DEF UnzoomedFrom

\* The way out of restoreWindows that puts the window back.
GoesBack(w, i) ==
    Cleared(GivenBack(UnzoomedFrom(w, attach[i].owesZoom), attach[i].had))

\* A window given back is wide and unmarked; the mark of one that is not stays,
\* unless the window reads what this phone found.
LEMMA WaysBack ==
    ASSUME NEW w, Sound(w), NEW i \in Owing, OwingHad, HadNotManual
    PROVE  /\ w.size = attach[i].had => Sound(Cleared(w))
           /\ Sound(GoesBack(w, i)) /\ ~GoesBack(w, i).narrow
<1>1. w \in WindowRec /\ attach[i].had \in Sizes /\ i \in Attaches
    BY DEF Sound, OwingHad, Owing
<1>2. ASSUME w.size = attach[i].had PROVE Sound(Cleared(w))
    <2>1. /\ Cleared(w) \in WindowRec /\ Cleared(w).mark = None
          /\ Cleared(w).size = w.size /\ Cleared(w).narrow = w.narrow
        BY <1>1, ClearedIs
    <2>2. tookManual \/ w.size # "manual"
        BY <1>1, <1>2 DEF HadNotManual
    <2> QED
        BY <2>1, <2>2 DEF Sound, None
<1>3. Sound(GoesBack(w, i)) /\ ~GoesBack(w, i).narrow
    <2>1. UnzoomedFrom(w, attach[i].owesZoom) \in WindowRec
        BY <1>1, UnzoomedFromIs
    <2>2. GoesBack(w, i) \in WindowRec /\ ~GoesBack(w, i).narrow /\ GoesBack(w, i).mark = None
        BY <1>1, <2>1, WideIs DEF GoesBack
    <2> QED
        BY <2>2 DEF Sound, None
<1> QED
    BY <1>2, <1>3

\* However many attaches a shutdown puts back, the window stays sound.
LEMMA PutBackSound ==
    ASSUME Sound(window), OwingHad, HadNotManual
    PROVE  Sound(PutBack[MaxAttaches])
<1> DEFINE S == {n \in 0 .. MaxAttaches : Sound(PutBack[n])}
<1>0. MaxAttaches \in Nat
    BY WindowConstants
<1>1. 0 \in S
    BY <1>0, PutBackTurns
<1>2. ASSUME NEW n \in 1 .. MaxAttaches, n - 1 \in S PROVE n \in S
    <2> DEFINE w == PutBack[n - 1]
               i == MaxAttaches - n + 1
    <2>1. Sound(w) /\ PutBack[n] = Turn(w, n) /\ n \in 0 .. MaxAttaches
        BY <1>0, <1>2, PutBackTurns
    <2>2. \/ Turn(w, n) = w
          \/ i \in Owing /\ w.size = attach[i].had /\ Turn(w, n) = Cleared(w)
          \/ i \in Owing /\ Turn(w, n) = GoesBack(w, i)
        BY DEF Turn, Restored, GoesBack
    <2> HIDE DEF w, i
    <2>3. Sound(Turn(w, n))
        BY <2>1, <2>2, WaysBack
    <2> QED
        BY <2>1, <2>3
<1> HIDE DEF S
<1>3. \A n \in 0 .. MaxAttaches : n \in S
    BY <1>0, <1>1, <1>2, UpTo
<1> QED
    BY <1>0, <1>3 DEF S
-----------------------------------------------------------------------------
(* Each step keeps the invariant. *)

LEMMA InitInv == WindowInit => WindowInv
<1> SUFFICES ASSUME WindowInit PROVE WindowInv
    OBVIOUS
<1> USE DEF WindowInit
<1>0. MaxAttaches \in Nat /\ MaxEvents \in Nat
    BY WindowConstants
<1>1. WindowTypeOK
    <2>1. NoAttach \in AttachRec
        BY DEF NoAttach, AttachRec
    <2>2. window \in WindowRec
        BY DEF WindowRec, Sizes
    <2>3. /\ attach \in [Attaches -> AttachRec]
          /\ session \in [Attaches -> {None, "spawning", "attached", "gone", "left over"}]
          /\ socket \in [Attaches -> {None, "over"} \cup Owes]
          /\ leases \in [Attaches -> {NoLease, None} \cup Panes]
        BY <2>1
    <2>4. events \in 0 .. MaxEvents /\ phoneZoom \in BOOLEAN
        <3>1. events \in 0 .. MaxEvents
            BY <1>0
        <3>2. phoneZoom \in BOOLEAN
            OBVIOUS
        <3> QED
            BY <3>1, <3>2
    <2>5. /\ claimed \in BOOLEAN /\ tookManual \in BOOLEAN /\ raced \in BOOLEAN
          /\ process = "up"
        OBVIOUS
    <2> HIDE DEF WindowInit
    <2> QED
        BY <2>2, <2>3, <2>4, <2>5, TypeParts
<1>2. OwingHad
    BY DEF OwingHad, Owing, None
<1>3. NarrowIsManual /\ NarrowIsMarked
    BY DEF NarrowIsManual, NarrowIsMarked
<1>4. HadNotManual /\ SpawningMarked /\ ClaimHolds
    BY DEF HadNotManual, SpawningMarked, ClaimHolds, NoAttach, None
<1> QED
    BY <1>1, <1>2, <1>3, <1>4 DEF WindowInv

\* The window's own part of the invariant.
LEMMA SoundNow == WindowInv => Sound(window)
    BY TypeParts DEF WindowInv, Sound, NarrowIsManual, NarrowIsMarked, HadNotManual

LEMMA OpenKeepsInv ==
    ASSUME WindowInv, NEW i \in Attaches, NEW pane \in Panes, NEW fit \in BOOLEAN,
           OpenPane(i, pane, fit)
    PROVE  WindowInv'
<1> USE DEF WindowInv
<1> DEFINE hold  == claimed /\ ~fit
           a     == [pane |-> pane, fit |-> fit, zooms |-> ~hold /\ window.zoom # pane,
                     squeezes |-> fit, had |-> window.size, owesZoom |-> IF hold THEN None ELSE pane]
<1>1. /\ window \in WindowRec /\ attach \in [Attaches -> AttachRec]
      /\ session \in [Attaches -> {None, "spawning", "attached", "gone", "left over"}]
      /\ socket \in [Attaches -> {None, "over"} \cup Owes]
      /\ leases \in [Attaches -> {NoLease, None} \cup Panes] /\ claimed \in BOOLEAN
    BY TypeParts
<1>2. /\ window' = Marked(window) /\ claimed' = hold
      /\ attach' = [attach EXCEPT ![i] = a]
      /\ session' = [session EXCEPT ![i] = "spawning"]
      /\ socket' = [socket EXCEPT ![i] = "open"]
      /\ tookManual' = (tookManual \/ window.size = "manual")
      /\ process' = "up" /\ process = "up" /\ raced' = raced
    BY DEF OpenPane
<1>3. /\ window' \in WindowRec /\ window'.mark # None
      /\ window'.mark = IF window.mark = None THEN window.size ELSE window.mark
      /\ window'.size = window.size /\ window'.narrow = window.narrow
    BY <1>1, <1>2, MarkedIs
<1>4. /\ a \in AttachRec /\ a.had = window.size /\ a.had \in Sizes
      /\ hold => ~a.fit /\ ~a.squeezes /\ ~a.zooms
    BY <1>1 DEF AttachRec, WindowRec
<1> HIDE DEF a
<1>5. /\ attach'[i] = a /\ \A j \in Attaches : j # i => attach'[j] = attach[j]
      /\ attach' \in [Attaches -> AttachRec]
    BY <1>1, <1>2, <1>4
<1>6. /\ socket'[i] = "open" /\ \A j \in Attaches : j # i => socket'[j] = socket[j]
      /\ session'[i] = "spawning" /\ \A j \in Attaches : j # i => session'[j] = session[j]
    BY <1>1, <1>2
<1>7. WindowTypeOK'
    <2>1. leases' \in [Attaches -> {NoLease, None} \cup Panes]
        BY <1>1 DEF OpenPane
    <2>2. socket' \in [Attaches -> {None, "over"} \cup Owes]
        BY <1>1, <1>2 DEF Owes
    <2>3. session' \in [Attaches -> {None, "spawning", "attached", "gone", "left over"}]
        BY <1>1, <1>2
    <2>4. claimed' \in BOOLEAN /\ tookManual' \in BOOLEAN /\ raced' \in BOOLEAN
        BY <1>1, <1>2, TypeParts
    <2>5. events' \in 0 .. MaxEvents /\ phoneZoom' \in BOOLEAN
        BY TypeParts DEF OpenPane
    <2> QED
        BY <1>2, <1>3, <1>5, <2>1, <2>2, <2>3, <2>4, <2>5, PartsType
<1>8. OwingHad'
    <2>1. ASSUME NEW j \in Owing' PROVE attach'[j].had \in Sizes
        <3>1. j # i => j \in Owing
            BY <1>6 DEF Owing
        <3> QED
            BY <1>4, <1>5, <2>1, <3>1 DEF OwingHad, Owing
    <2> QED
        BY <2>1 DEF OwingHad
<1>9. NarrowIsManual' /\ NarrowIsMarked'
    BY <1>3 DEF NarrowIsManual, NarrowIsMarked
<1>10. HadNotManual'
    BY <1>2, <1>3, <1>4, <1>5 DEF HadNotManual
<1>11. SpawningMarked'
    BY <1>2, <1>3, <1>6 DEF SpawningMarked
<1>12. ClaimHolds'
    BY <1>2, <1>4, <1>5, <1>6 DEF ClaimHolds
<1> QED
    BY <1>7, <1>8, <1>9, <1>10, <1>11, <1>12

\* Where nothing but the window changes (and who zoomed it, and the counter of
\* the desk's acts), the window's own part and its mark are what is left to show.
LEMMA WindowOnly ==
    ASSUME WindowInv, UNCHANGED <<session, attach, socket, claimed, process>>,
           WindowTypeOK', Sound(window)', SpawningMarked',
           tookManual => tookManual', raced => raced'
    PROVE  WindowInv'
<1> USE DEF WindowInv
<1>1. OwingHad'
    BY DEF OwingHad, Owing
<1>2. NarrowIsManual' /\ NarrowIsMarked'
    BY DEF NarrowIsManual, NarrowIsMarked, Sound
<1>3. HadNotManual'
    BY DEF HadNotManual, Sound
<1>4. ClaimHolds'
    BY DEF ClaimHolds
<1> QED
    BY <1>1, <1>2, <1>3, <1>4

LEMMA LandKeepsInv ==
    ASSUME WindowInv, NEW i \in Attaches, Land(i)
    PROVE  WindowInv'
<1> USE DEF WindowInv
<1>1. /\ window \in WindowRec /\ attach \in [Attaches -> AttachRec] /\ attach[i] \in AttachRec
      /\ phoneZoom \in BOOLEAN /\ "largest" \in Sizes
      /\ session \in [Attaches -> {None, "spawning", "attached", "gone", "left over"}]
    BY TypeParts DEF Sizes
<1>2. /\ session[i] = "spawning" /\ session' = [session EXCEPT ![i] = "attached"]
      /\ raced \/ window.mark # None
      /\ attach' = [attach EXCEPT ![i] = Spent(@)]
      /\ UNCHANGED <<socket, leases, claimed, process, events, tookManual, raced>>
    BY DEF Land, SpawningMarked
<1> DEFINE a     == attach[i]
           kept  == IF window.zoom = a.pane THEN a.pane ELSE None
           zoom  == IF a.zooms THEN (IF kept = None THEN a.pane ELSE None) ELSE kept
           given == GivenBack(window, "largest")
           wide  == [given EXCEPT !.zoom = zoom]
<1>3. zoom \in Panes \cup {None}
    BY <1>1 DEF AttachRec
<1>4. /\ window' = IF a.squeezes THEN Squeezed(wide) ELSE wide
      /\ phoneZoom' \in BOOLEAN
    BY DEF Land
<1> HIDE DEF zoom
<1>5. given \in WindowRec /\ ~given.narrow /\ given.mark = window.mark
    BY <1>1, <1>2, GivenBackIs
<1> HIDE DEF given
<1>6. wide \in WindowRec /\ ~wide.narrow /\ wide.mark = window.mark
    BY <1>3, <1>5 DEF WindowRec
<1> HIDE DEF wide
<1>7. /\ window' \in WindowRec /\ window'.mark = window.mark
      /\ window'.narrow => window'.size = "manual"
    BY <1>2, <1>4, <1>6, SqueezedIs
<1>8. /\ session'[i] = "attached" /\ \A j \in Attaches : j # i => session'[j] = session[j]
      /\ session' \in [Attaches -> {None, "spawning", "attached", "gone", "left over"}]
    BY <1>1, <1>2
<1>9. /\ attach' \in [Attaches -> AttachRec]
      /\ \A j \in Attaches : attach'[j].had = attach[j].had /\ attach'[j].fit = attach[j].fit
      /\ \A j \in Attaches : j # i => attach'[j] = attach[j]
    BY <1>1, <1>2, SpentIs
<1>10. WindowTypeOK'
    <2>1. phoneZoom' \in BOOLEAN /\ attach' \in [Attaches -> AttachRec]
        BY <1>4, <1>9
    <2>2. /\ socket' \in [Attaches -> {None, "over"} \cup Owes]
          /\ leases' \in [Attaches -> {NoLease, None} \cup Panes]
          /\ claimed' \in BOOLEAN /\ process' \in {"up", "down", "booting"}
          /\ events' \in 0 .. MaxEvents /\ tookManual' \in BOOLEAN /\ raced' \in BOOLEAN
        BY <1>2, TypeParts
    <2> QED
        BY <1>7, <1>8, <2>1, <2>2, PartsType
<1>11. OwingHad'
    BY <1>2, <1>9 DEF OwingHad, Owing
<1>12. NarrowIsManual' /\ NarrowIsMarked'
    BY <1>2, <1>7 DEF NarrowIsManual, NarrowIsMarked
<1>13. HadNotManual'
    BY <1>2, <1>7, <1>9 DEF HadNotManual
<1>14. SpawningMarked'
    BY <1>2, <1>7, <1>8 DEF SpawningMarked
<1>15. ClaimHolds'
    BY <1>2, <1>8, <1>9 DEF ClaimHolds
<1> QED
    BY <1>10, <1>11, <1>12, <1>13, <1>14, <1>15

LEMMA FrameKeepsInv ==
    ASSUME WindowInv, NEW i \in Attaches, ResizeFrame(i)
    PROVE  WindowInv'
<1>1. /\ window' = Squeezed(Marked(window))
      /\ tookManual' = (tookManual \/ (window.mark = None /\ window.size = "manual"))
      /\ UNCHANGED <<session, attach, socket, leases, claimed, process, events, phoneZoom, raced>>
    BY DEF ResizeFrame
<1>2. window \in WindowRec /\ tookManual \in BOOLEAN
    BY TypeParts DEF WindowInv
<1> DEFINE m == Marked(window)
<1>3. /\ m \in WindowRec /\ m.mark # None
      /\ m.mark = IF window.mark = None THEN window.size ELSE window.mark
    BY <1>2, MarkedIs
<1> HIDE DEF m
<1>4. /\ Squeezed(m) \in WindowRec /\ Squeezed(m).mark = m.mark
      /\ Squeezed(m).size = "manual"
    BY <1>3, SqueezedIs
<1>5. tookManual' \/ window'.mark # "manual"
    BY <1>1, <1>3, <1>4 DEF m, WindowInv, HadNotManual
<1>6. /\ window' \in WindowRec /\ window'.mark # None /\ window'.size = "manual"
      /\ tookManual' \in BOOLEAN
    BY <1>1, <1>2, <1>3, <1>4 DEF m
<1>7. Sound(window)'
    BY <1>5, <1>6 DEF Sound
<1>8. SpawningMarked'
    BY <1>1, <1>6 DEF SpawningMarked, WindowInv
<1>9. WindowTypeOK'
    BY <1>1, <1>6, TypeParts, PartsType DEF WindowInv
<1>10. /\ tookManual => tookManual'
       /\ raced => raced'
       /\ UNCHANGED <<session, attach, socket, claimed, process>>
    BY <1>1, <1>2
<1> QED
    BY <1>7, <1>8, <1>9, <1>10, WindowOnly

\* The socket and the client go, without a word to the window.
LEMMA CloseKeepsInv ==
    ASSUME WindowInv, NEW i \in Attaches, CloseSocket(i) \/ ClientGoes(i)
    PROVE  WindowInv'
<1> USE DEF WindowInv
<1>1. /\ socket \in [Attaches -> {None, "over"} \cup Owes]
      /\ session \in [Attaches -> {None, "spawning", "attached", "gone", "left over"}]
      /\ attach \in [Attaches -> AttachRec]
    BY TypeParts
<1>2. /\ UNCHANGED <<window, leases, claimed, process, events, phoneZoom, tookManual, raced>>
      /\ \/ attach' = [attach EXCEPT ![i].fit = FALSE]
         \/ attach' = [attach EXCEPT ![i] = Spent(@)]
      /\ \/ socket' = socket
         \/ socket[i] = "open" /\ socket' = [socket EXCEPT ![i] = "owed twice"]
      /\ \/ session' = session
         \/ session' = [session EXCEPT ![i] = "gone"]
         \/ session' = [session EXCEPT ![i] = "left over"]
    BY DEF CloseSocket, ClientGoes
<1>3. /\ socket' \in [Attaches -> {None, "over"} \cup Owes]
      /\ \A j \in Attaches : \/ socket'[j] = socket[j]
                             \/ socket[j] = "open" /\ socket'[j] = "owed twice"
    BY <1>1, <1>2 DEF Owes
<1>4. /\ session' \in [Attaches -> {None, "spawning", "attached", "gone", "left over"}]
      /\ \A j \in Attaches : session'[j] \in {session[j], "gone", "left over"}
    <2>1. CASE session' = session
        BY <1>1, <2>1
    <2>2. CASE session' = [session EXCEPT ![i] = "gone"]
        BY <1>1, <2>2
    <2>3. CASE session' = [session EXCEPT ![i] = "left over"]
        BY <1>1, <2>3
    <2> QED
        BY <1>2, <2>1, <2>2, <2>3
<1>5. /\ attach' \in [Attaches -> AttachRec]
      /\ \A j \in Attaches : /\ attach'[j].had = attach[j].had
                             /\ attach'[j].fit => attach[j].fit
                             /\ attach'[j].squeezes => attach[j].squeezes
                             /\ attach'[j].zooms => attach[j].zooms
    <2>1. CASE attach' = [attach EXCEPT ![i] = Spent(@)]
        BY <1>1, <2>1, SpentIs
    <2>2. CASE attach' = [attach EXCEPT ![i].fit = FALSE]
        BY <1>1, <2>2 DEF AttachRec
    <2> QED
        BY <1>2, <2>1, <2>2
<1>6. WindowTypeOK'
    BY <1>2, <1>3, <1>4, <1>5, TypeParts, PartsType
<1>7. OwingHad'
    BY <1>2, <1>3, <1>5 DEF OwingHad, Owing
<1>8. NarrowIsManual' /\ NarrowIsMarked' /\ HadNotManual'
    BY <1>2, <1>5 DEF NarrowIsManual, NarrowIsMarked, HadNotManual
<1>9. SpawningMarked'
    BY <1>2, <1>3, <1>4 DEF SpawningMarked
<1>10. ClaimHolds'
    BY <1>2, <1>3, <1>4, <1>5 DEF ClaimHolds
<1> QED
    BY <1>6, <1>7, <1>8, <1>9, <1>10

\* What the overtaken are: all that were spawning when the mark came off.
LEMMA RacedIs ==
    ASSUME raced \in BOOLEAN, RacedNow(window')
    PROVE  /\ raced' \in BOOLEAN
           /\ raced => raced'
           /\ \A j \in Attaches : session[j] = "spawning" => raced' \/ window'.mark # None
    BY DEF RacedNow

\* A step that may take the mark off, and touches no phone.
LEMMA ClearingKeepsInv ==
    ASSUME WindowInv, UNCHANGED <<session, attach, socket, leases, claimed, process, tookManual>>,
           Sound(window)', RacedNow(window'),
           events' \in 0 .. MaxEvents, phoneZoom' \in BOOLEAN
    PROVE  WindowInv'
<1>1. raced \in BOOLEAN
    BY TypeParts DEF WindowInv
<1>2. raced' \in BOOLEAN
    BY <1>1, RacedIs
<1>3. raced => raced'
    BY <1>1, RacedIs
<1>4. SpawningMarked'
    BY <1>1, RacedIs DEF SpawningMarked, WindowInv
<1>5. WindowTypeOK'
    <2>1. /\ session' \in [Attaches -> {None, "spawning", "attached", "gone", "left over"}]
          /\ attach' \in [Attaches -> AttachRec]
          /\ socket' \in [Attaches -> {None, "over"} \cup Owes]
          /\ leases' \in [Attaches -> {NoLease, None} \cup Panes]
          /\ claimed' \in BOOLEAN /\ process' \in {"up", "down", "booting"}
          /\ tookManual' \in BOOLEAN
        BY TypeParts DEF WindowInv
    <2>2. window' \in WindowRec
        BY DEF Sound
    <2> QED
        BY <1>2, <2>1, <2>2, PartsType
<1>6. tookManual => tookManual'
    OBVIOUS
<1>7. UNCHANGED <<session, attach, socket, claimed, process>>
    OBVIOUS
<1> QED
    BY <1>3, <1>4, <1>5, <1>6, <1>7, WindowOnly

LEMMA TearDownKeepsInv ==
    ASSUME WindowInv, NEW i \in Attaches, TearDown(i)
    PROVE  WindowInv'
<1> USE DEF WindowInv
<1>1. /\ attach \in [Attaches -> AttachRec] /\ phoneZoom \in BOOLEAN
      /\ socket \in [Attaches -> {None, "over"} \cup Owes] /\ Sound(window)
    BY TypeParts, SoundNow
<1>2. /\ i \in Owing /\ session[i] # "spawning"
      /\ window' = Restored(window, i, PhoneOn)
      /\ socket' = [socket EXCEPT ![i] = IF @ = "owed twice" THEN "owed once" ELSE "over"]
      /\ attach' = [attach EXCEPT ![i] = IF socket[i] = "owed once" THEN NoAttach ELSE @]
      /\ socket[i] \in {"owed twice", "owed once"}
      /\ UNCHANGED <<session, leases, claimed, process, events, tookManual>>
    BY DEF TearDown, Owing
<1>0. phoneZoom' \in BOOLEAN
    BY DEF TearDown, ZoomerNow
<1>3. /\ raced' \in BOOLEAN
      /\ raced => raced'
      /\ \A j \in Attaches : session[j] = "spawning" => raced' \/ window'.mark # None
    BY TypeParts, RacedIs DEF TearDown
<1>4. Sound(window)'
    <2> DEFINE r == Restored(window, i, PhoneOn)
    <2>1. \/ r = window
          \/ window.size = attach[i].had /\ r = Cleared(window)
          \/ r = GoesBack(window, i)
        BY DEF Restored, GoesBack
    <2> HIDE DEF r
    <2>2. window' = r
        BY <1>2 DEF r
    <2> QED
        <3>1. OwingHad /\ HadNotManual /\ UNCHANGED tookManual
            BY <1>2
        <3>2. Sound(r)
            BY <1>1, <1>2, <2>1, <3>1, WaysBack
        <3> QED
            <4>1. r \in WindowRec /\ (r.narrow => r.size = "manual")
                BY <3>2 DEF Sound
            <4>2. tookManual' \/ raced' \/ (r.narrow => r.mark # None)
                BY <1>3, <3>1, <3>2 DEF Sound
            <4>3. tookManual' \/ r.mark # "manual"
                BY <3>1, <3>2 DEF Sound
            <4> QED
                BY <2>2, <4>1, <4>2, <4>3 DEF Sound
<1>5. NoAttach \in AttachRec /\ NoAttach.had # "manual" /\ ~NoAttach.fit
    BY DEF NoAttach, AttachRec, None
<1> HIDE DEF NoAttach
<1>6. /\ attach' \in [Attaches -> AttachRec]
      /\ \A j \in Attaches : \/ attach'[j] = attach[j]
                             \/ j = i /\ attach'[j] = NoAttach /\ socket[i] = "owed once"
    BY <1>1, <1>2, <1>5
<1>7. /\ socket' \in [Attaches -> {None, "over"} \cup Owes]
      /\ \A j \in Attaches : j # i => socket'[j] = socket[j]
      /\ socket'[i] = IF socket[i] = "owed twice" THEN "owed once" ELSE "over"
    BY <1>1, <1>2 DEF Owes
<1>8. WindowTypeOK'
    <2>1. raced' \in BOOLEAN
        BY <1>3
    <2>3. window' \in WindowRec
        BY <1>4 DEF Sound
    <2>2. /\ session' \in [Attaches -> {None, "spawning", "attached", "gone", "left over"}]
          /\ leases' \in [Attaches -> {NoLease, None} \cup Panes]
          /\ claimed' \in BOOLEAN /\ process' \in {"up", "down", "booting"}
          /\ events' \in 0 .. MaxEvents /\ tookManual' \in BOOLEAN
        BY <1>2, TypeParts
    <2> QED
        BY <1>0, <1>6, <1>7, <2>1, <2>2, <2>3, PartsType
<1>9. OwingHad'
    <2>1. ASSUME NEW j \in Owing' PROVE attach'[j].had \in Sizes
        <3>1. j \in Owing /\ j \in Attaches
            BY <1>2, <1>7 DEF Owing
        <3>2. attach'[j] = attach[j]
            BY <1>6, <1>7, <3>1 DEF Owing
        <3> QED
            BY <3>1, <3>2 DEF OwingHad
    <2> QED
        BY <2>1 DEF OwingHad
<1>10. NarrowIsManual' /\ NarrowIsMarked'
    BY <1>4 DEF Sound, NarrowIsManual, NarrowIsMarked
<1>11. HadNotManual'
    BY <1>2, <1>4, <1>5, <1>6 DEF Sound, HadNotManual
<1>12. SpawningMarked'
    BY <1>2, <1>3, <1>7 DEF SpawningMarked
<1>13. ClaimHolds'
    <2> SUFFICES ASSUME claimed', NEW j \in Attaches
                 PROVE  /\ socket'[j] = "open" => ~attach'[j].fit
                        /\ session'[j] = "spawning" =>
                             raced' \/ (~attach'[j].squeezes /\ ~attach'[j].zooms)
        BY DEF ClaimHolds
    <2>1. CASE j = i
        BY <1>2, <1>7, <2>1
    <2>2. CASE j # i
        <3>1. attach'[j] = attach[j] /\ socket'[j] = socket[j] /\ session'[j] = session[j] /\ claimed
            BY <1>2, <1>6, <1>7, <2>2
        <3>2. session[j] = "spawning" => raced \/ (~attach[j].squeezes /\ ~attach[j].zooms)
            BY <3>1 DEF ClaimHolds
        <3>3. socket[j] = "open" => ~attach[j].fit
            BY <3>1 DEF ClaimHolds
        <3>4. raced => raced'
            BY <1>3
        <3> QED
            BY <3>1, <3>2, <3>3, <3>4
    <2> QED
        BY <2>1, <2>2
<1> QED
    BY <1>8, <1>9, <1>10, <1>11, <1>12, <1>13

LEMMA TakeOverKeepsInv ==
    ASSUME WindowInv, TakeOver
    PROVE  WindowInv'
<1> USE DEF WindowInv
<1>1. /\ window \in WindowRec /\ attach \in [Attaches -> AttachRec]
      /\ "largest" \in Sizes /\ MaxAttaches \in Nat /\ MaxEvents \in Nat /\ events \in 0 .. MaxEvents
    BY TypeParts, WindowConstants DEF Sizes
<1>2. /\ window' = Cleared(GivenBack(Unzoomed(window), "largest"))
      /\ attach' = [j \in Attaches |->
                      IF socket[j] = "open" THEN [attach[j] EXCEPT !.fit = FALSE] ELSE attach[j]]
      /\ claimed' = TRUE /\ phoneZoom' = FALSE /\ RacedNow(window')
      /\ events < MaxEvents /\ events' = events + 1
      /\ UNCHANGED <<session, socket, leases, process, tookManual>>
    BY DEF TakeOver, Acts
<1>3. window' \in WindowRec /\ ~window'.narrow /\ window'.mark = None
    BY <1>1, <1>2, WideIs, UnzoomedIs
<1>4. ASSUME NEW j \in Attaches
      PROVE  /\ attach'[j] \in AttachRec /\ attach'[j].had = attach[j].had
             /\ socket[j] = "open" => ~attach'[j].fit
    BY <1>1, <1>2 DEF AttachRec
<1>0. /\ raced' \in BOOLEAN
      /\ raced => raced'
      /\ \A j \in Attaches : session[j] = "spawning" => raced'
    BY <1>2, <1>3, TypeParts, RacedIs
<1>5. WindowTypeOK'
    <2>1. attach' \in [Attaches -> AttachRec]
        BY <1>2, <1>4
    <2>2. events' \in 0 .. MaxEvents /\ phoneZoom' \in BOOLEAN /\ raced' \in BOOLEAN
        <3>1. events' \in 0 .. MaxEvents
            BY <1>1, <1>2
        <3>2. phoneZoom' \in BOOLEAN
            BY <1>2
        <3>3. raced' \in BOOLEAN
            BY <1>0
        <3> HIDE DEF WindowInv
        <3> QED
            BY <3>1, <3>2, <3>3
    <2>3. /\ session' \in [Attaches -> {None, "spawning", "attached", "gone", "left over"}]
          /\ socket' \in [Attaches -> {None, "over"} \cup Owes]
          /\ leases' \in [Attaches -> {NoLease, None} \cup Panes]
          /\ claimed' \in BOOLEAN /\ process' \in {"up", "down", "booting"}
          /\ tookManual' \in BOOLEAN
        BY <1>2, TypeParts
    <2> QED
        BY <1>3, <2>1, <2>2, <2>3, PartsType
<1>6. OwingHad'
    BY <1>2, <1>4 DEF OwingHad, Owing
<1>7. NarrowIsManual' /\ NarrowIsMarked'
    BY <1>3 DEF NarrowIsManual, NarrowIsMarked
<1>8. HadNotManual'
    BY <1>2, <1>3, <1>4 DEF HadNotManual, None
<1>9. SpawningMarked' /\ ClaimHolds'
    BY <1>0, <1>2, <1>4 DEF SpawningMarked, ClaimHolds
<1> QED
    BY <1>5, <1>6, <1>7, <1>8, <1>9

LEMMA DeskKeepsInv ==
    ASSUME WindowInv, DeskFit \/ \E pane \in Panes : DeskZoom(pane)
    PROVE  WindowInv'
<1>1. window \in WindowRec /\ Sound(window) /\ "manual" \in Sizes
    BY TypeParts, SoundNow DEF WindowInv, Sizes
<1>2. /\ phoneZoom' = FALSE /\ events < MaxEvents /\ events' = events + 1
      /\ UNCHANGED <<session, attach, socket, leases, claimed, process, tookManual>>
    BY DEF DeskFit, DeskZoom, Acts
<1>3. events' \in 0 .. MaxEvents
    <2>1. events \in 0 .. MaxEvents /\ MaxEvents \in Nat
        BY TypeParts, WindowConstants DEF WindowInv
    <2> QED
        BY <1>2, <2>1
<1>4. CASE DeskFit
    <2>1. window' = Cleared(GivenBack(Unzoomed(window), "manual")) /\ RacedNow(window')
        BY <1>4 DEF DeskFit
    <2>2. window' \in WindowRec /\ ~window'.narrow /\ window'.mark = None
        BY <1>1, <2>1, WideIs, UnzoomedIs
    <2>3. Sound(window)'
        BY <2>2 DEF None, Sound
    <2> QED
        BY <1>2, <1>3, <2>1, <2>3, ClearingKeepsInv
<1>5. ASSUME NEW pane \in Panes, DeskZoom(pane)
      PROVE  WindowInv'
    <2>1. raced' = raced
        BY <1>5 DEF DeskZoom
    <2>2. /\ window' \in WindowRec /\ window'.narrow = window.narrow
          /\ window'.size = window.size /\ window'.mark = window.mark
        BY <1>1, <1>5 DEF DeskZoom, WindowRec
    <2>3. Sound(window)'
        BY <1>1, <1>2, <2>1, <2>2 DEF Sound
    <2>4. SpawningMarked'
        BY <1>2, <2>1, <2>2 DEF SpawningMarked, WindowInv
    <2>5. phoneZoom' \in BOOLEAN
        BY <1>2
    <2>6. WindowTypeOK'
        <3>1. /\ session' \in [Attaches -> {None, "spawning", "attached", "gone", "left over"}]
              /\ attach' \in [Attaches -> AttachRec]
              /\ socket' \in [Attaches -> {None, "over"} \cup Owes]
              /\ leases' \in [Attaches -> {NoLease, None} \cup Panes]
              /\ claimed' \in BOOLEAN /\ process' \in {"up", "down", "booting"}
              /\ tookManual' \in BOOLEAN /\ raced' \in BOOLEAN
            BY <1>2, <2>1, TypeParts DEF WindowInv
        <3> QED
            BY <1>3, <2>2, <2>5, <3>1, PartsType
    <2>7. UNCHANGED <<session, attach, socket, claimed, process>>
        BY <1>2
    <2> QED
        BY <1>2, <2>1, <2>3, <2>4, <2>6, <2>7, WindowOnly
<1> QED
    BY <1>4, <1>5

LEMMA ReclaimKeepsInv ==
    ASSUME WindowInv, Reclaim
    PROVE  WindowInv'
<1>1. window \in WindowRec /\ window.mark \in Sizes
    BY TypeParts DEF WindowInv, Reclaim, WindowRec
<1>2. /\ window' = Cleared(GivenBack(window, window.mark)) /\ RacedNow(window')
      /\ UNCHANGED <<session, attach, socket, leases, claimed, process, tookManual>>
      /\ UNCHANGED <<events, phoneZoom>>
    BY DEF Reclaim
<1>3. window' \in WindowRec /\ ~window'.narrow /\ window'.mark # "manual"
    BY <1>1, <1>2, WideIs DEF None
<1>4. Sound(window)'
    BY <1>3 DEF Sound
<1>5. events' \in 0 .. MaxEvents
    BY <1>2, TypeParts DEF WindowInv
<1>6. phoneZoom' \in BOOLEAN
    BY <1>2, TypeParts DEF WindowInv
<1> QED
    BY <1>2, <1>4, <1>5, <1>6, ClearingKeepsInv

\* A sweep takes a zoom off at most, forgets leases and kills sessions nobody
\* is attached to.
LEMMA ReapDoes ==
    ASSUME WindowInv, NEW killed, Reap(leases, killed)
    PROVE  /\ window' \in WindowRec /\ window'.size = window.size
           /\ window'.narrow = window.narrow /\ window'.mark = window.mark
           /\ session' \in [Attaches -> {None, "spawning", "attached", "gone", "left over"}]
           /\ \A j \in Attaches : session'[j] \in {session[j], "gone"}
           /\ leases' \in [Attaches -> {NoLease, None} \cup Panes]
           /\ phoneZoom' \in BOOLEAN /\ (phoneZoom' => phoneZoom)
<1>1. /\ window \in WindowRec /\ phoneZoom \in BOOLEAN
      /\ leases \in [Attaches -> {NoLease, None} \cup Panes]
      /\ session \in [Attaches -> {None, "spawning", "attached", "gone", "left over"}]
    BY TypeParts DEF WindowInv
<1>2. /\ window' = window \/ window' = Unzoomed(window)
      /\ phoneZoom' \in BOOLEAN /\ (phoneZoom' => phoneZoom)
      /\ leases' = [j \in Attaches |-> IF session[j] = "attached" THEN leases[j] ELSE NoLease]
      /\ session' = [j \in Attaches |->
                       IF session[j] = "left over" /\ j \in killed THEN "gone" ELSE session[j]]
    BY DEF Reap, ZoomerNow
<1>3. /\ window' \in WindowRec /\ window'.size = window.size
      /\ window'.narrow = window.narrow /\ window'.mark = window.mark
    BY <1>1, <1>2, UnzoomedIs
<1>4. /\ session' \in [Attaches -> {None, "spawning", "attached", "gone", "left over"}]
      /\ \A j \in Attaches : session'[j] \in {session[j], "gone"}
    BY <1>1, <1>2
<1>5. leases' \in [Attaches -> {NoLease, None} \cup Panes]
    BY <1>1, <1>2
<1> QED
    BY <1>2, <1>3, <1>4, <1>5

\* The sweeper's, and the boot's: no client is about to land when a server boots.
LEMMA ReapKeepsInv ==
    ASSUME WindowInv, SweepMirrors \/ BootReap
    PROVE  WindowInv'
<1> USE DEF WindowInv
<1>1. /\ UNCHANGED <<attach, socket, claimed, events, tookManual, raced>>
      /\ \/ process = "up" /\ process' = "up"
         \/ process = "down" /\ process' = "booting"
    BY DEF SweepMirrors, BootReap
<1>2. \E killed : Reap(leases, killed)
    BY DEF SweepMirrors, BootReap
<1>3. /\ window' \in WindowRec /\ window'.size = window.size
      /\ window'.narrow = window.narrow /\ window'.mark = window.mark
      /\ session' \in [Attaches -> {None, "spawning", "attached", "gone", "left over"}]
      /\ \A j \in Attaches : session'[j] \in {session[j], "gone"}
      /\ leases' \in [Attaches -> {NoLease, None} \cup Panes]
      /\ phoneZoom' \in BOOLEAN
    BY <1>2, ReapDoes
<1>4. WindowTypeOK'
    <2>1. process' \in {"up", "down", "booting"}
        BY <1>1
    <2>2. /\ attach' \in [Attaches -> AttachRec]
          /\ socket' \in [Attaches -> {None, "over"} \cup Owes]
          /\ claimed' \in BOOLEAN /\ events' \in 0 .. MaxEvents
          /\ tookManual' \in BOOLEAN /\ raced' \in BOOLEAN
        BY <1>1, TypeParts
    <2> QED
        BY <1>3, <2>1, <2>2, PartsType
<1>5. OwingHad'
    BY <1>1 DEF OwingHad, Owing
<1>6. NarrowIsManual' /\ NarrowIsMarked' /\ HadNotManual'
    BY <1>1, <1>3 DEF NarrowIsManual, NarrowIsMarked, HadNotManual
<1>7. SpawningMarked'
    BY <1>1, <1>3 DEF SpawningMarked
<1>8. ClaimHolds'
    BY <1>1, <1>3 DEF ClaimHolds
<1> QED
    BY <1>4, <1>5, <1>6, <1>7, <1>8

\* What a mark that reads as the option does is no phone's width.
LEMMA SweepKeepsInv ==
    ASSUME WindowInv, BootSweep
    PROVE  WindowInv'
<1> USE DEF WindowInv
<1>1. /\ UNCHANGED <<session, attach, socket, leases, claimed, events, phoneZoom, tookManual, raced>>
      /\ process = "booting" /\ process' = "up"
      /\ \/ window' = window
         \/ window' = Cleared(window) /\ window.mark = window.size
         \/ window' = Cleared(GivenBack(window, window.mark)) /\ window.mark # None
    BY DEF BootSweep
<1>2. Sound(window) /\ window \in WindowRec
    BY TypeParts, SoundNow
<1>3. Sound(window')
    <2>1. CASE window' = window
        BY <1>1, <1>2, <2>1 DEF Sound
    <2>2. CASE window' = Cleared(window) /\ window.mark = window.size
        <3>1. /\ window' \in WindowRec /\ window'.mark = None
              /\ window'.size = window.size /\ window'.narrow = window.narrow
            BY <1>2, <2>2, ClearedIs
        <3> QED
            BY <1>1, <1>2, <2>2, <3>1 DEF Sound, None
    <2>3. CASE window' = Cleared(GivenBack(window, window.mark)) /\ window.mark # None
        <3>1. window.mark \in Sizes
            BY <1>2, <2>3 DEF WindowRec
        <3>2. window' \in WindowRec /\ window'.mark = None /\ ~window'.narrow
            BY <1>2, <2>3, <3>1, WideIs
        <3> QED
            BY <3>2 DEF Sound, None
    <2> QED
        BY <1>1, <2>1, <2>2, <2>3
<1>4. WindowTypeOK'
    BY <1>1, <1>3, TypeParts, PartsType DEF Sound
<1>5. OwingHad' /\ ClaimHolds'
    BY <1>1 DEF OwingHad, Owing, ClaimHolds
<1>6. NarrowIsManual' /\ NarrowIsMarked' /\ HadNotManual'
    BY <1>1, <1>3 DEF Sound, NarrowIsManual, NarrowIsMarked, HadNotManual
<1>7. SpawningMarked'
    BY <1>1 DEF SpawningMarked
<1> QED
    BY <1>4, <1>5, <1>6, <1>7

LEMMA EndsCounts ==
    ASSUME WindowInv, Ends
    PROVE  events' \in 0 .. MaxEvents /\ phoneZoom' \in BOOLEAN
<1>1. events < MaxEvents /\ events' = events + 1 /\ phoneZoom' = FALSE
    BY DEF Ends
<1>2. events \in 0 .. MaxEvents /\ MaxEvents \in Nat
    BY TypeParts, WindowConstants DEF WindowInv
<1>3. events' \in 0 .. MaxEvents
    BY <1>1, <1>2
<1>4. phoneZoom' \in BOOLEAN
    BY <1>1
<1> QED
    BY <1>3, <1>4

\* What an end of the process leaves, whatever tmux still has: nothing owed, no
\* attach and no take-over.
LEMMA EndsDoes ==
    ASSUME WindowInv, Ends, Sound(window'),
           session' \in [Attaches -> {None, "spawning", "attached", "gone", "left over"}],
           \A j \in Attaches : session'[j] # "spawning"
    PROVE  WindowInv'
<1> USE DEF WindowInv
<1>1. /\ process' = "down" /\ claimed' = FALSE /\ phoneZoom' = FALSE
      /\ UNCHANGED <<tookManual, raced>>
      /\ socket' = [j \in Attaches |-> IF socket[j] = None THEN None ELSE "over"]
      /\ attach' = [j \in Attaches |-> NoAttach]
      /\ leases' = [j \in Attaches |-> IF j \in Leased THEN None ELSE NoLease]
      /\ events < MaxEvents /\ events' = events + 1
    BY DEF Ends
<1>2. tookManual \in BOOLEAN /\ raced \in BOOLEAN
    BY TypeParts
<1>3. WindowTypeOK'
    <2>1. NoAttach \in AttachRec
        BY DEF NoAttach, AttachRec
    <2>2. /\ attach' \in [Attaches -> AttachRec]
          /\ leases' \in [Attaches -> {NoLease, None} \cup Panes]
        BY <1>1, <2>1
    <2>3. socket' \in [Attaches -> {None, "over"} \cup Owes]
        BY <1>1
    <2>4. events' \in 0 .. MaxEvents /\ phoneZoom' \in BOOLEAN
        BY EndsCounts
    <2> QED
        BY <1>1, <1>2, <2>2, <2>3, <2>4, PartsType DEF Sound
<1>4. OwingHad'
    BY <1>1 DEF OwingHad, Owing, None
<1>5. NarrowIsManual' /\ NarrowIsMarked'
    BY <1>1 DEF Sound, NarrowIsManual, NarrowIsMarked
<1>6. HadNotManual'
    <2>1. \A j \in Attaches : attach'[j].had # "manual"
        BY <1>1 DEF NoAttach, None
    <2> QED
        BY <1>1, <2>1 DEF Sound, HadNotManual
<1>7. SpawningMarked' /\ ClaimHolds'
    BY <1>1 DEF SpawningMarked, ClaimHolds
<1> QED
    BY <1>3, <1>4, <1>5, <1>6, <1>7

\* A killed server tells the window nothing: the mark is its way back.
LEMMA KilledKeepsInv ==
    ASSUME WindowInv, ServerKilled
    PROVE  WindowInv'
<1>1. /\ Ends /\ window' = window /\ UNCHANGED <<tookManual, raced>>
      /\ session' = [j \in Attaches |-> IF session[j] = "spawning" THEN "gone" ELSE session[j]]
    BY DEF ServerKilled, Ends
<1>2. session \in [Attaches -> {None, "spawning", "attached", "gone", "left over"}]
    BY TypeParts DEF WindowInv
<1>3. /\ session' \in [Attaches -> {None, "spawning", "attached", "gone", "left over"}]
      /\ \A j \in Attaches : session'[j] # "spawning"
    BY <1>1, <1>2
<1>4. Sound(window')
    BY <1>1, SoundNow DEF Sound
<1> QED
    BY <1>1, <1>3, <1>4, EndsDoes

\* A shutdown puts back every attach there is: none outlives it that could land.
LEMMA StopKeepsInv ==
    ASSUME WindowInv, ServerStops
    PROVE  WindowInv'
<1>1. /\ Ends /\ window' = PutBack[MaxAttaches] /\ UNCHANGED <<tookManual, raced>>
      /\ session' = [j \in Attaches |-> IF j \in Owing THEN "gone" ELSE session[j]]
    BY DEF ServerStops, Ends
<1>2. session \in [Attaches -> {None, "spawning", "attached", "gone", "left over"}]
    BY TypeParts DEF WindowInv
<1>3. \A j \in Attaches : session[j] = "spawning" => j \in Owing
    BY DEF WindowInv, SpawningMarked, Owing
<1>4. /\ session' \in [Attaches -> {None, "spawning", "attached", "gone", "left over"}]
      /\ \A j \in Attaches : session'[j] # "spawning"
    BY <1>1, <1>2, <1>3
<1>5. Sound(PutBack[MaxAttaches])
    BY SoundNow, PutBackSound DEF WindowInv
<1> HIDE DEF PutBack
<1>6. Sound(window')
    BY <1>1, <1>5 DEF Sound
<1> QED
    BY <1>1, <1>4, <1>6, EndsDoes

LEMMA NextInv == WindowInv /\ [WindowNext]_windowVars => WindowInv'
<1> SUFFICES ASSUME WindowInv, [WindowNext]_windowVars PROVE WindowInv'
    OBVIOUS
<1>1. ASSUME NEW i \in Attaches, NEW pane \in Panes, NEW fit \in BOOLEAN, OpenPane(i, pane, fit)
      PROVE  WindowInv'
    BY <1>1, OpenKeepsInv
<1>2. ASSUME NEW i \in Attaches,
             Land(i) \/ ResizeFrame(i) \/ CloseSocket(i) \/ ClientGoes(i) \/ TearDown(i)
      PROVE  WindowInv'
    BY <1>2, LandKeepsInv, FrameKeepsInv, CloseKeepsInv, TearDownKeepsInv
<1>3. CASE TakeOver \/ DeskFit \/ \E pane \in Panes : DeskZoom(pane)
    BY <1>3, TakeOverKeepsInv, DeskKeepsInv
<1>4. CASE ClaimEnds
    <2>1. /\ claimed' = FALSE
          /\ UNCHANGED <<window, session, attach, socket, leases, process, events, phoneZoom, tookManual, raced>>
        BY <1>4 DEF ClaimEnds
    <2>2. WindowTypeOK'
        BY <2>1, TypeParts, PartsType DEF WindowInv
    <2>3. /\ OwingHad' /\ NarrowIsManual' /\ NarrowIsMarked' /\ HadNotManual'
          /\ SpawningMarked' /\ ClaimHolds'
        BY <2>1 DEF WindowInv, OwingHad, Owing, NarrowIsManual, NarrowIsMarked, HadNotManual,
                    SpawningMarked, ClaimHolds
    <2> QED
        BY <2>2, <2>3 DEF WindowInv
<1>5. CASE Reclaim \/ SweepMirrors \/ BootReap \/ BootSweep
    BY <1>5, ReclaimKeepsInv, ReapKeepsInv, SweepKeepsInv
<1>6. CASE ServerKilled \/ ServerStops
    BY <1>6, KilledKeepsInv, StopKeepsInv
<1>7. CASE UNCHANGED windowVars
    <2>1. UNCHANGED <<window, session, attach, socket, leases, claimed,
                      process, events, phoneZoom, tookManual, raced>>
        BY <1>7 DEF windowVars
    <2>2. WindowTypeOK'
        BY <2>1, TypeParts, PartsType DEF WindowInv
    <2>3. /\ OwingHad' /\ NarrowIsManual' /\ NarrowIsMarked' /\ HadNotManual'
          /\ SpawningMarked' /\ ClaimHolds'
        BY <2>1 DEF WindowInv, OwingHad, Owing, NarrowIsManual, NarrowIsMarked, HadNotManual,
                    SpawningMarked, ClaimHolds
    <2> QED
        BY <2>2, <2>3 DEF WindowInv
<1> QED
    BY <1>1, <1>2, <1>3, <1>4, <1>5, <1>6, <1>7 DEF WindowNext

-----------------------------------------------------------------------------

(* A take-over holds. *)

\* What TakenBackStays asks of a step.
StaysBack ==
    claimed /\ claimed' =>
        \/ LateLanding
        \/ /\ ~window.narrow => ~window.narrow'
           /\ ~phoneZoom => ~phoneZoom'

LEMMA LandStaysBack ==
    ASSUME WindowInv, NEW i \in Attaches, Land(i)
    PROVE  StaysBack
<1>0. session[i] = "spawning" /\ session'[i] = "attached"
    BY TypeParts DEF Land, WindowInv
<1> SUFFICES ASSUME claimed, ~raced PROVE ~window'.narrow /\ (~phoneZoom => ~phoneZoom')
    BY <1>0 DEF StaysBack, LateLanding
<1>1. window \in WindowRec /\ "largest" \in Sizes
    BY TypeParts DEF WindowInv, Sizes
<1>2. ~attach[i].squeezes /\ ~attach[i].zooms
    BY DEF Land, WindowInv, ClaimHolds
<1> DEFINE kept  == IF window.zoom = attach[i].pane THEN attach[i].pane ELSE None
           given == GivenBack(window, "largest")
           wide  == [given EXCEPT !.zoom = kept]
<1>3. /\ window' = wide
      /\ phoneZoom' = (kept # None /\ (kept = window.zoom => phoneZoom))
    BY <1>2 DEF Land
<1>4. kept = None \/ kept = window.zoom
    OBVIOUS
<1> HIDE DEF kept
<1>5. phoneZoom' => phoneZoom
    BY <1>3, <1>4
<1>6. given \in WindowRec /\ ~given.narrow
    BY <1>1, GivenBackIs
<1> HIDE DEF given
<1>7. ~wide.narrow
    BY <1>6 DEF WindowRec
<1> HIDE DEF wide
<1> QED
    BY <1>3, <1>5, <1>7

LEMMA NextStaysBack ==
    ASSUME WindowInv, [WindowNext]_windowVars
    PROVE  StaysBack
<1>0. window \in WindowRec /\ "largest" \in Sizes /\ "manual" \in Sizes
    BY TypeParts DEF WindowInv, Sizes
<1>1. ASSUME NEW i \in Attaches, NEW pane \in Panes, NEW fit \in BOOLEAN, OpenPane(i, pane, fit)
      PROVE  StaysBack
    <2>1. window' = Marked(window) /\ phoneZoom' = phoneZoom
        BY <1>1 DEF OpenPane
    <2>2. window'.narrow = window.narrow
        BY <1>0, <2>1, MarkedIs
    <2> QED
        BY <2>1, <2>2 DEF StaysBack
<1>2. ASSUME NEW i \in Attaches, ResizeFrame(i) PROVE StaysBack
    BY <1>2 DEF ResizeFrame, StaysBack, WindowInv, ClaimHolds
<1>3. ASSUME NEW i \in Attaches, CloseSocket(i) \/ ClientGoes(i) PROVE StaysBack
    BY <1>3 DEF CloseSocket, ClientGoes, StaysBack
<1>4. ASSUME NEW i \in Attaches, TearDown(i) PROVE StaysBack
    <2>1. claimed => Restored(window, i, PhoneOn) = window
        BY DEF Restored
    <2>2. window' = Restored(window, i, PhoneOn) /\ (phoneZoom' => phoneZoom)
        BY <1>4 DEF TearDown, ZoomerNow
    <2> QED
        BY <2>1, <2>2 DEF StaysBack
<1>5. CASE TakeOver \/ DeskFit
    <2>1. /\ phoneZoom' = FALSE
          /\ \/ window' = Cleared(GivenBack(Unzoomed(window), "largest"))
             \/ window' = Cleared(GivenBack(Unzoomed(window), "manual"))
        BY <1>5 DEF TakeOver, DeskFit
    <2>2. ~window'.narrow
        BY <1>0, <2>1, WideIs, UnzoomedIs
    <2> QED
        BY <2>1, <2>2 DEF StaysBack
<1>6. ASSUME NEW pane \in Panes, DeskZoom(pane) PROVE StaysBack
    BY <1>0, <1>6 DEF DeskZoom, StaysBack, WindowRec
<1>7. CASE Reclaim
    <2>1. window.mark \in Sizes
        BY <1>0, <1>7 DEF Reclaim, WindowRec
    <2>2. window' = Cleared(GivenBack(window, window.mark)) /\ phoneZoom' = phoneZoom
        BY <1>7 DEF Reclaim
    <2>3. ~window'.narrow
        BY <1>0, <2>1, <2>2, WideIs
    <2> QED
        BY <2>2, <2>3 DEF StaysBack
<1>8. CASE SweepMirrors \/ BootReap
    <2>1. \E killed : Reap(leases, killed)
        BY <1>8 DEF SweepMirrors, BootReap
    <2>2. window'.narrow = window.narrow /\ (phoneZoom' => phoneZoom)
        BY <2>1, ReapDoes
    <2> QED
        BY <2>2 DEF StaysBack
<1>9. CASE BootSweep
    <2>1. /\ phoneZoom' = phoneZoom
          /\ \/ window' = window
             \/ window' = Cleared(window)
             \/ window' = Cleared(GivenBack(window, window.mark)) /\ window.mark # None
        BY <1>9 DEF BootSweep
    <2>2. window.mark # None => window.mark \in Sizes
        BY <1>0 DEF WindowRec
    <2>3. window'.narrow => window.narrow
        <3>1. Cleared(window).narrow = window.narrow
            BY <1>0, ClearedIs
        <3>2. window.mark # None => ~Cleared(GivenBack(window, window.mark)).narrow
            BY <1>0, <2>2, WideIs
        <3> QED
            BY <2>1, <3>1, <3>2
    <2> QED
        BY <2>1, <2>3 DEF StaysBack
<1>10. CASE ClaimEnds \/ ServerKilled \/ ServerStops
    BY <1>10 DEF ClaimEnds, ServerKilled, ServerStops, Ends, StaysBack
<1>11. CASE UNCHANGED windowVars
    BY <1>11 DEF windowVars, StaysBack
<1> QED
    BY <1>1, <1>2, <1>3, <1>4, <1>5, <1>6, <1>7, <1>8, <1>9, <1>10, <1>11, LandStaysBack
       DEF WindowNext

-----------------------------------------------------------------------------

\* Every step of a phone, the desk, a sweep or the process keeps the invariant.
THEOREM WindowInvariant == WindowSpec => []WindowInv
<1>1. WindowInit => WindowInv
    BY InitInv
<1>2. WindowInv /\ [WindowNext]_windowVars => WindowInv'
    BY NextInv
<1> QED
    BY <1>1, <1>2, PTL DEF WindowSpec

\* The window, its phones and the server are always of their types.
THEOREM TypeCorrect == WindowSpec => []WindowTypeOK
<1>1. WindowInv => WindowTypeOK
    BY DEF WindowInv
<1> QED
    BY <1>1, WindowInvariant, PTL

\* A window at a phone's width can be told for one, by the mark or by an attach
\* that will put it back, until `manual` is once taken for the way back or a mark
\* comes off under an argv that is out: after any number of phones, take-overs,
\* kills and shutdowns, at whatever step they fall.
THEOREM NarrowStaysProvable == WindowSpec => []StillProvable
<1>1. WindowInv => StillProvable
    BY DEF WindowInv, NarrowIsMarked, StillProvable, PinnedIsProvable
<1> QED
    BY <1>1, WindowInvariant, PTL

\* While the desk's take-over holds, no reattach, teardown, resize frame or
\* sweep narrows the window or gives it a phone's zoom: nothing does but an argv
\* that runs after a mark came off under one.
THEOREM TakenBackHolds == WindowSpec => TakenBackStays
<1>1. WindowInv /\ [WindowNext]_windowVars =>
        [claimed /\ claimed' =>
             \/ LateLanding
             \/ /\ ~window.narrow => ~window.narrow'
                /\ ~phoneZoom => ~phoneZoom']_windowVars
    BY NextStaysBack DEF StaysBack
<1> QED
    BY <1>1, WindowInvariant, PTL DEF WindowSpec, TakenBackStays
=============================================================================
