---------------------------- MODULE PhoneWindow ----------------------------
(***************************************************************************)
(* What a phone leaves on a tmux window that a desk is looking at          *)
(* (tmuxctl.ts, terminal.ts, mirrorlease.ts): a grouped session of its     *)
(* own, a zoom onto one pane and, if it asks to fit, its own width.  The   *)
(* way back is kept in four places: in the attach, on the window as a      *)
(* mark, in a file of leases, and in two timers after the socket closes.   *)
(*                                                                         *)
(* One window of one tmux server, and one server process that may be       *)
(* killed.  Attaches are numbered in the order they open, which is their   *)
(* `seq`.  The desk's client stays attached and is wider than a phone.     *)
(***************************************************************************)
EXTENDS Integers, FiniteSets

CONSTANTS
    Panes,          \* the window's panes, more than one
    MaxAttaches,    \* bound: attaches ever opened
    MaxEvents       \* bound: acts of the person at the desk and ends of the process

ASSUME WindowConstants ==
    /\ IsFiniteSet(Panes) /\ Cardinality(Panes) > 1
    /\ MaxAttaches \in Nat /\ MaxEvents \in Nat

VARIABLES
    window,     \* tmux's own: window-size, width, zoomed pane, @agx-had-size
    session,    \* tmux's own: each attach's grouped session
    attach,     \* PhoneAttach: what each attach remembers
    socket,     \* its websocket, and then its place on the `owed` ledger
    leases,     \* mirror-leases.json, and the zoom each lease names in memory
    claimed,    \* deskClaimed
    process,    \* the server process
    events,     \* counted against MaxEvents
    phoneZoom,  \* history: the zoom the window has is a phone's
    tookManual, \* history: `manual` was once recorded as the way back
    raced       \* history: a mark came off while an attach's argv was out

windowVars == <<window, session, attach, socket, leases, claimed,
                process, events, phoneZoom, tookManual, raced>>

Attaches == 1 .. MaxAttaches
Sizes    == {"unset", "latest", "largest", "manual"}    \* of the option on the window
None     == "none"
NoLease  == "no lease"
NoAttach == [pane |-> None, fit |-> FALSE, zooms |-> FALSE, squeezes |-> FALSE,
             had |-> None, owesZoom |-> None]

WindowInit ==
    /\ window = [size |-> "unset", narrow |-> FALSE, zoom |-> None, mark |-> None]
    /\ session = [i \in Attaches |-> None]
    /\ attach = [i \in Attaches |-> NoAttach]
    /\ socket = [i \in Attaches |-> None]
    /\ leases = [i \in Attaches |-> NoLease]
    /\ claimed = FALSE /\ process = "up"
    /\ events = 0 /\ phoneZoom = FALSE /\ tookManual = FALSE /\ raced = FALSE

-----------------------------------------------------------------------------
(* What tmux and the server are asked, and the pieces a handler is made of. *)

\* phoneWindows: attached sessions only.
PhoneOn == \E i \in Attaches : session[i] = "attached"

\* phoneAttachedTo: sockets that carry an attach.
PhoneHolds == \E i \in Attaches : socket[i] = "open"

\* windowSizeOptions, markPinned: only an unmarked window is marked.
Marked(w) == IF w.mark = None THEN [w EXCEPT !.mark = w.size] ELSE w

\* clearSizeMark
Cleared(w) == [w EXCEPT !.mark = None]

\* resize-window -x, which sets `manual`.
Squeezed(w) == [w EXCEPT !.size = "manual", !.narrow = TRUE]

\* Mutant: the option alone, which recomputes nothing.
OptionBack(w, size) == [w EXCEPT !.size = size]

\* resize-window -A, and then the option.
GivenBack(w, size) == [w EXCEPT !.size = size, !.narrow = FALSE]

Unzoomed(w) == [w EXCEPT !.zoom = None]

\* unzoomWindow with its onlyPane.
UnzoomedFrom(w, pane) == IF w.zoom = pane THEN Unzoomed(w) ELSE w

\* Mutant: what is put back is the mark, which may be gone.
RestoredFromMark(w, i, busy) ==
    IF busy \/ claimed THEN w
    ELSE IF w.size = attach[i].had THEN Cleared(w)
    ELSE IF w.size \notin {"manual", "largest"} THEN w
    ELSE Cleared(GivenBack(UnzoomedFrom(w, attach[i].owesZoom), w.mark))

\* Mutant: the mark goes though the window was skipped.
RestoredClearing(w, i, busy) ==
    IF busy \/ claimed \/ w.size = attach[i].had THEN Cleared(w)
    ELSE IF w.size \notin {"manual", "largest"} THEN w
    ELSE Cleared(GivenBack(UnzoomedFrom(w, attach[i].owesZoom), attach[i].had))

\* restoreWindows for attach i.
Restored(w, i, busy) ==
    IF busy \/ claimed THEN w
    ELSE IF w.size = attach[i].had THEN Cleared(w)
    ELSE IF w.size \notin {"manual", "largest"} THEN w
    ELSE Cleared(GivenBack(UnzoomedFrom(w, attach[i].owesZoom), attach[i].had))

\* Whose zoom it is, after a step that can only take the zoom off.
ZoomerNow(w) == phoneZoom' = (phoneZoom /\ w.zoom # None)

\* After a step that may take the mark off: an argv built while the window was
\* marked, and perhaps free, will run on one that is not.
RacedNow(w) == raced' = (raced \/ (w.mark = None /\ \E i \in Attaches : session[i] = "spawning"))

\* An attach whose argv has run, or never will.
Spent(a) == [a EXCEPT !.pane = None, !.zooms = FALSE, !.squeezes = FALSE]

-----------------------------------------------------------------------------
(* A phone. *)

\* attachArgvFor, up to the spawn of its argv.
OpenPane(i, pane, fit) ==
    /\ process = "up"
    /\ socket[i] = None /\ \A j \in Attaches : j < i => socket[j] # None
    /\ LET hold  == claimed /\ ~fit
           zooms == ~hold /\ window.zoom # pane
       IN  /\ claimed' = hold
           /\ attach' = [attach EXCEPT ![i] =
                 [pane |-> pane, fit |-> fit, zooms |-> zooms, squeezes |-> fit,
                  had |-> window.size, owesZoom |-> IF hold THEN None ELSE pane]]
           /\ leases' = [leases EXCEPT ![i] = IF zooms THEN pane ELSE None]
    /\ window' = Marked(window)
    /\ tookManual' = (tookManual \/ window.size = "manual")
    /\ session' = [session EXCEPT ![i] = "spawning"]
    /\ socket' = [socket EXCEPT ![i] = "open"]
    /\ UNCHANGED <<process, events, phoneZoom, raced>>

\* tmux runs the argv: largest, select-pane (which takes off another pane's
\* zoom), resize-pane -Z (which toggles) and the fit,
\* as they were when the argv was built.
Land(i) ==
    /\ session[i] = "spawning"
    /\ LET a     == attach[i]
           kept  == IF window.zoom = a.pane THEN a.pane ELSE None
           zoom  == IF a.zooms THEN (IF kept = None THEN a.pane ELSE None) ELSE kept
           wide  == [GivenBack(window, "largest") EXCEPT !.zoom = zoom]
       IN  /\ window' = IF a.squeezes THEN Squeezed(wide) ELSE wide
           /\ phoneZoom' = (zoom # None /\ (zoom = window.zoom => phoneZoom))
    /\ session' = [session EXCEPT ![i] = "attached"]
    /\ attach' = [attach EXCEPT ![i] = Spent(@)]
    /\ UNCHANGED <<socket, leases, claimed, process, events, tookManual, raced>>

\* A resize frame: fitWindow, while the attach still fits.
ResizeFrame(i) ==
    /\ socket[i] = "open" /\ attach[i].fit
    /\ window' = Squeezed(Marked(window))
    /\ tookManual' = (tookManual \/ (window.mark = None /\ window.size = "manual"))
    /\ UNCHANGED <<session, attach, socket, leases, claimed, process, events, phoneZoom, raced>>

\* cleanup: the socket closes and the attach goes on the ledger.
CloseSocket(i) ==
    /\ socket[i] = "open"
    /\ socket' = [socket EXCEPT ![i] = "owed twice"]
    /\ attach' = [attach EXCEPT ![i].fit = FALSE]        \* no frame comes any more
    /\ UNCHANGED <<window, session, leases, claimed, process, events, phoneZoom, tookManual, raced>>

\* The tmux client of a closed attach goes, and its session with it
\* (destroy-unattached), unless that option was never set.
ClientGoes(i) ==
    /\ socket[i] # "open"
    /\ \/ session[i] \in {"spawning", "attached"} /\ session' = [session EXCEPT ![i] = "gone"]
       \/ session[i] = "attached" /\ session' = [session EXCEPT ![i] = "left over"]
    /\ attach' = [attach EXCEPT ![i] = Spent(@)]
    /\ UNCHANGED <<window, socket, leases, claimed, process, events, phoneZoom, tookManual, raced>>

\* The two teardown timers, at 1500 and 3000 ms.  Bound: by the first of them the
\* closed attach's own argv has run or died with its client, which cleanup hung up.
TearDown(i) ==
    /\ socket[i] \in {"owed twice", "owed once"} /\ session[i] # "spawning"
    /\ window' = Restored(window, i, PhoneOn)
    /\ ZoomerNow(window') /\ RacedNow(window')
    /\ socket' = [socket EXCEPT ![i] = IF @ = "owed twice" THEN "owed once" ELSE "over"]
    /\ attach' = [attach EXCEPT ![i] = IF socket[i] = "owed once" THEN NoAttach ELSE @]
    /\ UNCHANGED <<session, leases, claimed, process, events, tookManual>>

-----------------------------------------------------------------------------
(* The person at the desk. *)

Acts ==
    /\ process = "up"
    /\ events < MaxEvents /\ events' = events + 1

\* Mutant: the phones keep following the window.
TakeOverUntold ==
    /\ Acts
    /\ window' = Cleared(GivenBack(Unzoomed(window), "largest"))
    /\ claimed' = TRUE
    /\ phoneZoom' = FALSE /\ RacedNow(window')
    /\ UNCHANGED <<session, attach, socket, leases, process, tookManual>>

\* runAction "takeover", and tellPhonesTheWindowMoved.
TakeOver ==
    /\ Acts
    /\ window' = Cleared(GivenBack(Unzoomed(window), "largest"))
    /\ claimed' = TRUE
    /\ attach' = [i \in Attaches |->
                    IF socket[i] = "open" THEN [attach[i] EXCEPT !.fit = FALSE] ELSE attach[i]]
    /\ phoneZoom' = FALSE /\ RacedNow(window')
    /\ UNCHANGED <<session, socket, leases, process, tookManual>>

\* CLAIM_MS
ClaimEnds ==
    /\ claimed /\ claimed' = FALSE
    /\ UNCHANGED <<window, session, attach, socket, leases, process, events, phoneZoom,
                   tookManual, raced>>

\* runAction "fit"
DeskFit ==
    /\ Acts
    /\ window' = Cleared(GivenBack(Unzoomed(window), "manual"))
    /\ phoneZoom' = FALSE /\ RacedNow(window')
    /\ UNCHANGED <<session, attach, socket, leases, claimed, process, tookManual>>

\* A person's own zoom key, in tmux.
DeskZoom(pane) ==
    /\ Acts
    /\ window' = [window EXCEPT !.zoom = IF @ = None THEN pane ELSE None]
    /\ phoneZoom' = FALSE
    /\ UNCHANGED <<session, attach, socket, leases, claimed, process, tookManual, raced>>

-----------------------------------------------------------------------------
(* The server's own passes. *)

\* A panel's poll: reclaimPinnedWindow, once the window has been narrow with
\* nobody on it or about to be for two seconds.  Only a marked window is ours.
Reclaim ==
    /\ process = "up"
    /\ window.narrow /\ ~PhoneOn /\ ~PhoneHolds /\ window.mark # None
    /\ window' = Cleared(GivenBack(window, window.mark))
    /\ RacedNow(window')
    /\ UNCHANGED <<session, attach, socket, leases, claimed, process, events, phoneZoom, tookManual>>

\* reapMirrorSessions over these leases: a session that is not there gives its
\* zoom up, and one nobody is attached to is killed.
Reap(ls, killed) ==
    LET absent == {i \in Attaches : ls[i] # NoLease /\ session[i] \in {"spawning", "gone"}}
        w      == IF PhoneOn \/ claimed \/ window.zoom \notin {ls[i] : i \in absent}
                  THEN window ELSE Unzoomed(window)
    IN  /\ window' = w
        /\ ZoomerNow(w)
        /\ leases' = [i \in Attaches |-> IF session[i] = "attached" THEN ls[i] ELSE NoLease]
        /\ session' = [i \in Attaches |->
                         IF session[i] = "left over" /\ i \in killed THEN "gone" ELSE session[i]]

Leased == {i \in Attaches : leases[i] # NoLease}

\* Mutant: only what is on record is killed.
SweepByRecord ==
    /\ process = "up"
    /\ Reap(leases, Leased)
    /\ UNCHANGED <<attach, socket, claimed, process, events, tookManual, raced>>

\* startMirrorSweeper's interval: then reapOrphanedMirrors, which needs no lease.
SweepMirrors ==
    /\ process = "up"
    /\ Reap(leases, Attaches)
    /\ UNCHANGED <<attach, socket, claimed, process, events, tookManual, raced>>

-----------------------------------------------------------------------------
(* The process ends and starts. *)

Ends ==
    /\ process = "up" /\ events < MaxEvents
    /\ events' = events + 1
    /\ process' = "down"
    /\ socket' = [i \in Attaches |-> IF socket[i] = None THEN None ELSE "over"]
    /\ claimed' = FALSE
    /\ attach' = [i \in Attaches |-> NoAttach]
    \* load() will read the leases back without their zooms.
    /\ leases' = [i \in Attaches |-> IF i \in Leased THEN None ELSE NoLease]
    /\ phoneZoom' = FALSE
    /\ UNCHANGED <<tookManual, raced>>

\* SIGKILL: nothing is put back.
ServerKilled ==
    /\ Ends
    /\ session' = [i \in Attaches |-> IF session[i] = "spawning" THEN "gone" ELSE session[i]]
    /\ UNCHANGED window

\* Attaches with something to put back.
Owing == {i \in Attaches : socket[i] \in {"open", "owed twice", "owed once"}}

\* A session the shutdown does not end.
Lingers == \E i \in Attaches \ Owing : session[i] = "attached"

\* The window once the newest n attaches have had their turn: newest first, so
\* the oldest capture is applied last.
PutBack[n \in 0 .. MaxAttaches] ==
    IF n = 0 THEN window
    ELSE LET i == MaxAttaches - n + 1
         IN  IF i \in Owing THEN Restored(PutBack[n - 1], i, Lingers) ELSE PutBack[n - 1]

\* shutdownTerminals: every phone session first, then every restore.
ServerStops ==
    /\ Ends
    /\ session' = [i \in Attaches |-> IF i \in Owing THEN "gone" ELSE session[i]]
    /\ window' = PutBack[MaxAttaches]

\* The boot's reapMirrorSessions.
BootReap ==
    /\ process = "down" /\ process' = "booting"
    /\ Reap(leases, Leased)
    /\ UNCHANGED <<attach, socket, claimed, events, tookManual, raced>>

\* sweepPinnedWindows, before the first answer: the claim beside a mark is
\* always a dead server's.
BootSweep ==
    /\ process = "booting" /\ process' = "up"
    /\ window' = IF PhoneOn \/ window.mark = None THEN window
                 ELSE IF window.mark = window.size THEN Cleared(window)
                 ELSE Cleared(GivenBack(window, window.mark))
    /\ UNCHANGED <<session, attach, socket, leases, claimed, events, phoneZoom, tookManual, raced>>

-----------------------------------------------------------------------------

WindowNext ==
    \/ \E i \in Attaches : \/ \E pane \in Panes, fit \in BOOLEAN : OpenPane(i, pane, fit)
                           \/ Land(i) \/ ResizeFrame(i) \/ CloseSocket(i)
                           \/ ClientGoes(i) \/ TearDown(i)
    \/ TakeOver \/ ClaimEnds \/ DeskFit \/ \E pane \in Panes : DeskZoom(pane)
    \/ Reclaim \/ SweepMirrors
    \/ ServerKilled \/ ServerStops \/ BootReap \/ BootSweep

\* The desk's panel stays open and polls, timers and sweeps run, a hung-up
\* client goes, and the server is started again.
WindowFairness ==
    /\ \A i \in Attaches : /\ WF_windowVars(Land(i))
                           /\ WF_windowVars(ClientGoes(i))
                           /\ WF_windowVars(TearDown(i))
    /\ WF_windowVars(Reclaim) /\ WF_windowVars(SweepMirrors)
    /\ WF_windowVars(BootReap) /\ WF_windowVars(BootSweep)

WindowSpec == WindowInit /\ [][WindowNext]_windowVars /\ WindowFairness

-----------------------------------------------------------------------------

\* Type correctness.
WindowTypeOK ==
    /\ window \in [size : Sizes, narrow : BOOLEAN, zoom : Panes \cup {None}, mark : Sizes \cup {None}]
    /\ session \in [Attaches -> {None, "spawning", "attached", "gone", "left over"}]
    /\ attach \in [Attaches -> [pane : Panes \cup {None}, fit : BOOLEAN, zooms : BOOLEAN,
                                squeezes : BOOLEAN, had : Sizes \cup {None}, owesZoom : Panes \cup {None}]]
    /\ socket \in [Attaches -> {None, "open", "owed twice", "owed once", "over"}]
    /\ leases \in [Attaches -> {NoLease, None} \cup Panes]
    /\ claimed \in BOOLEAN /\ process \in {"up", "down", "booting"}
    /\ events \in 0 .. MaxEvents
    /\ phoneZoom \in BOOLEAN /\ tookManual \in BOOLEAN /\ raced \in BOOLEAN

\* A window at the phone's width either carries the mark that says so, or an
\* attach that will put it back is open or on the ledger: "still pinned and no
\* longer marked" is "the one state the startup sweep can never fix".  Not once
\* a mark came off under an argv that was already out (`raced`).
PinnedIsProvable == window.narrow /\ ~raced => window.mark # None \/ Owing # {}

\* The same, until `manual` itself is once recorded as the way back.
StillProvable == tookManual \/ PinnedIsProvable

\* An argv runs after a mark came off under one.
LateLanding == raced /\ \E i \in Attaches : session[i] = "spawning" /\ session'[i] = "attached"

\* While the desk's take-over holds, no phone narrows the window or zooms it,
\* whatever teardown, resize frame, sweep or reattach comes: only an argv that was
\* out when the mark came off does.
TakenBackStays ==
    [][claimed /\ claimed' =>
           \/ LateLanding
           \/ /\ ~window.narrow => ~window.narrow'
              /\ ~phoneZoom => ~phoneZoom']_windowVars

\* A window that no open socket follows gets its width back: through a client
\* that lingers past both timers, a killed server and a second phone.  Not one
\* without a mark of its own (`tookManual`, `raced`).
NarrowEnds == window.narrow ~> (~window.narrow \/ tookManual \/ raced \/ PhoneHolds)

\* The phones' sessions that outlived their clients are killed, every one, with
\* or without a lease that names it.
MirrorsEnd ==
    (\E i \in Attaches : session[i] = "left over")
        ~> (\A i \in Attaches : session[i] # "left over")
=============================================================================
