------------------------------- MODULE PyViz -------------------------------
(***************************************************************************)
(* The visualizer: the thread of the user interface (Visualizer) and the   *)
(* thread that runs the simulator (SimulationThread).  A timer updates the *)
(* view, sets the time the simulation may run to, and gives the go; the    *)
(* simulation runs up to that time with the lock held.                     *)
(*                                                                         *)
(* The user interface holds the lock only within a callback, so its        *)
(* sections with the lock are single steps, which need that the simulation *)
(* does not run.  While it waits for the lock update_view_timeout runs the *)
(* main loop, so its calls can be nested; a timer that is being served is  *)
(* not served again.  Drawing (update_view, update_model) and the other    *)
(* callbacks that only read under the lock are left out.                   *)
(***************************************************************************)
EXTENDS Integers, Sequences

CONSTANTS
    Timer,          \* the IDs GLib.timeout_add returns
    None,           \* no timer ID
    Periods,        \* values of sample_period
    MaxMessages     \* bound of the model: pause messages not shown yet

ASSUME PyVizAssumption ==
    None \notin Timer /\ Periods \subseteq Nat \ {0} /\ MaxMessages \in Nat

VARIABLES
    playing,        \* is the play button active?
    timeoutId,      \* _update_timeout_id
    timers,         \* timers that have not been removed
    frames,         \* calls of update_view_timeout that wait for the lock
    gui, served,    \* where the user interface is, and the timer being served
    taken,          \* messages the call has taken
    period,         \* sample_period
    sim,            \* where the simulation thread is
    go, quit,       \* go, quit
    ahead,          \* the simulator's time since the last view
    target,         \* target_time, since the last view
    pending,        \* pause_messages (their number)
    unshown,        \* history: messages given and not shown
    late            \* history: runs begun since the simulation was paused

guiVars == <<playing, timeoutId, timers, frames, gui, served, taken, period>>
simVars == <<ahead, target, pending, unshown>>
vars    == <<guiVars, sim, go, quit, simVars, late>>

Waiting == {frames[i] : i \in DOMAIN frames}    \* timers whose calls wait

TypeOK ==
    /\ playing \in BOOLEAN /\ timeoutId \in Timer \cup {None} /\ timers \subseteq Timer
    /\ frames \in Seq(Timer)
    /\ \A i, k \in DOMAIN frames : frames[i] = frames[k] => i = k
    /\ gui \in {"loop", "after", "quitting", "joining"} /\ served \in Timer \cup {None}
    /\ taken \in Nat /\ period \in Periods
    /\ sim \in {"check", "wait", "clear", "checkQuit", "acquire", "run", "ended"}
    /\ go \in BOOLEAN /\ quit \in BOOLEAN
    /\ ahead \in Nat /\ target \in Nat /\ pending \in Nat /\ unshown \in Nat /\ late \in Nat

(* create_gui has started a timer, by setting the speed. *)
Init ==
    /\ playing = FALSE /\ timeoutId \in Timer /\ timers = {timeoutId} /\ frames = << >>
    /\ gui = "loop" /\ served = None /\ taken = 0 /\ period \in Periods
    /\ sim = "check" /\ go = FALSE /\ quit = FALSE
    /\ ahead = 0 /\ target = 0 /\ pending = 0 /\ unshown = 0 /\ late = 0

-----------------------------------------------------------------------------
(* The user. *)

\* Mutant: the old timer is removed after the ID has been set.
StartUpdateTimerFirst(t) ==
    /\ t \notin timers \cup Waiting \cup {timeoutId}
    /\ timers' = timers
    /\ timeoutId' = t

(* A timer is started in the place of the current one; IDs do not come     *)
(* again while anything refers to them.                                    *)
StartUpdateTimer(t) ==
    /\ t \notin timers \cup Waiting \cup {timeoutId}
    /\ timers' = (timers \ {timeoutId}) \cup {t}
    /\ timeoutId' = t

AcceptsInput == gui = "loop" /\ ~ quit

Play ==
    /\ AcceptsInput /\ ~ playing
    /\ playing' = TRUE /\ late' = 0
    /\ \E t \in Timer : StartUpdateTimer(t)
    /\ UNCHANGED <<frames, gui, served, taken, period, sim, go, quit, simVars>>

Pause ==
    /\ AcceptsInput /\ playing
    /\ playing' = FALSE
    /\ timers' = timers \ {timeoutId}
    /\ UNCHANGED <<timeoutId, frames, gui, served, taken, period, sim, go, quit, simVars, late>>

ChangeSpeed ==
    /\ AcceptsInput
    /\ period' \in Periods \ {period}
    /\ \E t \in Timer : StartUpdateTimer(t)
    /\ UNCHANGED <<playing, frames, gui, served, taken, sim, go, quit, simVars, late>>

(* _quit: the simulation thread is told, woken and joined. *)
Quit ==
    /\ AcceptsInput
    /\ gui' = "quitting" /\ quit' = TRUE
    /\ timers' = timers \ {timeoutId} /\ timeoutId' = None
    /\ UNCHANGED <<playing, frames, served, taken, period, sim, go, simVars, late>>

QuitGo ==
    /\ gui = "quitting"
    /\ gui' = "joining" /\ go' = TRUE
    /\ UNCHANGED <<playing, timeoutId, timers, frames, served, taken, period, sim, quit, simVars, late>>

Join ==
    /\ gui = "joining" /\ sim = "ended"
    /\ gui' = "loop"
    /\ UNCHANGED <<playing, timeoutId, timers, frames, served, taken, period, sim, go, quit, simVars, late>>

-----------------------------------------------------------------------------
(* update_view_timeout *)

\* Mutant: a period is added to the old target.
UpdateViewDrift(t) ==
    /\ sim # "run"
    /\ gui' = "after" /\ served' = t
    /\ taken' = pending /\ pending' = 0
    /\ ahead' = 0 /\ target' = (target - ahead) + period
    /\ UNCHANGED <<playing, timeoutId, timers, period, sim, go, quit, unshown, late>>

\* Mutant: the messages are taken and stay where they were.
UpdateViewKeeps(t) ==
    /\ sim # "run"
    /\ gui' = "after" /\ served' = t
    /\ taken' = pending
    /\ ahead' = 0 /\ target' = period
    /\ UNCHANGED <<playing, timeoutId, timers, period, sim, go, quit, pending, unshown, late>>

(* The part with the lock: the messages are taken, the view shows the      *)
(* simulator's time, and the simulation may run one period further.        *)
UpdateView(t) ==
    /\ sim # "run"
    /\ gui' = "after" /\ served' = t
    /\ taken' = pending /\ pending' = 0
    /\ ahead' = 0 /\ target' = period
    /\ UNCHANGED <<playing, timeoutId, timers, period, sim, go, quit, unshown, late>>

Expire(t) ==
    /\ gui = "loop" /\ (quit => frames # << >>)
    /\ t \in timers \ Waiting
    /\ \/ UpdateView(t) /\ UNCHANGED frames
       \/ /\ sim = "run" /\ frames' = Append(frames, t)
          /\ UNCHANGED <<playing, timeoutId, timers, gui, served, taken, period,
                         sim, go, quit, simVars, late>>

Retry ==
    /\ gui = "loop" /\ frames # << >>
    /\ UpdateView(frames[Len(frames)])
    /\ frames' = SubSeq(frames, 1, Len(frames) - 1)

StillPlaying == playing /\ taken = 0    \* messages make the play button inactive

\* Mutant: the go is given before it is looked whether the button is active.
GoFirst ==
    /\ gui = "after" /\ gui' = "loop" /\ served' = None
    /\ taken' = 0 /\ unshown' = unshown - taken
    /\ playing' = StillPlaying /\ go' = TRUE
    /\ timers' = IF StillPlaying THEN timers
                 ELSE timers \ ({served} \cup (IF playing THEN {timeoutId} ELSE {}))
    /\ timeoutId' = IF StillPlaying THEN timeoutId ELSE None
    /\ UNCHANGED <<frames, period, sim, quit, ahead, target, pending, late>>

\* Mutant: the callback does not return True, which ends its timer.
AfterViewOnce ==
    /\ gui = "after" /\ gui' = "loop" /\ served' = None
    /\ taken' = 0 /\ unshown' = unshown - taken
    /\ playing' = StillPlaying /\ go' = (go \/ StillPlaying)
    /\ timers' = timers \ {served}
    /\ timeoutId' = IF StillPlaying THEN timeoutId ELSE None
    /\ UNCHANGED <<frames, period, sim, quit, ahead, target, pending, late>>

(* The part after it: messages are shown, and while paused the timer ends. *)
AfterView ==
    /\ gui = "after" /\ gui' = "loop" /\ served' = None
    /\ taken' = 0 /\ unshown' = unshown - taken
    /\ playing' = StillPlaying /\ go' = (go \/ StillPlaying)
    /\ timers' = IF StillPlaying THEN timers
                 ELSE timers \ ({served} \cup (IF playing THEN {timeoutId} ELSE {}))
    /\ timeoutId' = IF StillPlaying THEN timeoutId ELSE None
    /\ UNCHANGED <<frames, period, sim, quit, ahead, target, pending, late>>

-----------------------------------------------------------------------------
(* SimulationThread.run *)

\* Mutant: an endless loop that clears the go before it waits for it.
CheckLoopClears ==
    /\ sim = "check"
    /\ sim' = "wait" /\ go' = FALSE
    /\ UNCHANGED <<guiVars, quit, simVars, late>>

CheckLoop ==
    /\ sim = "check"
    /\ sim' = IF quit THEN "ended" ELSE "wait"
    /\ UNCHANGED <<guiVars, go, quit, simVars, late>>

WaitGo ==
    /\ sim = "wait" /\ go
    /\ sim' = "clear"
    /\ UNCHANGED <<guiVars, go, quit, simVars, late>>

ClearGo ==
    /\ sim = "clear"
    /\ sim' = "checkQuit" /\ go' = FALSE
    /\ UNCHANGED <<guiVars, quit, simVars, late>>

CheckQuit ==
    /\ sim = "checkQuit"
    /\ sim' = IF quit THEN "ended" ELSE "acquire"
    /\ UNCHANGED <<guiVars, go, quit, simVars, late>>

Acquire ==
    /\ sim = "acquire"
    /\ sim' = "run"
    /\ late' = IF playing THEN late ELSE late + 1
    /\ UNCHANGED <<guiVars, go, quit, simVars>>

\* Mutant: pause_messages is assigned and not extended.
SimulatorRunUntilAssign ==
    \/ /\ ahead >= target /\ pending' = 0 /\ UNCHANGED <<ahead, unshown>>
    \/ /\ ahead < target /\ ahead' \in ahead .. target
       /\ \E n \in 0 .. MaxMessages - unshown :
            pending' = n /\ unshown' = unshown + n

(* Until the target time, or until the simulated program stops the         *)
(* simulator; its events may give messages (Pause).                        *)
SimulatorRunUntil ==
    \/ ahead >= target /\ UNCHANGED <<ahead, pending, unshown>>
    \/ /\ ahead < target /\ ahead' \in ahead .. target
       /\ \E n \in 0 .. MaxMessages - unshown :
            pending' = pending + n /\ unshown' = unshown + n

Run ==
    /\ sim = "run"
    /\ SimulatorRunUntil
    /\ sim' = "check"
    /\ UNCHANGED <<guiVars, go, quit, target, late>>

-----------------------------------------------------------------------------

User    == Play \/ Pause \/ ChangeSpeed \/ Quit
Gui     == AfterView \/ QuitGo \/ Join
SimStep == CheckLoop \/ WaitGo \/ ClearGo \/ CheckQuit \/ Acquire \/ Run

Next == User \/ Gui \/ Retry \/ SimStep \/ \E t \in Timer : Expire(t)

Spec == Init /\ [][Next]_vars

(* Both threads are scheduled, timers expire, and a call that waits for    *)
(* the lock tries again when no event is pending.                          *)
FairSpec ==
    /\ Spec /\ WF_vars(Gui) /\ WF_vars(SimStep) /\ SF_vars(Retry)
    /\ \A t \in Timer : WF_vars(Expire(t))

-----------------------------------------------------------------------------

\* The simulation is never more than one period ahead of what the user sees,
\* even when the go is given twice between two views or the simulated program
\* stops the simulator before the target time.
NeverAheadOfView == \E p \in Periods : ahead <= p

\* Every message of the simulation waits to be shown exactly once, whatever
\* number of runs there is between two views and however views are nested.
NoMessageLost == unshown = pending + taken

\* After a pause, by the user or by a message, the simulation begins at most
\* two more runs: one for which the go is given and one that has taken it.
PausedSoon == ~ playing => late <= 2

\* While the simulation plays and the user does not quit, the timer the user
\* interface knows is one that has not been removed: otherwise nothing would
\* give the go again.
TimerWhilePlaying == playing /\ ~ quit => timeoutId \in timers

\* The user interface never joins a thread that waits for a go that will not
\* come: the thread clears the go it was woken by at a moment of its own, but
\* then it still finds quit, which was set before the go was given.
QuitWakes == gui = "joining" /\ sim = "wait" => go

\* The simulation goes on while it plays, unless the user changes the speed
\* again and again, which restarts the timer.
KeepsRunning ==
    \/ []<><<ChangeSpeed>>_vars
    \/ (playing ~> (sim = "run" \/ ~ playing \/ quit))

\* The user interface can always be left: the simulation thread ends whatever
\* it was waiting for, and every call that waited for the lock returns.
QuitEnds == (gui = "quitting") ~> (sim = "ended" /\ gui = "loop" /\ frames = << >>)
=============================================================================
