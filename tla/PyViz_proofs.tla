---------------------------- MODULE PyViz_proofs ----------------------------
(***************************************************************************)
(* The safety of the visualizer's two threads, for any set of timers, any  *)
(* periods and any number of messages.  The invariants do not hold one by  *)
(* one: the type of unshown needs NoMessageLost (what is shown has been    *)
(* counted), NeverAheadOfView needs that the target is itself at most a    *)
(* period ahead, and PausedSoon needs that the runs still owed after a     *)
(* pause (Due) and those begun since are two together, and that nobody but *)
(* the simulation thread clears the go.  QuitWakes needs that quit is set  *)
(* before the go is given, so that a thread that has cleared the go ends.  *)
(***************************************************************************)
EXTENDS PyViz, SequenceTheorems, TLAPS

(* The runs that will still begin when nobody gives the go again. *)
Due ==
    IF quit THEN IF sim = "acquire" THEN 1 ELSE 0
    ELSE (IF go THEN 1 ELSE 0) + (IF sim \in {"checkQuit", "acquire"} THEN 1 ELSE 0)

WithinTarget == target \in Periods \cup {0} /\ ahead <= target

RunsOwed ==
    /\ playing => late = 0
    /\ ~ playing => late + Due <= 2
    /\ gui = "quitting" => quit
    /\ sim = "clear" => go

Leaving == (gui = "joining" => quit) /\ QuitWakes

NoneInHand == gui # "after" => taken = 0

IInv ==
    /\ TypeOK /\ NoMessageLost /\ WithinTarget
    /\ RunsOwed /\ TimerWhilePlaying /\ NoneInHand /\ Leaving

-----------------------------------------------------------------------------
(* Sequences without duplicates. *)

\* An element that is not in a sequence can be added to it.
LEMMA AppendDistinct ==
    ASSUME NEW S, NEW s \in Seq(S), NEW t \in S,
           \A i, k \in DOMAIN s : s[i] = s[k] => i = k,
           \A i \in DOMAIN s : s[i] # t
    PROVE  /\ Append(s, t) \in Seq(S)
           /\ \A i, k \in DOMAIN Append(s, t) : Append(s, t)[i] = Append(s, t)[k] => i = k
  OBVIOUS

\* The last element can be taken away.
LEMMA FrontDistinct ==
    ASSUME NEW S, NEW s \in Seq(S), s # << >>,
           \A i, k \in DOMAIN s : s[i] = s[k] => i = k
    PROVE  /\ SubSeq(s, 1, Len(s) - 1) \in Seq(S)
           /\ \A i, k \in DOMAIN SubSeq(s, 1, Len(s) - 1) :
                SubSeq(s, 1, Len(s) - 1)[i] = SubSeq(s, 1, Len(s) - 1)[k] => i = k
           /\ s[Len(s)] \in S
  OBVIOUS

-----------------------------------------------------------------------------
(* The steps. *)

\* The initial states satisfy the invariant.
LEMMA InitInv == Init => IInv
  <1>1. SUFFICES ASSUME Init PROVE IInv
    OBVIOUS
  <1>2. << >> \in Seq(Timer) /\ DOMAIN << >> = {}
    OBVIOUS
  <1>3. TypeOK
    BY <1>1, <1>2 DEF Init, TypeOK
  <1>4. NoMessageLost /\ WithinTarget /\ RunsOwed /\ TimerWhilePlaying /\ NoneInHand /\ Leaving
    BY <1>1 DEF Init, NoneInHand, Leaving, QuitWakes, NoMessageLost, WithinTarget, RunsOwed, Due, TimerWhilePlaying
  <1> QED
    BY <1>3, <1>4 DEF IInv

\* What the user does keeps it.
LEMMA UserInv == IInv /\ User => IInv'
  <1>1. SUFFICES ASSUME IInv, User PROVE IInv'
    OBVIOUS
  <1> USE <1>1, PyVizAssumption DEF IInv, AcceptsInput, simVars
  <1>2. CASE Play
    <2>1. TypeOK'
      BY <1>2 DEF Play, StartUpdateTimer, TypeOK
    <2>2. (NoMessageLost /\ WithinTarget /\ NoneInHand /\ Leaving)'
      BY <1>2 DEF Play, NoMessageLost, WithinTarget, NoneInHand,
         Leaving, QuitWakes
    <2>3. RunsOwed'
      BY <1>2 DEF Play, RunsOwed
    <2>4. TimerWhilePlaying'
      BY <1>2 DEF Play, StartUpdateTimer, TimerWhilePlaying
    <2> QED
      BY <2>1, <2>2, <2>3, <2>4
  <1>3. CASE Pause
    <2>1. TypeOK'
      BY <1>3 DEF Pause, TypeOK
    <2>2. (NoMessageLost /\ WithinTarget /\ NoneInHand /\ Leaving)'
      BY <1>3 DEF Pause, NoMessageLost, WithinTarget, NoneInHand,
         Leaving, QuitWakes
    <2>3. RunsOwed'
      BY <1>3 DEF Pause, RunsOwed, Due, TypeOK
    <2>4. TimerWhilePlaying'
      BY <1>3 DEF Pause, TimerWhilePlaying
    <2> QED
      BY <2>1, <2>2, <2>3, <2>4
  <1>4. CASE ChangeSpeed
    <2>1. TypeOK'
      BY <1>4 DEF ChangeSpeed, StartUpdateTimer, TypeOK
    <2>2. (NoMessageLost /\ WithinTarget /\ NoneInHand /\ Leaving)'
      BY <1>4 DEF ChangeSpeed, NoMessageLost, WithinTarget, NoneInHand,
         Leaving, QuitWakes
    <2>3. RunsOwed'
      BY <1>4 DEF ChangeSpeed, RunsOwed, Due
    <2>4. TimerWhilePlaying'
      BY <1>4 DEF ChangeSpeed, StartUpdateTimer, TimerWhilePlaying
    <2> QED
      BY <2>1, <2>2, <2>3, <2>4
  <1>5. CASE Quit
    <2>1. TypeOK'
      BY <1>5 DEF Quit, TypeOK
    <2>2. (NoMessageLost /\ WithinTarget /\ NoneInHand /\ Leaving)'
      BY <1>5 DEF Quit, NoMessageLost, WithinTarget, NoneInHand,
         Leaving, QuitWakes
    <2>3. RunsOwed'
      BY <1>5 DEF Quit, RunsOwed, Due, TypeOK
    <2>4. TimerWhilePlaying'
      BY <1>5 DEF Quit, TimerWhilePlaying
    <2> QED
      BY <2>1, <2>2, <2>3, <2>4
  <1> QED
    BY <1>2, <1>3, <1>4, <1>5 DEF User

\* The part of update_view_timeout with the lock keeps everything but the
\* frames, of which it needs the type.
LEMMA UpdateViewInv ==
    ASSUME IInv, NEW t \in Timer, UpdateView(t),
           (frames \in Seq(Timer) /\ \A i, k \in DOMAIN frames : frames[i] = frames[k] => i = k)',
           gui = "loop"
    PROVE  IInv'
  <1> USE PyVizAssumption DEF IInv
  <1>1. TypeOK'
    BY DEF UpdateView, TypeOK
  <1>2. NoMessageLost'
    <2>1. unshown = pending + taken /\ pending \in Nat
      BY DEF NoMessageLost, TypeOK
    <2>2. taken = 0
      BY DEF NoneInHand
    <2> QED
      BY <2>1, <2>2 DEF UpdateView, NoMessageLost
  <1>3. WithinTarget'
    BY DEF UpdateView, WithinTarget, TypeOK
  <1>4. RunsOwed'
    BY DEF UpdateView, RunsOwed, Due
  <1>5. TimerWhilePlaying' /\ NoneInHand' /\ Leaving'
    BY DEF UpdateView, TimerWhilePlaying, NoneInHand, Leaving, QuitWakes
  <1> QED
    BY <1>1, <1>2, <1>3, <1>4, <1>5

\* A timer that is served keeps it, whether its call waits or goes on.
LEMMA ExpireInv == ASSUME IInv, NEW t \in Timer, Expire(t) PROVE IInv'
  <1> USE PyVizAssumption
  <1> DEFINE Distinct(s) == s \in Seq(Timer) /\ \A i, k \in DOMAIN s : s[i] = s[k] => i = k
  <1>1. Distinct(frames) /\ gui = "loop"
    BY DEF IInv, TypeOK, Expire
  <1>2. CASE UpdateView(t) /\ UNCHANGED frames
    <2>1. Distinct(frames')
      BY <1>1, <1>2
    <2> QED
      BY <1>1, <1>2, <2>1, UpdateViewInv
  <1>3. CASE sim = "run" /\ frames' = Append(frames, t)
             /\ UNCHANGED <<playing, timeoutId, timers, gui, served, taken, period,
                            sim, go, quit, simVars, late>>
    <2>1. \A i \in DOMAIN frames : frames[i] # t
      BY DEF Expire, Waiting
    <2>2. Distinct(frames')
      BY <1>1, <1>3, <2>1, AppendDistinct
    <2>3. TypeOK'
      BY <1>3, <2>2 DEF IInv, TypeOK, simVars
    <2>4. (NoMessageLost /\ WithinTarget /\ NoneInHand)'
      BY <1>3 DEF IInv, NoMessageLost, WithinTarget, NoneInHand, simVars
    <2>5. (RunsOwed /\ TimerWhilePlaying /\ Leaving)'
      BY <1>3 DEF IInv, RunsOwed, Due, TimerWhilePlaying, Leaving, QuitWakes
    <2> QED
      BY <2>3, <2>4, <2>5 DEF IInv
  <1> QED
    BY <1>2, <1>3 DEF Expire

\* So does a call that gets the lock at last.
LEMMA RetryInv == IInv /\ Retry => IInv'
  <1>1. SUFFICES ASSUME IInv, Retry PROVE IInv'
    OBVIOUS
  <1> DEFINE Distinct(s) == s \in Seq(Timer) /\ \A i, k \in DOMAIN s : s[i] = s[k] => i = k
  <1>2. Distinct(frames) /\ frames # << >> /\ gui = "loop"
    BY <1>1 DEF IInv, TypeOK, Retry
  <1>3. Distinct(frames') /\ frames[Len(frames)] \in Timer
    BY <1>1, <1>2, FrontDistinct DEF Retry
  <1>4. UpdateView(frames[Len(frames)])
    BY <1>1 DEF Retry
  <1> QED
    BY <1>1, <1>2, <1>3, <1>4, UpdateViewInv

\* The part after the lock, and the end of a quit, keep it.
LEMMA GuiInv == IInv /\ Gui => IInv'
  <1>1. SUFFICES ASSUME IInv, Gui PROVE IInv'
    OBVIOUS
  <1> USE <1>1, PyVizAssumption DEF IInv, simVars
  <1>2. CASE AfterView
    <2>1. unshown - taken = pending /\ pending \in Nat
      BY DEF NoMessageLost, TypeOK
    <2>2. TypeOK'
      BY <1>2, <2>1 DEF AfterView, StillPlaying, TypeOK
    <2>3. (NoMessageLost /\ WithinTarget /\ NoneInHand)'
      BY <1>2, <2>1 DEF AfterView, NoMessageLost, WithinTarget, NoneInHand
    <2>4. RunsOwed'
      BY <1>2 DEF AfterView, StillPlaying, RunsOwed, Due, TypeOK
    <2>5. TimerWhilePlaying' /\ Leaving'
      BY <1>2 DEF AfterView, StillPlaying, TimerWhilePlaying, Leaving, QuitWakes
    <2> QED
      BY <2>2, <2>3, <2>4, <2>5
  <1>3. CASE QuitGo \/ Join
    <2>1. TypeOK'
      BY <1>3 DEF QuitGo, Join, TypeOK
    <2>2. (NoMessageLost /\ WithinTarget /\ NoneInHand)'
      BY <1>3 DEF QuitGo, Join, NoMessageLost, WithinTarget, NoneInHand
    <2>3. (RunsOwed /\ TimerWhilePlaying)'
      BY <1>3 DEF QuitGo, Join, RunsOwed, Due, TimerWhilePlaying
    <2>4. Leaving'
      BY <1>3 DEF QuitGo, Join, RunsOwed, Leaving, QuitWakes
    <2> QED
      BY <2>1, <2>2, <2>3, <2>4
  <1> QED
    BY <1>2, <1>3 DEF Gui

\* The thread that runs the simulator keeps it.
LEMMA SimInv == IInv /\ SimStep => IInv'
  <1>1. SUFFICES ASSUME IInv, SimStep PROVE IInv'
    OBVIOUS
  <1> USE <1>1, PyVizAssumption DEF IInv, simVars, guiVars
  <1>2. CASE CheckLoop \/ WaitGo \/ ClearGo \/ CheckQuit \/ Acquire
    <2>1. UNCHANGED <<guiVars, quit, simVars>>
      BY <1>2 DEF CheckLoop, WaitGo, ClearGo, CheckQuit, Acquire
    <2>2. /\ sim' \in {"check", "wait", "clear", "checkQuit", "acquire", "run", "ended"}
          /\ go' \in BOOLEAN /\ late' \in Nat
      <3>1. go \in BOOLEAN /\ late \in Nat
        BY DEF TypeOK
      <3>2. CASE CheckLoop \/ WaitGo
        BY <3>1, <3>2 DEF CheckLoop, WaitGo
      <3>3. CASE ClearGo \/ CheckQuit
        BY <3>1, <3>3 DEF ClearGo, CheckQuit
      <3>4. CASE Acquire
        BY <3>1, <3>4 DEF Acquire
      <3> QED
        BY <1>2, <3>2, <3>3, <3>4
    <2>3. TypeOK'
      BY <2>1, <2>2 DEF TypeOK
    <2>4. (NoMessageLost /\ WithinTarget /\ NoneInHand /\ TimerWhilePlaying)'
      BY <2>1 DEF NoMessageLost, WithinTarget, NoneInHand, TimerWhilePlaying
    <2>5. RunsOwed'
      <3>1. (playing => late' = 0) /\ (gui = "quitting" => quit)
        BY <1>2 DEF CheckLoop, WaitGo, ClearGo, CheckQuit, Acquire, RunsOwed
      <3>2. ASSUME ~ playing PROVE late' + Due' <= 2
        <4>1. late + Due <= 2 /\ late \in Nat /\ go \in BOOLEAN
          BY <3>2 DEF RunsOwed, TypeOK
        <4>2. CASE CheckLoop
          BY <4>1, <4>2 DEF CheckLoop, Due
        <4>5. CASE WaitGo
          BY <4>1, <4>5 DEF WaitGo, Due
        <4>6. CASE ClearGo
          BY <4>1, <4>6 DEF ClearGo, RunsOwed, Due
        <4>3. CASE CheckQuit
          BY <4>1, <4>3 DEF CheckQuit, Due
        <4>4. CASE Acquire
          BY <3>2, <4>1, <4>4 DEF Acquire, Due
        <4> QED
          BY <1>2, <4>2, <4>3, <4>4, <4>5, <4>6
      <3>3. sim' = "clear" => go'
        BY <1>2 DEF CheckLoop, WaitGo, ClearGo, CheckQuit, Acquire
      <3> QED
        BY <2>1, <3>1, <3>2, <3>3 DEF RunsOwed
    <2>6. Leaving'
      <3>1. (gui' = "joining" => quit')
        BY <2>1 DEF Leaving
      <3>2. ASSUME gui' = "joining", sim' = "wait" PROVE go'
        \* The thread is in its loop only when it has seen no quit.
        <4>1. gui = "joining" /\ quit
          BY <2>1, <3>2 DEF Leaving
        <4>2. sim = "wait" /\ go' = go
          BY <1>2, <3>2, <4>1 DEF CheckLoop, WaitGo, ClearGo, CheckQuit, Acquire
        <4> QED
          BY <4>1, <4>2 DEF Leaving, QuitWakes
      <3> QED
        BY <3>1, <3>2 DEF Leaving, QuitWakes
    <2> QED
      BY <2>3, <2>4, <2>5, <2>6
  <1>3. CASE Run
    <2>1. target \in Nat /\ ahead \in Nat /\ target' = target
      BY <1>3 DEF Run, TypeOK
    <2>2. SimulatorRunUntil
      BY <1>3 DEF Run
    <2>3. ahead' \in Nat /\ ahead' <= target
      BY <2>1, <2>2 DEF SimulatorRunUntil, WithinTarget
    <2>4. pending' \in Nat /\ unshown' \in Nat /\ unshown' = pending' + taken
      <3>1. unshown \in Nat /\ pending \in Nat /\ taken \in Nat /\ unshown = pending + taken
        BY DEF TypeOK, NoMessageLost
      <3>2. CASE UNCHANGED <<ahead, pending, unshown>>
        BY <3>1, <3>2
      <3>3. CASE \E n \in 0 .. MaxMessages - unshown :
                   pending' = pending + n /\ unshown' = unshown + n
        BY <3>1, <3>3
      <3> QED
        BY <2>2, <3>2, <3>3 DEF SimulatorRunUntil
    <2>5. TypeOK'
      BY <1>3, <2>1, <2>3, <2>4 DEF Run, TypeOK
    <2>6. (NoMessageLost /\ WithinTarget /\ NoneInHand)'
      BY <1>3, <2>1, <2>3, <2>4 DEF Run, NoMessageLost, WithinTarget, NoneInHand
    <2>7. (RunsOwed /\ TimerWhilePlaying)'
      BY <1>3 DEF Run, RunsOwed, Due, TimerWhilePlaying, TypeOK
    <2>8. Leaving'
      BY <1>3 DEF Run, Leaving, QuitWakes
    <2> QED
      BY <2>5, <2>6, <2>7, <2>8
  <1> QED
    BY <1>2, <1>3 DEF SimStep

\* Every step keeps the invariant.
LEMMA NextInv == IInv /\ [Next]_vars => IInv'
  <1>1. SUFFICES ASSUME IInv, [Next]_vars PROVE IInv'
    OBVIOUS
  <1>2. CASE User
    BY <1>1, <1>2, UserInv
  <1>3. CASE Gui
    BY <1>1, <1>3, GuiInv
  <1>4. CASE Retry
    BY <1>1, <1>4, RetryInv
  <1>5. CASE SimStep
    BY <1>1, <1>5, SimInv
  <1>6. CASE \E t \in Timer : Expire(t)
    BY <1>1, <1>6, ExpireInv
  <1>7. CASE UNCHANGED vars
    <2>1. TypeOK'
      BY <1>1, <1>7 DEF vars, guiVars, simVars, IInv, TypeOK
    <2>2. (NoMessageLost /\ WithinTarget /\ NoneInHand)'
      BY <1>1, <1>7 DEF vars, guiVars, simVars, IInv, NoMessageLost, WithinTarget, NoneInHand
    <2>3. (RunsOwed /\ TimerWhilePlaying)'
      BY <1>1, <1>7 DEF vars, guiVars, simVars, IInv, RunsOwed, Due, TimerWhilePlaying
    <2>4. Leaving'
      BY <1>1, <1>7 DEF vars, guiVars, simVars, IInv, Leaving, QuitWakes
    <2> QED
      BY <2>1, <2>2, <2>3, <2>4 DEF IInv
  <1> QED
    BY <1>1, <1>2, <1>3, <1>4, <1>5, <1>6, <1>7 DEF Next

-----------------------------------------------------------------------------
(* The theorems. *)

\* The invariant holds in every reachable state.
LEMMA Inductive == Spec => []IInv
  BY InitInv, NextInv, PTL DEF Spec

\* The variables of both threads keep their types, and no two calls of
\* update_view_timeout that wait for the lock serve the same timer.
THEOREM TypeCorrect == Spec => []TypeOK
  <1>1. IInv => TypeOK
    BY DEF IInv
  <1> QED
    BY <1>1, Inductive, PTL

\* No message of the simulated program is dropped between the runs and the
\* views, however many runs a view covers.
THEOREM NoneLost == Spec => []NoMessageLost
  <1>1. IInv => NoMessageLost
    BY DEF IInv
  <1> QED
    BY <1>1, Inductive, PTL

\* The simulator's time is at most one period after the last view's.
THEOREM OnePeriodAhead == Spec => []NeverAheadOfView
  <1>1. IInv => NeverAheadOfView
    <2>1. SUFFICES ASSUME IInv PROVE \E p \in Periods : ahead <= p
      BY DEF NeverAheadOfView
    <2>2. ahead \in Nat /\ period \in Periods /\ target \in Periods \cup {0} /\ ahead <= target
      BY <2>1 DEF IInv, TypeOK, WithinTarget
    <2>3. CASE target \in Periods
      BY <2>2, <2>3
    <2>4. CASE target = 0
      <3>1. ahead <= period
        BY <2>2, <2>4, PyVizAssumption
      <3> QED
        BY <2>2, <3>1
    <2> QED
      BY <2>2, <2>3, <2>4
  <1> QED
    BY <1>1, Inductive, PTL

\* After a pause at most two more runs begin.
THEOREM TwoRunsAfterPause == Spec => []PausedSoon
  <1>1. IInv => PausedSoon
    BY DEF IInv, TypeOK, RunsOwed, Due, PausedSoon
  <1> QED
    BY <1>1, Inductive, PTL

\* The timer that gives the go is there while the simulation plays.
THEOREM TimerIsThere == Spec => []TimerWhilePlaying
  <1>1. IInv => TimerWhilePlaying
    BY DEF IInv
  <1> QED
    BY <1>1, Inductive, PTL

\* Leaving the visualizer does not hang: the user interface never waits for
\* a simulation thread that waits for a go.
THEOREM NoHangOnQuit == Spec => []QuitWakes
  <1>1. IInv => QuitWakes
    BY DEF IInv, Leaving
  <1> QED
    BY <1>1, Inductive, PTL
=============================================================================
