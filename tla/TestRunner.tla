---------------------------- MODULE TestRunner ----------------------------
(***************************************************************************)
(* test.py, which runs the test suites and the examples of the simulator.  *)
(* The main thread puts a job for every test into a FIFO queue and then a  *)
(* break job for every worker thread; the workers run the jobs and put     *)
(* them into a second queue, from which the main thread collects them.     *)
(* SIGINT only sets thread_exit, which the workers look at.                *)
(*                                                                         *)
(* Jobs are numbered in the order in which they are put.                   *)
(***************************************************************************)
EXTENDS Integers, Sequences, FiniteSets

CONSTANTS
    Total,          \* total_tests: jobs that are tests
    Kinds,          \* what the tests of a run may be
    Processors      \* processors: worker threads

Test   == 1 .. Total
Kind   == {"suite", "example", "skip"}
Break  == Total + 1 .. Total + Processors
Worker == 1 .. Processors

ASSUME TestRunnerAssumption ==
    /\ Total \in Nat /\ Processors \in Nat \ {0}
    /\ Kinds \subseteq [Test -> Kind]

VARIABLES
    kind,           \* what a test is (never changes)
    threadExit,     \* thread_exit
    pc,             \* where the main thread is
    puts,           \* jobs put so far
    input, output,  \* input_queue, output_queue
    at, job,        \* where a worker is, and its job
    isBreak,        \* tests whose is_break has been set
    started,        \* tests whose process has been started
    code,           \* returncode; False, which equals 0, until a test is run
    xml,            \* the temporary file a test suite leaves
    undecodable,    \* tests whose output could not be decoded
    received,       \* jobs collected so far
    collected,      \* history: these jobs
    counts,         \* passed_tests, skipped_tests, ...
    torn,           \* has an incomplete file gone into the results file?
    status          \* what run_tests returned

mainVars == <<pc, received, collected, counts, torn, status>>
workVars == <<isBreak, started, code, xml, undecodable>>
vars     == <<kind, threadExit, puts, input, output, at, job, mainVars, workVars>>

Crash   == 3        \* any code but 0, 1 and 2
Code    == {0, 1, 2, Crash}
Verdict == {"PASS", "FAIL", "VALGR", "CRASH", "SKIP"}

TypeOK ==
    /\ kind \in Kinds /\ threadExit \in BOOLEAN
    /\ pc \in {"dispatch", "collect", "join", "returned", "died"}
    /\ puts \in 0 .. Total + Processors
    /\ input \in Seq(Test \cup Break) /\ output \in Seq(Test)
    /\ at \in [Worker -> {"get", "check", "launch", "run", "ended", "died"}]
    /\ job \in [Worker -> {0} \cup Test]
    /\ isBreak \subseteq Test /\ started \subseteq Test /\ undecodable \subseteq Test
    /\ code \in [Test -> Code]
    /\ xml \in [Test -> {"none", "partial", "complete"}]
    /\ received \in 0 .. Total /\ collected \subseteq Test
    /\ counts \in [Verdict -> Nat]
    /\ torn \in BOOLEAN /\ status \in {-1, 0, 1}

Init ==
    /\ kind \in Kinds /\ threadExit = FALSE
    /\ pc = "dispatch" /\ puts = 0 /\ input = << >> /\ output = << >>
    /\ at = [w \in Worker |-> "get"] /\ job = [w \in Worker |-> 0]
    /\ isBreak = {} /\ started = {} /\ undecodable = {}
    /\ code = [j \in Test |-> 0] /\ xml = [j \in Test |-> "none"]
    /\ received = 0 /\ collected = {} /\ counts = [v \in Verdict |-> 0]
    /\ torn = FALSE /\ status = -1

-----------------------------------------------------------------------------
(* The main thread. *)

\* Mutant: one break job too many.
PutOneMore ==
    /\ pc = "dispatch"
    /\ puts' = puts + 1
    /\ input' = Append(input, puts + 1)
    /\ pc' = IF puts = Total + Processors THEN "collect" ELSE pc
    /\ UNCHANGED <<kind, threadExit, output, at, job, workVars,
                   received, collected, counts, torn, status>>

\* Mutant: one break job too few.
PutOneLess ==
    /\ pc = "dispatch"
    /\ puts' = puts + 1
    /\ input' = Append(input, puts + 1)
    /\ pc' = IF puts + 2 = Total + Processors THEN "collect" ELSE pc
    /\ UNCHANGED <<kind, threadExit, output, at, job, workVars,
                   received, collected, counts, torn, status>>

(* One turn of a loop that puts jobs: tests first, then the break jobs. *)
Put ==
    /\ pc = "dispatch"
    /\ puts' = puts + 1
    /\ input' = Append(input, puts + 1)
    /\ pc' = IF puts + 1 = Total + Processors THEN "collect" ELSE pc
    /\ UNCHANGED <<kind, threadExit, output, at, job, workVars,
                   received, collected, counts, torn, status>>

VerdictOf(j) ==
    CASE kind[j] = "skip" -> "SKIP"
      [] kind[j] # "skip" /\ code[j] = 0 -> "PASS"
      [] kind[j] # "skip" /\ code[j] = 1 -> "FAIL"
      [] kind[j] # "skip" /\ code[j] = 2 -> "VALGR"
      [] kind[j] # "skip" /\ code[j] = Crash -> "CRASH"

\* Mutant: the file of a suite that crashed is copied as well.
CopiesAnyFile(j) == kind[j] = "suite"

(* Is the temporary file of the test appended to the results file? *)
CopiesFile(j) == kind[j] = "suite" /\ code[j] \in {0, 1, 2}

\* Mutant: is_break is not looked at.
CountAll(j) ==
    /\ counts' = [counts EXCEPT ![VerdictOf(j)] = @ + 1]
    /\ torn' = (torn \/ (CopiesFile(j) /\ xml[j] = "partial"))
    /\ pc' = IF CopiesFile(j) /\ xml[j] = "none" THEN "died" ELSE pc

(* What is made of a job; opening a file that does not exist raises. *)
Count(j) ==
    IF j \in isBreak THEN UNCHANGED <<counts, torn, pc>>
    ELSE /\ counts' = [counts EXCEPT ![VerdictOf(j)] = @ + 1]
         /\ torn' = (torn \/ (CopiesFile(j) /\ xml[j] = "partial"))
         /\ pc' = IF CopiesFile(j) /\ xml[j] = "none" THEN "died" ELSE pc

(* One turn of the loop that waits for as many jobs as there are tests. *)
Collect ==
    /\ pc = "collect" /\ received < Total /\ output # << >>
    /\ output' = Tail(output)
    /\ received' = received + 1
    /\ collected' = collected \cup {Head(output)}
    /\ Count(Head(output))
    /\ UNCHANGED <<kind, threadExit, puts, input, at, job, workVars, status>>

AllCollected ==
    /\ pc = "collect" /\ received = Total
    /\ pc' = "join"
    /\ UNCHANGED <<kind, threadExit, puts, input, output, at, job, workVars,
                   received, collected, counts, torn, status>>

(* Every thread has been joined, in the order in which they were made. *)
Return ==
    /\ pc = "join" /\ \A w \in Worker : at[w] \in {"ended", "died"}
    /\ pc' = "returned"
    /\ status' = IF counts["PASS"] + counts["SKIP"] = Total THEN 0 ELSE 1
    /\ UNCHANGED <<kind, threadExit, puts, input, output, at, job, workVars,
                   received, collected, counts, torn>>

(* sigint_hook *)
Interrupt ==
    /\ ~ threadExit /\ pc # "returned"
    /\ threadExit' = TRUE
    /\ UNCHANGED <<kind, puts, input, output, at, job, mainVars, workVars>>

-----------------------------------------------------------------------------
(* A worker thread. *)

\* Mutant: a worker that finds thread_exit set ends.
GetOrEnd(w) ==
    /\ at[w] = "get" /\ input # << >>
    /\ input' = Tail(input)
    /\ IF Head(input) \in Break \/ threadExit
       THEN at' = [at EXCEPT ![w] = "ended"] /\ UNCHANGED job
       ELSE at' = [at EXCEPT ![w] = "check"] /\ job' = [job EXCEPT ![w] = Head(input)]
    /\ UNCHANGED <<kind, threadExit, puts, output, mainVars, workVars>>

Get(w) ==
    /\ at[w] = "get" /\ input # << >>
    /\ input' = Tail(input)
    /\ IF Head(input) \in Break
       THEN at' = [at EXCEPT ![w] = "ended"] /\ UNCHANGED job
       ELSE at' = [at EXCEPT ![w] = "check"] /\ job' = [job EXCEPT ![w] = Head(input)]
    /\ UNCHANGED <<kind, threadExit, puts, output, mainVars, workVars>>

GiveBack(w) ==
    /\ output' = Append(output, job[w])
    /\ at' = [at EXCEPT ![w] = "get"] /\ job' = [job EXCEPT ![w] = 0]

\* Mutant: thread_exit is looked at only for a test that is skipped.
CheckSkipsOnly(w) ==
    /\ at[w] = "check"
    /\ \/ /\ kind[job[w]] = "skip" /\ GiveBack(w)
          /\ isBreak' = IF threadExit THEN isBreak \cup {job[w]} ELSE isBreak
       \/ /\ kind[job[w]] # "skip"
          /\ at' = [at EXCEPT ![w] = "launch"] /\ UNCHANGED <<output, job, isBreak>>
    /\ UNCHANGED <<kind, threadExit, puts, input, mainVars, started, code, xml, undecodable>>

(* thread_exit and is_skip are looked at. *)
Check(w) ==
    /\ at[w] = "check"
    /\ \/ /\ threadExit /\ GiveBack(w)
          /\ isBreak' = isBreak \cup {job[w]}
       \/ /\ ~ threadExit /\ kind[job[w]] = "skip" /\ GiveBack(w)
          /\ UNCHANGED isBreak
       \/ /\ ~ threadExit /\ kind[job[w]] # "skip"
          /\ at' = [at EXCEPT ![w] = "launch"] /\ UNCHANGED <<output, job, isBreak>>
    /\ UNCHANGED <<kind, threadExit, puts, input, mainVars, started, code, xml, undecodable>>

(* The process of the test is started ... *)
Launch(w) ==
    /\ at[w] = "launch"
    /\ started' = started \cup {job[w]}
    /\ at' = [at EXCEPT ![w] = "run"]
    /\ UNCHANGED <<kind, threadExit, puts, input, output, job, mainVars,
                   isBreak, code, xml, undecodable>>

(* ... or Popen raises, which ends the thread. *)
LaunchFails(w) ==
    /\ at[w] = "launch"
    /\ at' = [at EXCEPT ![w] = "died"]
    /\ UNCHANGED <<kind, threadExit, puts, input, output, job, mainVars, workVars>>

(* What a process may leave: a suite that crashes may not have opened its  *)
(* file yet, or not have completed it.                                     *)
Leaves(j, result, file) ==
    IF kind[j] # "suite" THEN file = "none"
    ELSE IF result = Crash THEN file \in {"none", "partial"} ELSE file = "complete"

(* The process ends; output that cannot be decoded makes its code a 1. *)
Finish(w) ==
    /\ at[w] = "run"
    /\ \E result \in Code, file \in {"none", "partial", "complete"}, decodable \in BOOLEAN :
        /\ Leaves(job[w], result, file)
        /\ code' = [code EXCEPT ![job[w]] = IF decodable THEN result ELSE 1]
        /\ xml' = [xml EXCEPT ![job[w]] = file]
        /\ undecodable' = IF decodable THEN undecodable ELSE undecodable \cup {job[w]}
    /\ GiveBack(w)
    /\ UNCHANGED <<kind, threadExit, puts, input, mainVars, isBreak, started>>

-----------------------------------------------------------------------------

Main    == Put \/ Collect \/ AllCollected \/ Return
Work(w) == Get(w) \/ Check(w) \/ Launch(w) \/ Finish(w)

Next == Main \/ Interrupt \/ \E w \in Worker : Work(w) \/ LaunchFails(w)

Spec == Init /\ [][Next]_vars

(* Threads are scheduled, and every test ends. *)
FairSpec == Spec /\ WF_vars(Main) /\ \A w \in Worker : WF_vars(Work(w))

-----------------------------------------------------------------------------

\* run_tests returns 0 only if every test was skipped because it is one to
\* skip, or was really run and returned 0: a job that came back because of
\* SIGINT carries the returncode False, which equals 0.
SuccessIsReal ==
    status = 0 => \A j \in Test : kind[j] = "skip" \/ (j \in started /\ code[j] = 0)

\* The results file is made of complete files and the main thread finds each
\* of them, unless the output of a test could not be decoded: its code is then
\* 1 whatever became of it.
ResultsComplete == pc = "died" \/ torn => undecodable # {}

NotStarting(j) == j \notin started /\ \A w \in Worker : job[w] = j => at[w] # "launch"

\* After SIGINT a test that is not just about to be started is never started,
\* whichever queue or worker has it: each worker starts one more at most.
NotStartedLater ==
    \A j \in Test : [](threadExit /\ NotStarting(j) => []NotStarting(j))

\* No job is left waiting: unless a worker died with its job, the main thread
\* returns (or dies for a file it does not find) and all workers end, with and
\* without SIGINT.
Terminates ==
    <>(\/ pc \in {"returned", "died"} /\ \A w \in Worker : at[w] = "ended"
       \/ \E w \in Worker : at[w] = "died")

MainCanMove ==
    \/ pc = "dispatch"
    \/ pc = "collect" /\ (received = Total \/ output # << >>)
    \/ pc = "join" /\ \A w \in Worker : at[w] \in {"ended", "died"}

WorkerCanMove(w) ==
    at[w] \in {"check", "launch", "run"} \/ (at[w] = "get" /\ input # << >>)

\* Nobody waits for ever but the main thread for the job of a worker that died
\* with it: as long as anyone is left some thread can go on, and where none can,
\* every worker has ended or died, and no verdict is given if one has died.  Both
\* queues are read without a time limit, so a break job too few, or a worker that
\* ends before its own, would hang the program.
NobodyStuck ==
    \/ MainCanMove \/ \E w \in Worker : WorkerCanMove(w)
    \/ /\ \A w \in Worker : at[w] \in {"ended", "died"}
       /\ pc \in IF \E w \in Worker : at[w] = "died" THEN {"collect", "died"}
                ELSE {"returned", "died"}
=============================================================================
