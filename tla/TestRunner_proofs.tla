------------------------- MODULE TestRunner_proofs -------------------------
(***************************************************************************)
(* Theorems about the test runner for any number of tests and workers.     *)
(***************************************************************************)
EXTENDS TestRunner, TLAPS, FiniteSetTheorems, SequenceTheorems

-----------------------------------------------------------------------------
(* Sequences as the queues use them.                                       *)

LEMMA TailOf ==
    ASSUME NEW S, NEW s \in Seq(S), s # << >>
    PROVE  /\ Head(s) \in S /\ Head(s) = s[1] /\ Tail(s) \in Seq(S)
           /\ Len(s) \in Nat \ {0} /\ Len(Tail(s)) = Len(s) - 1
           /\ 1 \in DOMAIN s
           /\ \A i \in DOMAIN Tail(s) : Tail(s)[i] = s[i + 1] /\ i + 1 \in DOMAIN s
OBVIOUS

LEMMA AppendOf ==
    ASSUME NEW S, NEW s \in Seq(S), NEW x \in S
    PROVE  /\ Append(s, x) \in Seq(S) /\ Len(Append(s, x)) = Len(s) + 1 /\ Len(s) \in Nat
           /\ \A i \in DOMAIN Append(s, x) :
                 \/ i \in DOMAIN s /\ Append(s, x)[i] = s[i]
                 \/ i = Len(s) + 1 /\ Append(s, x)[i] = x
OBVIOUS

-----------------------------------------------------------------------------
(* Types.                                                                  *)

LEMMA VerdictIsOne ==
    ASSUME TypeOK, NEW j \in Test
    PROVE  /\ VerdictOf(j) \in Verdict
           /\ VerdictOf(j) = "PASS" <=> kind[j] # "skip" /\ code[j] = 0
           /\ VerdictOf(j) = "SKIP" <=> kind[j] = "skip"
<1>1. code[j] \in {0, 1, 2, 3}
  BY DEF TypeOK, Code, Crash
<1>2. CASE kind[j] = "skip"
  BY <1>1, <1>2 DEF VerdictOf, Verdict, Crash
<1>3. CASE kind[j] # "skip"
  BY <1>1, <1>3 DEF VerdictOf, Verdict, Crash
<1>. QED  BY <1>2, <1>3

(* A worker that holds a job has one of the tests; one that waits has none.*)
Holding ==
    \A w \in Worker : /\ at[w] \in {"check", "launch", "run", "died"} => job[w] \in Test
                      /\ at[w] \in {"get", "ended"} => job[w] = 0

(* The input queue holds the last jobs put, in the order of their numbers. *)
InputShape ==
    /\ Len(input) <= puts
    /\ \A i \in DOMAIN input : input[i] = (puts - Len(input)) + i
    /\ pc = "dispatch" => puts < Total + Processors

LEMMA TypesInit ==
    Init => TypeOK /\ Holding /\ InputShape
<1> SUFFICES ASSUME Init  PROVE TypeOK /\ Holding /\ InputShape
  OBVIOUS
<1>1. input = << >> /\ output = << >> /\ puts = 0 /\ Total + Processors > 0 /\ Total \in Nat
      /\ Processors \in Nat
  BY TestRunnerAssumption DEF Init
<1>2. TypeOK
  <2>1. kind \in Kinds /\ threadExit = FALSE /\ pc = "dispatch" /\ status = -1
    BY TestRunnerAssumption DEF Init
  <2>2. /\ at = [w \in Worker |-> "get"] /\ job = [w \in Worker |-> 0]
        /\ code = [j \in Test |-> 0] /\ xml = [j \in Test |-> "none"]
        /\ counts = [v \in Verdict |-> 0]
    BY DEF Init
  <2>3. /\ isBreak = {} /\ started = {} /\ undecodable = {} /\ collected = {}
        /\ received = 0 /\ torn = FALSE
    BY DEF Init
  <2>4. puts \in 0 .. Total + Processors /\ received \in 0 .. Total
    BY <1>1, <2>3
  <2>5. input \in Seq(Test \cup Break) /\ output \in Seq(Test)
    BY <1>1
  <2>6. code \in [Test -> Code] /\ counts \in [Verdict -> Nat]
    BY <2>2 DEF Code
  <2>. QED  BY <2>1, <2>2, <2>3, <2>4, <2>5, <2>6 DEF TypeOK
<1>3. Holding
  BY DEF Init, Holding
<1>4. InputShape
  BY <1>1 DEF InputShape
<1>. QED  BY <1>2, <1>3, <1>4

LEMMA TypesStep ==
    ASSUME TypeOK, Holding, InputShape, [Next]_vars
    PROVE  TypeOK' /\ Holding' /\ InputShape'
<1> USE TestRunnerAssumption
<1>t. /\ input \in Seq(Test \cup Break) /\ output \in Seq(Test) /\ puts \in Nat
      /\ at \in [Worker -> {"get", "check", "launch", "run", "ended", "died"}]
      /\ job \in [Worker -> {0} \cup Test] /\ Total \in Nat /\ Processors \in Nat \ {0}
  BY DEF TypeOK
<1>g. ASSUME NEW w \in Worker, GiveBack(w), job[w] \in Test
      PROVE  /\ output' \in Seq(Test)
             /\ at' \in [Worker -> {"get", "check", "launch", "run", "ended", "died"}]
             /\ job' \in [Worker -> {0} \cup Test]
             /\ Holding'
  <2>1. /\ output' = Append(output, job[w])
        /\ at' = [at EXCEPT ![w] = "get"] /\ job' = [job EXCEPT ![w] = 0]
    BY <1>g DEF GiveBack
  <2>2. output' \in Seq(Test)
    BY <1>t, <1>g, <2>1, AppendOf
  <2>3. Holding'
    BY <1>t, <2>1 DEF Holding
  <2>. QED  BY <1>t, <2>1, <2>2, <2>3
<1>1. CASE Put
  <2>1. puts < Total + Processors /\ puts + 1 \in Test \cup Break /\ puts' = puts + 1
        /\ puts' \in 0 .. Total + Processors
    BY <1>1, <1>t DEF Put, InputShape, Test, Break
  <2>2. input' \in Seq(Test \cup Break) /\ Len(input') = Len(input) + 1 /\ Len(input) \in Nat
    BY <1>1, <1>t, <2>1, AppendOf DEF Put
  <2>3. TypeOK'
    BY <1>1, <2>1, <2>2 DEF Put, TypeOK, workVars
  <2>4. \A i \in DOMAIN input' : input'[i] = (puts' - Len(input')) + i
    <3> SUFFICES ASSUME NEW i \in DOMAIN input'
                 PROVE  input'[i] = (puts' - Len(input')) + i
      OBVIOUS
    <3>1. puts' - Len(input') = puts - Len(input) /\ i \in Nat
      BY <1>t, <2>1, <2>2
    <3>2. input' = Append(input, puts + 1)
      BY <1>1 DEF Put
    <3>3. \/ i \in DOMAIN input /\ input'[i] = input[i]
          \/ i = Len(input) + 1 /\ input'[i] = puts + 1
      BY <1>t, <2>1, <3>2, AppendOf
    <3>4. CASE i \in DOMAIN input /\ input'[i] = input[i]
      BY <3>1, <3>4 DEF InputShape
    <3>5. CASE i = Len(input) + 1 /\ input'[i] = puts + 1
      BY <1>t, <2>2, <3>1, <3>5
    <3>. QED  BY <3>3, <3>4, <3>5
  <2>5. InputShape'
    BY <1>1, <1>t, <2>1, <2>2, <2>4 DEF Put, InputShape
  <2>. QED  BY <1>1, <2>3, <2>5 DEF Put, Holding
<1>2. CASE Collect
  <2>1. output # << >> /\ output' = Tail(output) /\ received' = received + 1
        /\ received < Total /\ collected' = collected \cup {Head(output)}
    BY <1>2 DEF Collect
  <2>2. Head(output) \in Test /\ output' \in Seq(Test) /\ received' \in 0 .. Total
    BY <1>t, <2>1, TailOf DEF TypeOK
  <2>3. /\ counts' \in [Verdict -> Nat] /\ torn' \in BOOLEAN
        /\ pc' \in {"collect", "died"}
    <3>1. CASE Head(output) \in isBreak
      BY <1>2, <3>1 DEF Collect, Count, TypeOK
    <3>2. CASE Head(output) \notin isBreak
      <4>1. VerdictOf(Head(output)) \in Verdict
        BY <2>2, VerdictIsOne
      <4>2. /\ counts' = [counts EXCEPT ![VerdictOf(Head(output))] = @ + 1]
            /\ torn' = (torn \/ (CopiesFile(Head(output)) /\ xml[Head(output)] = "partial"))
            /\ pc' \in {"collect", "died"}
        BY <1>2, <3>2 DEF Collect, Count
      <4>3. counts' \in [Verdict -> Nat]
        BY <4>1, <4>2 DEF TypeOK
      <4>4. torn' \in BOOLEAN
        BY <4>2, Zenon DEF TypeOK
      <4>. QED  BY <4>2, <4>3, <4>4
    <3>. QED  BY <3>1, <3>2
  <2>4. UNCHANGED <<kind, threadExit, puts, input, at, job, workVars, status>>
    BY <1>2 DEF Collect
  <2>5. TypeOK'
    BY <2>1, <2>2, <2>3, <2>4 DEF TypeOK, workVars
  <2>. QED  BY <2>3, <2>4, <2>5 DEF Holding, InputShape
<1>3. CASE AllCollected
  BY <1>3 DEF AllCollected, TypeOK, Holding, InputShape, workVars
<1>4. CASE Return
  BY <1>4 DEF Return, TypeOK, Holding, InputShape, workVars
<1>5. CASE Interrupt
  BY <1>5 DEF Interrupt, TypeOK, Holding, InputShape, workVars, mainVars
<1>6. ASSUME NEW w \in Worker, Get(w)  PROVE TypeOK' /\ Holding' /\ InputShape'
  <2>1. /\ input # << >> /\ input' = Tail(input) /\ at[w] = "get" /\ job[w] = 0
        /\ UNCHANGED <<kind, threadExit, puts, output, mainVars, workVars>>
    BY <1>6 DEF Get, Holding
  <2>2. /\ Head(input) \in Test \cup Break /\ input' \in Seq(Test \cup Break)
        /\ Len(input') = Len(input) - 1 /\ Len(input) \in Nat
        /\ \A i \in DOMAIN input' : input'[i] = input[i + 1] /\ i + 1 \in DOMAIN input /\ i \in Nat
    BY <1>t, <2>1, TailOf
  <2>3. /\ at' \in [Worker -> {"get", "check", "launch", "run", "ended", "died"}]
        /\ job' \in [Worker -> {0} \cup Test] /\ Holding'
    <3>1. CASE Head(input) \in Break
      <4>1. at' = [at EXCEPT ![w] = "ended"] /\ job' = job
        BY <1>6, <3>1 DEF Get
      <4>. QED  BY <1>t, <2>1, <4>1 DEF Holding
    <3>2. CASE Head(input) \notin Break
      <4>1. at' = [at EXCEPT ![w] = "check"] /\ job' = [job EXCEPT ![w] = Head(input)]
            /\ Head(input) \in Test
        BY <1>6, <2>2, <3>2 DEF Get
      <4>. QED  BY <1>t, <2>1, <4>1 DEF Holding
    <3>. QED  BY <3>1, <3>2
  <2>4. TypeOK'
    BY <2>1, <2>2, <2>3 DEF TypeOK, workVars, mainVars
  <2>5. \A i \in DOMAIN input' : input'[i] = (puts - Len(input')) + i
    <3> SUFFICES ASSUME NEW i \in DOMAIN input'
                 PROVE  input'[i] = (puts - Len(input')) + i
      OBVIOUS
    <3>1. input'[i] = (puts - Len(input)) + (i + 1)
      BY <2>2 DEF InputShape
    <3>. QED  BY <1>t, <2>2, <3>1
  <2>6. InputShape'
    BY <1>t, <2>1, <2>2, <2>5 DEF InputShape, mainVars
  <2>. QED  BY <2>3, <2>4, <2>6
<1>7. ASSUME NEW w \in Worker, Check(w)  PROVE TypeOK' /\ Holding' /\ InputShape'
  <2>1. /\ at[w] = "check" /\ job[w] \in Test
        /\ UNCHANGED <<kind, threadExit, puts, input, mainVars, started, code, xml, undecodable>>
    BY <1>7 DEF Check, Holding
  <2>2. isBreak' \subseteq Test
    BY <1>7, <2>1 DEF Check, TypeOK
  <2>3. CASE GiveBack(w)
    BY <1>g, <2>1, <2>2, <2>3 DEF TypeOK, InputShape, mainVars
  <2>4. CASE at' = [at EXCEPT ![w] = "launch"] /\ UNCHANGED <<output, job, isBreak>>
    <3>1. TypeOK'
      BY <1>t, <2>1, <2>4 DEF TypeOK, mainVars
    <3>2. Holding'
      BY <1>t, <2>1, <2>4 DEF Holding
    <3>. QED  BY <2>1, <3>1, <3>2, <2>4 DEF InputShape, mainVars
  <2>. QED  BY <1>7, <2>3, <2>4 DEF Check
<1>8. ASSUME NEW w \in Worker, Launch(w)  PROVE TypeOK' /\ Holding' /\ InputShape'
  <2>1. job[w] \in Test /\ at' = [at EXCEPT ![w] = "run"] /\ at[w] = "launch"
    BY <1>8 DEF Launch, Holding
  <2>2. TypeOK'
    BY <1>8, <1>t, <2>1 DEF Launch, TypeOK, mainVars
  <2>3. Holding'
    BY <1>8, <1>t, <2>1 DEF Launch, Holding
  <2>. QED  BY <1>8, <2>2, <2>3 DEF Launch, InputShape, mainVars
<1>9. ASSUME NEW w \in Worker, LaunchFails(w)  PROVE TypeOK' /\ Holding' /\ InputShape'
  <2>1. job[w] \in Test /\ at' = [at EXCEPT ![w] = "died"] /\ at[w] = "launch"
    BY <1>9 DEF LaunchFails, Holding
  <2>2. TypeOK'
    BY <1>9, <1>t, <2>1 DEF LaunchFails, TypeOK, mainVars, workVars
  <2>3. Holding'
    BY <1>9, <1>t, <2>1 DEF LaunchFails, Holding
  <2>. QED  BY <1>9, <2>2, <2>3 DEF LaunchFails, InputShape, mainVars
<1>10. ASSUME NEW w \in Worker, Finish(w)  PROVE TypeOK' /\ Holding' /\ InputShape'
  <2>1. /\ job[w] \in Test /\ GiveBack(w)
        /\ UNCHANGED <<kind, threadExit, puts, input, mainVars, isBreak, started>>
    BY <1>10 DEF Finish, Holding
  <2>2. /\ code' \in [Test -> Code] /\ xml' \in [Test -> {"none", "partial", "complete"}]
        /\ undecodable' \subseteq Test
    <3>1. PICK result \in Code, file \in {"none", "partial", "complete"}, decodable \in BOOLEAN :
              /\ code' = [code EXCEPT ![job[w]] = IF decodable THEN result ELSE 1]
              /\ xml' = [xml EXCEPT ![job[w]] = file]
              /\ undecodable' = IF decodable THEN undecodable ELSE undecodable \cup {job[w]}
      BY <1>10 DEF Finish
    <3>2. (IF decodable THEN result ELSE 1) \in Code
      BY DEF Code
    <3>. QED  BY <2>1, <3>1, <3>2 DEF TypeOK
  <2>. QED  BY <1>g, <2>1, <2>2 DEF TypeOK, InputShape, mainVars
<1>11. CASE UNCHANGED vars
  BY <1>11 DEF vars, mainVars, workVars, TypeOK, Holding, InputShape
<1>. QED  BY <1>1, <1>2, <1>3, <1>4, <1>5, <1>6, <1>7, <1>8, <1>9, <1>10, <1>11 DEF Next, Main, Work

(* No queue, counter or verdict leaves its type, whenever SIGINT comes and *)
(* whatever the tests do (run_tests and worker_thread.run).                *)
THEOREM TypeCorrect == Spec => []TypeOK
<1>1. Spec => [](TypeOK /\ Holding /\ InputShape)
  BY TypesInit, TypesStep, PTL DEF Spec
<1>. QED  BY <1>1, PTL
-----------------------------------------------------------------------------
(* Where a test is: still in the input queue, with one worker, once in the *)
(* output queue, or collected.                                             *)

Taken == puts - Len(input)

InOutput == {output[i] : i \in DOMAIN output}

Places ==
    /\ \A w \in Worker : job[w] # 0 => /\ job[w] <= Taken
                                      /\ job[w] \notin collected /\ job[w] \notin InOutput
    /\ \A w1, w2 \in Worker : job[w1] # 0 /\ job[w1] = job[w2] => w1 = w2
    /\ \A i \in DOMAIN output : output[i] <= Taken /\ output[i] \notin collected
    /\ \A i, k \in DOMAIN output : output[i] = output[k] => i = k
    /\ \A j \in collected : j <= Taken

(* What has come of a test that has been given back.                       *)
Done(j) ==
    \/ j \in isBreak \/ kind[j] = "skip"
    \/ /\ j \in started
       /\ CopiesFile(j) /\ j \notin undecodable => xml[j] = "complete"

Returned ==
    /\ \A j \in Test : j \in InOutput \/ j \in collected => Done(j)
    /\ \A w \in Worker : /\ at[w] = "launch" => kind[job[w]] # "skip"
                         /\ at[w] = "run" => job[w] \in started

(* The counters agree with what was collected.                             *)
Good == {j \in collected : j \notin isBreak /\ VerdictOf(j) \in {"PASS", "SKIP"}}

Totals ==
    /\ Cardinality(collected) = received
    /\ Cardinality(Good) = counts["PASS"] + counts["SKIP"]
    /\ pc \in {"join", "returned"} => received = Total
    /\ status = 0 => counts["PASS"] + counts["SKIP"] = Total /\ pc = "returned"

IInv == TypeOK /\ Holding /\ InputShape /\ Places /\ Returned /\ Totals /\ ResultsComplete

(* Being given back moves a test from its worker to the output queue. *)
LEMMA GivenBack ==
    ASSUME TypeOK, Holding, Places, NEW w \in Worker, GiveBack(w), job[w] \in Test,
           UNCHANGED <<puts, input, collected>>
    PROVE  Places' /\ \A j \in Test : j \in InOutput' <=> j \in InOutput \/ j = job[w]
<1>1. /\ output \in Seq(Test) /\ Len(output) \in Nat
      /\ job \in [Worker -> {0} \cup Test] /\ 0 \notin Test
      /\ output' = Append(output, job[w]) /\ job' = [job EXCEPT ![w] = 0]
  BY DEF TypeOK, GiveBack, Test
<1>2. /\ Len(output') = Len(output) + 1
      /\ \A i \in DOMAIN output' : \/ i \in DOMAIN output /\ output'[i] = output[i]
                                   \/ i = Len(output) + 1 /\ output'[i] = job[w]
      /\ DOMAIN output = 1 .. Len(output) /\ DOMAIN output' = 1 .. Len(output) + 1
      /\ output'[Len(output) + 1] = job[w]
      /\ \A i \in DOMAIN output : output'[i] = output[i] /\ i \in DOMAIN output'
      /\ Len(output) + 1 \in DOMAIN output'
  BY <1>1, AppendOf
<1>3. \A j : j \in InOutput' <=> j \in InOutput \/ j = job[w]
  BY <1>2 DEF InOutput
<1>4. Taken' = Taken
  BY DEF Taken
<1>5. \A x \in Worker : job'[x] # 0 => x # w /\ job'[x] = job[x]
  BY <1>1
<1>6. \A x \in Worker : job'[x] # 0 => job'[x] # job[w]
  BY <1>1, <1>5 DEF Places
<1>7. \A x \in Worker : job'[x] # 0 => /\ job'[x] <= Taken'
                                     /\ job'[x] \notin collected' /\ job'[x] \notin InOutput'
  BY <1>3, <1>4, <1>5, <1>6 DEF Places
<1>8. \A w1, w2 \in Worker : job'[w1] # 0 /\ job'[w1] = job'[w2] => w1 = w2
  BY <1>5 DEF Places
<1>9. job[w] # 0 /\ job[w] <= Taken /\ job[w] \notin collected /\ job[w] \notin InOutput
  BY <1>1 DEF Places
<1>10. \A i \in DOMAIN output' : output'[i] <= Taken' /\ output'[i] \notin collected'
  BY <1>2, <1>4, <1>9 DEF Places
<1>11. \A i, k \in DOMAIN output' : output'[i] = output'[k] => i = k
  BY <1>2, <1>9 DEF Places, InOutput
<1>. QED  BY <1>3, <1>4, <1>7, <1>8, <1>10, <1>11 DEF Places

LEMMA PlacesStep ==
    ASSUME TypeOK, Holding, InputShape, Places, [Next]_vars
    PROVE  Places'
<1> USE TestRunnerAssumption
<1>t. /\ input \in Seq(Test \cup Break) /\ output \in Seq(Test) /\ puts \in Nat
      /\ Len(input) \in Nat /\ Len(input) <= puts /\ Taken \in Nat
      /\ job \in [Worker -> {0} \cup Test] /\ Test \subseteq Nat /\ 0 \notin Test
  BY DEF TypeOK, InputShape, Taken, Test
<1>1. CASE Put
  <2>1. puts' = puts + 1 /\ Len(input') = Len(input) + 1
    BY <1>1, <1>t DEF Put
  <2>2. Taken' = Taken
    BY <1>t, <2>1 DEF Taken
  <2>. QED  BY <1>1, <2>2 DEF Put, Places, InOutput
<1>2. CASE Collect
  <2>1. /\ output # << >> /\ output' = Tail(output) /\ collected' = collected \cup {Head(output)}
        /\ UNCHANGED <<puts, input, job>>
    BY <1>2 DEF Collect
  <2>2. /\ Head(output) = output[1] /\ 1 \in DOMAIN output
        /\ DOMAIN output' \subseteq Nat \ {0} /\ 1 \in Nat
        /\ \A i \in DOMAIN output' : output'[i] = output[i + 1] /\ i + 1 \in DOMAIN output
    BY <1>t, <2>1, TailOf
  <2>3. Taken' = Taken
    BY <2>1 DEF Taken
  <2>4. \A j : j \in InOutput' => j \in InOutput
    BY <2>2 DEF InOutput
  <2>5. Head(output) \in InOutput
    BY <2>2 DEF InOutput
  <2>6. \A i \in DOMAIN output' : output'[i] # Head(output)
    <3>1. \A i \in DOMAIN output' : i + 1 # 1
      BY <2>2
    <3>. QED  BY <2>2, <3>1 DEF Places
  <2>7. \A w \in Worker : job'[w] # 0 => /\ job'[w] <= Taken'
                                       /\ job'[w] \notin collected' /\ job'[w] \notin InOutput'
    BY <2>1, <2>3, <2>4, <2>5 DEF Places
  <2>8. \A i \in DOMAIN output' : output'[i] <= Taken' /\ output'[i] \notin collected'
    BY <2>1, <2>2, <2>3, <2>6 DEF Places
  <2>9. \A i, k \in DOMAIN output' : output'[i] = output'[k] => i = k
    <3> SUFFICES ASSUME NEW i \in DOMAIN output', NEW k \in DOMAIN output', output'[i] = output'[k]
                 PROVE  i = k
      OBVIOUS
    <3>1. i + 1 = k + 1 /\ i \in Nat /\ k \in Nat
      BY <2>2 DEF Places
    <3>. QED  BY <3>1
  <2>10. \A j \in collected' : j <= Taken'
    BY <2>1, <2>2, <2>3 DEF Places
  <2>. QED  BY <2>1, <2>7, <2>8, <2>9, <2>10 DEF Places
<1>3. CASE AllCollected \/ Return \/ Interrupt
  BY <1>3 DEF AllCollected, Return, Interrupt, Places, Taken, InOutput, mainVars
<1>6. ASSUME NEW w \in Worker, Get(w)  PROVE Places'
  <2>1. /\ input # << >> /\ input' = Tail(input) /\ at[w] = "get"
        /\ UNCHANGED <<puts, output, collected>>
    BY <1>6 DEF Get, mainVars
  <2>2. /\ Len(input') = Len(input) - 1 /\ Head(input) = input[1] /\ 1 \in DOMAIN input
    BY <1>t, <2>1, TailOf
  <2>3. Taken' = Taken + 1 /\ Head(input) = Taken + 1
    <3>1. Taken' = puts - (Len(input) - 1) /\ Taken = puts - Len(input)
      BY <2>1, <2>2 DEF Taken
    <3>2. input[1] = (puts - Len(input)) + 1
      BY <2>2 DEF InputShape
    <3>. QED  BY <1>t, <2>2, <3>1, <3>2
  <2>4. \A j \in Nat : j <= Taken => j <= Taken' /\ j # Head(input)
    BY <1>t, <2>3
  <2>5. \A i \in DOMAIN output : output[i] \in Test
    BY <1>t
  <2>6. collected \subseteq Test
    BY DEF TypeOK
  <2>7. CASE Head(input) \in Break
    <3>1. job' = job
      BY <1>6, <2>7 DEF Get
    <3>2. InOutput' = InOutput
      BY <2>1 DEF InOutput
    <3>3. /\ \A x \in Worker : job'[x] # 0 => /\ job'[x] <= Taken' /\ job'[x] \notin collected'
                                               /\ job'[x] \notin InOutput'
          /\ \A i \in DOMAIN output' : output'[i] <= Taken' /\ output'[i] \notin collected'
          /\ \A j \in collected' : j <= Taken'
      BY <1>t, <2>1, <2>4, <2>5, <2>6, <3>1, <3>2 DEF Places
    <3>. QED  BY <2>1, <3>1, <3>3 DEF Places
  <2>8. CASE Head(input) \notin Break
    <3>1. job' = [job EXCEPT ![w] = Head(input)]
      BY <1>6, <2>8 DEF Get
    <3>2. /\ Head(input) <= Taken' /\ Head(input) \notin collected' /\ Head(input) \notin InOutput'
      <4>1. Head(input) <= Taken'
        BY <1>t, <2>3
      <4>2. Head(input) \notin collected
        BY <1>t, <2>4, <2>6 DEF Places
      <4>3. Head(input) \notin InOutput
        <5>1. \A i \in DOMAIN output : output[i] # Head(input)
          BY <1>t, <2>4, <2>5 DEF Places
        <5>. QED  BY <5>1 DEF InOutput
      <4>. QED  BY <2>1, <4>1, <4>2, <4>3 DEF InOutput
    <3>3. \A x \in Worker : x # w /\ job[x] # 0 => job[x] # Head(input) /\ job[x] <= Taken'
      BY <1>t, <2>4 DEF Places
    <3>4. \A x \in Worker : job'[x] # 0 => /\ job'[x] <= Taken'
                                         /\ job'[x] \notin collected' /\ job'[x] \notin InOutput'
      BY <1>t, <2>1, <3>1, <3>2, <3>3 DEF Places, InOutput
    <3>5. \A w1, w2 \in Worker : job'[w1] # 0 /\ job'[w1] = job'[w2] => w1 = w2
      BY <1>t, <3>1, <3>3 DEF Places
    <3>6. /\ \A i \in DOMAIN output' : output'[i] <= Taken' /\ output'[i] \notin collected'
          /\ \A j \in collected' : j <= Taken'
      BY <1>t, <2>1, <2>4, <2>5, <2>6 DEF Places
    <3>. QED  BY <2>1, <3>4, <3>5, <3>6 DEF Places
  <2>. QED  BY <2>7, <2>8
<1>7. ASSUME NEW w \in Worker, Check(w)  PROVE Places'
  <2>1. /\ job[w] \in Test /\ UNCHANGED <<puts, input, collected>>
        /\ GiveBack(w) \/ UNCHANGED <<output, job>>
    BY <1>7 DEF Check, Holding, mainVars
  <2>. QED  BY <2>1, GivenBack DEF Places, Taken, InOutput
<1>8. ASSUME NEW w \in Worker, Launch(w) \/ LaunchFails(w)  PROVE Places'
  BY <1>8 DEF Launch, LaunchFails, Places, Taken, InOutput, mainVars
<1>9. ASSUME NEW w \in Worker, Finish(w)  PROVE Places'
  <2>1. job[w] \in Test /\ UNCHANGED <<puts, input, collected>> /\ GiveBack(w)
    BY <1>9 DEF Finish, Holding, mainVars
  <2>. QED  BY <2>1, GivenBack
<1>10. CASE UNCHANGED vars
  BY <1>10 DEF vars, mainVars, Places, Taken, InOutput
<1>. QED  BY <1>1, <1>2, <1>3, <1>6, <1>7, <1>8, <1>9, <1>10 DEF Next, Main, Work

-----------------------------------------------------------------------------
(* What has been given back stays as it is: a worker changes only what     *)
(* belongs to its own test.                                                *)

LEMMA DoneStays ==
    ASSUME TypeOK, Holding, Places, [Next]_vars, NEW j \in Test,
           \A w \in Worker : job[w] # j
    PROVE  /\ kind'[j] = kind[j] /\ code'[j] = code[j] /\ xml'[j] = xml[j]
           /\ (j \in isBreak' <=> j \in isBreak) /\ (j \in started' <=> j \in started)
           /\ (j \in undecodable' <=> j \in undecodable)
<1>1. CASE Put \/ Collect \/ AllCollected \/ Return
  BY <1>1 DEF Put, Collect, AllCollected, Return, workVars
<1>2. CASE Interrupt
  BY <1>2 DEF Interrupt, workVars
<1>3. ASSUME NEW w \in Worker, Get(w) \/ LaunchFails(w)
      PROVE  UNCHANGED <<kind, workVars>>
  BY <1>3 DEF Get, LaunchFails
<1>4. ASSUME NEW w \in Worker, Check(w) \/ Launch(w)
      PROVE  /\ UNCHANGED <<kind, code, xml, undecodable>>
             /\ (j \in isBreak' <=> j \in isBreak) /\ (j \in started' <=> j \in started)
  BY <1>4 DEF Check, Launch
<1>5. ASSUME NEW w \in Worker, Finish(w)
      PROVE  /\ kind'[j] = kind[j] /\ code'[j] = code[j] /\ xml'[j] = xml[j]
             /\ isBreak' = isBreak /\ started' = started
             /\ (j \in undecodable' <=> j \in undecodable)
  <2>1. PICK result \in Code, file \in {"none", "partial", "complete"}, decodable \in BOOLEAN :
            /\ code' = [code EXCEPT ![job[w]] = IF decodable THEN result ELSE 1]
            /\ xml' = [xml EXCEPT ![job[w]] = file]
            /\ undecodable' = IF decodable THEN undecodable ELSE undecodable \cup {job[w]}
    BY <1>5 DEF Finish
  <2>. QED  BY <1>5, <2>1 DEF Finish, TypeOK
<1>6. CASE UNCHANGED vars
  BY <1>6 DEF vars, workVars
<1>. QED  BY <1>1, <1>2, <1>3, <1>4, <1>5, <1>6 DEF Next, Main, Work, workVars

LEMMA ReturnedStep ==
    ASSUME TypeOK, Holding, Places, Returned, [Next]_vars
    PROVE  Returned'
<1>t. job \in [Worker -> {0} \cup Test] /\ output \in Seq(Test) /\ 0 \notin Test
      /\ at \in [Worker -> {"get", "check", "launch", "run", "ended", "died"}]
  BY DEF TypeOK, Test
<1>0. ASSUME NEW j \in Test, \A w \in Worker : job[w] # j
      PROVE  /\ Done(j)' <=> Done(j)
             /\ kind'[j] = kind[j]
  BY <1>0, DoneStays DEF Done, CopiesFile
<1>1. ASSUME NEW j \in Test, j \in InOutput \/ j \in collected
      PROVE  \A w \in Worker : job[w] # j
  BY <1>1, <1>t DEF Places
<1>2. ASSUME UNCHANGED <<at, job>>, \A j \in Test : j \in InOutput' \/ j \in collected'
                                                   => j \in InOutput \/ j \in collected,
             UNCHANGED <<kind, started>>
      PROVE  Returned'
  <2>1. \A j \in Test : j \in InOutput' \/ j \in collected' => Done(j)'
    BY <1>0, <1>1, <1>2 DEF Returned
  <2>2. \A w \in Worker : /\ at'[w] = "launch" => kind'[job'[w]] # "skip"
                          /\ at'[w] = "run" => job'[w] \in started'
    BY <1>2 DEF Returned
  <2>. QED  BY <2>1, <2>2 DEF Returned
<1>3. CASE Collect
  <2>1. /\ output # << >> /\ output' = Tail(output) /\ collected' = collected \cup {Head(output)}
        /\ UNCHANGED <<at, job, kind, started>>
    BY <1>3 DEF Collect, workVars
  <2>2. /\ Head(output) = output[1] /\ 1 \in DOMAIN output
        /\ \A i \in DOMAIN output' : output'[i] = output[i + 1] /\ i + 1 \in DOMAIN output
    BY <1>t, <2>1, TailOf
  <2>3. \A j \in Test : j \in InOutput' \/ j \in collected' => j \in InOutput \/ j \in collected
    BY <2>1, <2>2 DEF InOutput
  <2>. QED  BY <1>2, <2>1, <2>3
<1>4. CASE Put \/ AllCollected \/ Return \/ Interrupt \/ UNCHANGED vars
  <2>1. UNCHANGED <<at, job, output, collected, kind, started>>
    BY <1>4 DEF Put, AllCollected, Return, Interrupt, vars, mainVars, workVars
  <2>. QED  BY <1>2, <2>1 DEF InOutput
(* A step of w that takes its place to p and gives nothing back. *)
<1>5. ASSUME NEW w \in Worker, UNCHANGED <<output, collected, kind>>, started \subseteq started',
             NEW p, at' = [at EXCEPT ![w] = p], \A x \in Worker \ {w} : job'[x] = job[x],
             p = "launch" => kind[job'[w]] # "skip", p = "run" => job'[w] \in started'
      PROVE  Returned'
  <2>1. \A j \in Test : j \in InOutput' \/ j \in collected' => Done(j)'
    BY <1>0, <1>1, <1>5 DEF Returned, InOutput
  <2>2. \A x \in Worker : /\ at'[x] = "launch" => kind'[job'[x]] # "skip"
                          /\ at'[x] = "run" => job'[x] \in started'
    BY <1>t, <1>5 DEF Returned
  <2>. QED  BY <2>1, <2>2 DEF Returned
(* A step of w that gives its test back. *)
<1>6. ASSUME NEW w \in Worker, GiveBack(w), NEW t \in Test, t = job[w], Done(t)',
             UNCHANGED <<puts, input, collected, kind>>, started \subseteq started'
      PROVE  Returned'
  <2>1. \A j \in Test : j \in InOutput' <=> j \in InOutput \/ j = t
    BY <1>6, GivenBack
  <2>2. \A j \in Test : j \in InOutput' \/ j \in collected' => Done(j)'
    BY <1>0, <1>1, <1>6, <2>1 DEF Returned
  <2>3. at' = [at EXCEPT ![w] = "get"] /\ job' = [job EXCEPT ![w] = 0]
    BY <1>6 DEF GiveBack
  <2>4. \A x \in Worker : /\ at'[x] = "launch" => kind'[job'[x]] # "skip"
                          /\ at'[x] = "run" => job'[x] \in started'
    BY <1>t, <1>6, <2>3 DEF Returned
  <2>. QED  BY <2>2, <2>4 DEF Returned
<1>7. ASSUME NEW w \in Worker, Get(w)  PROVE Returned'
  <2>1. /\ UNCHANGED <<output, collected, kind, started>>
        /\ \/ at' = [at EXCEPT ![w] = "ended"] /\ job' = job
           \/ at' = [at EXCEPT ![w] = "check"] /\ job' = [job EXCEPT ![w] = Head(input)]
    BY <1>7 DEF Get, mainVars, workVars
  <2>. QED  BY <1>t, <1>5, <2>1
<1>8. ASSUME NEW w \in Worker, Check(w)  PROVE Returned'
  <2>0. PICK t \in Test : t = job[w]
    BY <1>8 DEF Check, Holding
  <2>1. /\ job[w] \in Test /\ UNCHANGED <<puts, input, collected, kind, started>>
    BY <1>8 DEF Check, Holding, mainVars
  <2>2. CASE threadExit
    <3>1. GiveBack(w) /\ t \in isBreak'
      BY <1>8, <2>0, <2>2 DEF Check
    <3>2. Done(t)'
      BY <3>1 DEF Done
    <3>. QED  BY <1>6, <2>0, <2>1, <3>1, <3>2
  <2>3. CASE ~ threadExit /\ kind[job[w]] = "skip"
    <3>1. GiveBack(w)
      BY <1>8, <2>3 DEF Check
    <3>2. Done(t)'
      BY <2>0, <2>1, <2>3 DEF Done
    <3>. QED  BY <1>6, <2>0, <2>1, <3>1, <3>2
  <2>4. CASE ~ threadExit /\ kind[job[w]] # "skip"
    <3>1. at' = [at EXCEPT ![w] = "launch"] /\ UNCHANGED <<output, job>>
      BY <1>8, <2>4 DEF Check
    <3>. QED  BY <1>5, <2>1, <2>4, <3>1
  <2>. QED  BY <2>2, <2>3, <2>4
<1>9. ASSUME NEW w \in Worker, Launch(w)  PROVE Returned'
  <2>1. /\ at' = [at EXCEPT ![w] = "run"] /\ started' = started \cup {job[w]}
        /\ UNCHANGED <<output, collected, kind, job>>
    BY <1>9 DEF Launch, mainVars
  <2>. QED  BY <1>5, <2>1
<1>10. ASSUME NEW w \in Worker, LaunchFails(w)  PROVE Returned'
  <2>1. /\ at' = [at EXCEPT ![w] = "died"] /\ started' = started
        /\ UNCHANGED <<output, collected, kind, job>>
    BY <1>10 DEF LaunchFails, mainVars, workVars
  <2>. QED  BY <1>5, <2>1
<1>11. ASSUME NEW w \in Worker, Finish(w)  PROVE Returned'
  <2>0. PICK t \in Test : t = job[w]
    BY <1>11 DEF Finish, Holding
  <2>1. /\ GiveBack(w) /\ at[w] = "run"
        /\ UNCHANGED <<puts, input, collected, kind, started>>
    BY <1>11 DEF Finish, mainVars
  <2>2. Done(t)'
    <3>1. PICK result \in Code, file \in {"none", "partial", "complete"}, decodable \in BOOLEAN :
              /\ Leaves(t, result, file)
              /\ code' = [code EXCEPT ![t] = IF decodable THEN result ELSE 1]
              /\ xml' = [xml EXCEPT ![t] = file]
              /\ undecodable' = IF decodable THEN undecodable ELSE undecodable \cup {t}
      BY <1>11, <2>0 DEF Finish
    <3>2. t \in started'
      BY <2>0, <2>1 DEF Returned
    <3>3. CASE ~ decodable
      <4>1. t \in undecodable'
        BY <3>1, <3>3
      <4>. QED  BY <3>2, <4>1 DEF Done
    <3>4. CASE decodable
      <4>1. code'[t] = result /\ xml'[t] = file
        BY <3>1, <3>4 DEF TypeOK
      <4>2. CopiesFile(t)' => xml'[t] = "complete"
        BY <2>1, <3>1, <4>1 DEF CopiesFile, Leaves, Crash
      <4>. QED  BY <3>2, <4>2 DEF Done
    <3>. QED  BY <3>3, <3>4
  <2>. QED  BY <1>6, <2>0, <2>1, <2>2
<1>. QED  BY <1>3, <1>4, <1>7, <1>8, <1>9, <1>10, <1>11 DEF Next, Main, Work

-----------------------------------------------------------------------------
(* The counters.                                                           *)

LEMMA Finite == IsFiniteSet(Test) /\ Cardinality(Test) = Total
  BY TestRunnerAssumption, FS_Interval DEF Test

LEMMA SumOfTwo ==
    ASSUME NEW c \in [Verdict -> Nat], NEW v \in Verdict, NEW d, d = [c EXCEPT ![v] = @ + 1]
    PROVE  /\ v \in {"PASS", "SKIP"} => d["PASS"] + d["SKIP"] = (c["PASS"] + c["SKIP"]) + 1
           /\ v \notin {"PASS", "SKIP"} => d["PASS"] + d["SKIP"] = c["PASS"] + c["SKIP"]
<1>1. "PASS" \in Verdict /\ "SKIP" \in Verdict
  BY DEF Verdict
<1>2. c["PASS"] \in Nat /\ c["SKIP"] \in Nat
  BY <1>1
<1>. QED  BY <1>1, <1>2

LEMMA TotalsStep ==
    ASSUME TypeOK, TypeOK', Holding, Places, Totals, [Next]_vars
    PROVE  Totals'
<1> USE TestRunnerAssumption
<1>t. /\ collected \subseteq Test /\ IsFiniteSet(collected)
      /\ Good \subseteq Test /\ IsFiniteSet(Good) /\ output \in Seq(Test)
      /\ received \in Nat /\ Total \in Nat /\ counts \in [Verdict -> Nat]
  <2>1. collected \subseteq Test /\ Good \subseteq Test
    BY DEF TypeOK, Good
  <2>. QED  BY <2>1, Finite, FS_Subset DEF TypeOK
<1>0. \A j \in collected : /\ j \in isBreak' <=> j \in isBreak
                           /\ VerdictOf(j)' = VerdictOf(j)
  <2>1. \A j \in collected : \A w \in Worker : job[w] # j
    BY DEF Places, TypeOK, Test
  <2>2. \A j \in collected : /\ kind'[j] = kind[j] /\ code'[j] = code[j]
                             /\ j \in isBreak' <=> j \in isBreak
    BY <1>t, <2>1, DoneStays
  <2>. QED  BY <2>2 DEF VerdictOf
<1>1. CASE Collect
  <2>0. PICK h \in Test : h = Head(output)
    BY <1>1, <1>t, TailOf DEF Collect
  <2>1. /\ h \notin collected
        /\ collected' = collected \cup {h} /\ received' = received + 1 /\ received < Total
        /\ pc = "collect" /\ UNCHANGED <<workVars, status, kind>>
    <3>1. output # << >>
      BY <1>1 DEF Collect
    <3>2. h = output[1] /\ 1 \in DOMAIN output
      BY <1>t, <2>0, <3>1, TailOf
    <3>. QED  BY <1>1, <2>0, <3>2 DEF Collect, Places
  <2>2. Cardinality(collected') = received'
    BY <1>t, <2>1, FS_AddElement DEF Totals
  <2>3. VerdictOf(h)' = VerdictOf(h) /\ VerdictOf(h) \in Verdict
    BY <2>1, VerdictIsOne DEF VerdictOf, workVars
  <2>4. Good' = {j \in collected' : j \notin isBreak' /\ VerdictOf(j)' \in {"PASS", "SKIP"}}
    BY DEF Good
  <2>5. Cardinality(Good') = counts'["PASS"] + counts'["SKIP"]
    <3>1. CASE h \in isBreak
      <4>1. counts' = counts
        BY <1>1, <2>0, <3>1 DEF Collect, Count
      <4>2. Good' = Good
        BY <1>0, <2>1, <2>4, <3>1 DEF Good, workVars
      <4>. QED  BY <4>1, <4>2 DEF Totals
    <3>2. CASE h \notin isBreak
      <4>1. counts' = [counts EXCEPT ![VerdictOf(h)] = @ + 1]
        BY <1>1, <2>0, <3>2 DEF Collect, Count
      <4>2. CASE VerdictOf(h) \in {"PASS", "SKIP"}
        <5>1. Good' = Good \cup {h} /\ h \notin Good
          BY <1>0, <2>1, <2>3, <2>4, <3>2, <4>2 DEF Good, workVars
        <5>2. Cardinality(Good') = Cardinality(Good) + 1
          BY <1>t, <5>1, FS_AddElement
        <5>3. counts'["PASS"] + counts'["SKIP"] = (counts["PASS"] + counts["SKIP"]) + 1
          BY <1>t, <2>3, <4>1, <4>2, SumOfTwo
        <5>. QED  BY <5>2, <5>3 DEF Totals
      <4>3. CASE VerdictOf(h) \notin {"PASS", "SKIP"}
        <5>1. Good' = Good
          BY <1>0, <2>1, <2>3, <2>4, <4>3 DEF Good
        <5>2. counts'["PASS"] + counts'["SKIP"] = counts["PASS"] + counts["SKIP"]
          BY <1>t, <2>3, <4>1, <4>3, SumOfTwo
        <5>. QED  BY <5>1, <5>2 DEF Totals
      <4>. QED  BY <4>2, <4>3
    <3>. QED  BY <3>1, <3>2
  <2>6. pc' \in {"collect", "died"} /\ status # 0
    BY <1>1, <2>1 DEF Collect, Count, Totals
  <2>. QED  BY <2>1, <2>2, <2>5, <2>6 DEF Totals
<1>2. ASSUME UNCHANGED <<collected, received, counts, status>>,
             pc' \in {"join", "returned"} => received = Total, status = 0 => pc' = "returned"
      PROVE  Totals'
  <2>1. Good' = {j \in collected : j \notin isBreak' /\ VerdictOf(j)' \in {"PASS", "SKIP"}}
    BY <1>2 DEF Good
  <2>2. Good' = Good
    BY <1>0, <2>1 DEF Good
  <2>. QED  BY <1>2, <2>2 DEF Totals
<1>3. CASE Put
  BY <1>2, <1>3 DEF Put, Totals
<1>4. CASE AllCollected
  BY <1>2, <1>4 DEF AllCollected, Totals
<1>5. CASE Return
  <2>1. /\ pc = "join" /\ pc' = "returned" /\ UNCHANGED <<collected, received, counts, workVars, kind>>
        /\ status' = IF counts["PASS"] + counts["SKIP"] = Total THEN 0 ELSE 1
    BY <1>5 DEF Return
  <2>2. Good' = {j \in collected : j \notin isBreak' /\ VerdictOf(j)' \in {"PASS", "SKIP"}}
    BY <2>1 DEF Good
  <2>3. Good' = Good
    BY <1>0, <2>2 DEF Good
  <2>. QED  BY <2>1, <2>3 DEF Totals
<1>6. CASE Interrupt \/ (\E w \in Worker : Work(w) \/ LaunchFails(w)) \/ UNCHANGED vars
  <2>1. UNCHANGED <<collected, received, counts, status, pc>>
    BY <1>6 DEF Interrupt, Work, Get, Check, Launch, LaunchFails, Finish, vars, mainVars
  <2>. QED  BY <1>2, <2>1 DEF Totals
<1>. QED  BY <1>1, <1>3, <1>4, <1>5, <1>6 DEF Next, Main

LEMMA CompleteStep ==
    ASSUME TypeOK, TypeOK', Returned, ResultsComplete, [Next]_vars
    PROVE  ResultsComplete'
<1>1. CASE Collect
  <2>1. PICK h \in Test : h = Head(output) /\ h \in InOutput
    <3>1. output # << >> /\ output \in Seq(Test)
      BY <1>1 DEF Collect, TypeOK
    <3>. QED  BY <3>1, TailOf DEF InOutput
  <2>2. undecodable' = undecodable /\ pc = "collect"
    BY <1>1 DEF Collect, workVars
  <2>3. CASE undecodable # {}
    BY <2>2, <2>3 DEF ResultsComplete
  <2>4. CASE undecodable = {}
    <3>1. pc # "died" /\ torn = FALSE
      BY <2>2, <2>4 DEF ResultsComplete, TypeOK
    <3>2. h \notin isBreak /\ CopiesFile(h) => xml[h] = "complete"
      BY <2>1, <2>4 DEF Returned, Done, CopiesFile
    <3>3. pc' # "died" /\ torn' = FALSE
      BY <1>1, <2>1, <2>2, <3>1, <3>2 DEF Collect, Count
    <3>. QED  BY <3>3 DEF ResultsComplete
  <2>. QED  BY <2>3, <2>4
<1>2. CASE Put \/ AllCollected \/ Return
  BY <1>2 DEF Put, AllCollected, Return, ResultsComplete, workVars
<1>3. CASE Interrupt \/ (\E w \in Worker : Work(w) \/ LaunchFails(w)) \/ UNCHANGED vars
  <2>1. UNCHANGED <<pc, torn>> /\ undecodable \subseteq undecodable'
    <3>1. ASSUME NEW w \in Worker, Finish(w)  PROVE undecodable \subseteq undecodable'
      BY <3>1 DEF Finish
    <3>. QED
      BY <1>3, <3>1 DEF Interrupt, Work, Get, Check, Launch, LaunchFails, Finish,
                        vars, mainVars, workVars
  <2>. QED  BY <2>1 DEF ResultsComplete
<1>. QED  BY <1>1, <1>2, <1>3 DEF Next, Main

LEMMA Invariance == Spec => []IInv
<1>1. Init => IInv
  <2> SUFFICES ASSUME Init  PROVE IInv
    OBVIOUS
  <2>1. TypeOK /\ Holding /\ InputShape
    BY TypesInit
  <2>2. /\ \A w \in Worker : job[w] = 0 /\ at[w] = "get"
        /\ DOMAIN output = {} /\ collected = {} /\ received = 0 /\ pc = "dispatch"
        /\ counts["PASS"] = 0 /\ counts["SKIP"] = 0 /\ status = -1 /\ torn = FALSE
    BY DEF Init, Verdict
  <2>3. Places
    BY <2>2 DEF Places
  <2>4. Returned
    BY <2>2 DEF Returned, InOutput
  <2>5. Good = {}
    BY <2>2 DEF Good
  <2>6. Totals
    BY <2>2, <2>5, FS_EmptySet DEF Totals
  <2>. QED  BY <2>1, <2>2, <2>3, <2>4, <2>6 DEF IInv, ResultsComplete
<1>2. IInv /\ [Next]_vars => IInv'
  BY TypesStep, PlacesStep, ReturnedStep, TotalsStep, CompleteStep DEF IInv
<1>. QED  BY <1>1, <1>2, PTL DEF Spec

(* run_tests returns 0 only if every test was skipped on purpose or passed.*)
(* The counters are compared with total_tests; since each test is counted  *)
(* at most once and never when SIGINT kept it from running, they are equal *)
(* only if all tests are good.                                             *)
THEOREM SuccessReal == Spec => []SuccessIsReal
<1>1. IInv => SuccessIsReal
  <2> SUFFICES ASSUME IInv, status = 0, NEW j \in Test
               PROVE  kind[j] = "skip" \/ (j \in started /\ code[j] = 0)
    BY DEF SuccessIsReal
  <2>1. Good \subseteq Test /\ Cardinality(Good) = Cardinality(Test)
    BY Finite DEF IInv, Totals, Good, TypeOK
  <2>2. Good = Test
    BY <2>1, Finite, FS_Subset
  <2>3. j \in collected /\ j \notin isBreak /\ VerdictOf(j) \in {"PASS", "SKIP"}
    BY <2>2 DEF Good
  <2>4. Done(j) /\ TypeOK
    BY <2>3 DEF IInv, Returned
  <2>. QED  BY <2>3, <2>4, VerdictIsOne DEF Done
<1>. QED  BY <1>1, Invariance, PTL

(* The results file gets only complete files of suites and the main thread *)
(* finds each of them, unless some output could not be decoded             *)
(* (run_job_synchronously makes the code a 1, whatever the process did).   *)
THEOREM ResultsAreComplete == Spec => []ResultsComplete
  BY Invariance, PTL DEF IInv

(* When a worker has died with its job, no verdict is given: the main      *)
(* thread waits for the lost job, also after SIGINT.                       *)
NoVerdictWithoutJob == (\E w \in Worker : at[w] = "died") => pc \notin {"join", "returned"}

(* A worker that dies takes its test with it, and the main thread never    *)
(* gets beyond the loop that waits for as many jobs as there are tests.    *)
THEOREM NoVerdict == Spec => []NoVerdictWithoutJob
<1>1. IInv => NoVerdictWithoutJob
  <2> SUFFICES ASSUME IInv, NEW w \in Worker, at[w] = "died", pc \in {"join", "returned"}
               PROVE  FALSE
    BY DEF NoVerdictWithoutJob
  <2>1. collected \subseteq Test /\ Cardinality(collected) = Cardinality(Test)
    BY Finite DEF IInv, Totals, TypeOK
  <2>2. collected = Test
    BY <2>1, Finite, FS_Subset
  <2>3. job[w] \in Test /\ job[w] # 0
    BY DEF IInv, Holding, Test
  <2>. QED  BY <2>2, <2>3 DEF IInv, Places
<1>. QED  BY <1>1, Invariance, PTL

(* Once SIGINT has set thread_exit, a worker that looks at it gives its    *)
(* test back: no test that is not about to start is ever started.          *)
THEOREM NoneStartsLater == Spec => NotStartedLater
<1> SUFFICES ASSUME NEW j \in Test
             PROVE  Spec => [](threadExit /\ NotStarting(j) => []NotStarting(j))
  BY DEF NotStartedLater
<1>1. TypeOK /\ Holding /\ threadExit /\ NotStarting(j) /\ [Next]_vars
        => (threadExit /\ NotStarting(j))'
  <2> SUFFICES ASSUME TypeOK, Holding, threadExit, NotStarting(j), [Next]_vars
               PROVE  (threadExit /\ NotStarting(j))'
    OBVIOUS
  <2>t. /\ job \in [Worker -> {0} \cup Test] /\ 0 \notin Test
        /\ at \in [Worker -> {"get", "check", "launch", "run", "ended", "died"}]
    BY DEF TypeOK, Test
  <2>1. CASE Main \/ Interrupt \/ UNCHANGED vars
    BY <2>1 DEF Main, Put, Collect, AllCollected, Return, Interrupt, vars, workVars, NotStarting
  <2>2. ASSUME NEW w \in Worker, Get(w)  PROVE (threadExit /\ NotStarting(j))'
    <3>1. /\ threadExit' = threadExit /\ started' = started
          /\ \/ at' = [at EXCEPT ![w] = "ended"] /\ job' = job
             \/ at' = [at EXCEPT ![w] = "check"] /\ job' = [job EXCEPT ![w] = Head(input)]
      BY <2>2 DEF Get, workVars
    <3>. QED  BY <2>t, <3>1 DEF NotStarting
  <2>3. ASSUME NEW w \in Worker, Check(w) \/ Finish(w)  PROVE (threadExit /\ NotStarting(j))'
    <3>1. GiveBack(w) /\ threadExit' = threadExit /\ started' = started
      BY <2>3 DEF Check, Finish
    <3>. QED  BY <2>t, <3>1 DEF NotStarting, GiveBack
  <2>4. ASSUME NEW w \in Worker, Launch(w)  PROVE (threadExit /\ NotStarting(j))'
    <3>1. /\ threadExit' = threadExit /\ job' = job /\ at[w] = "launch"
          /\ at' = [at EXCEPT ![w] = "run"] /\ started' = started \cup {job[w]}
      BY <2>4 DEF Launch
    <3>. QED  BY <2>t, <3>1 DEF NotStarting
  <2>5. ASSUME NEW w \in Worker, LaunchFails(w)  PROVE (threadExit /\ NotStarting(j))'
    <3>1. /\ threadExit' = threadExit /\ job' = job /\ started' = started
          /\ at' = [at EXCEPT ![w] = "died"]
      BY <2>5 DEF LaunchFails, workVars
    <3>. QED  BY <2>t, <3>1 DEF NotStarting
  <2>. QED  BY <2>1, <2>2, <2>3, <2>4, <2>5 DEF Next, Work
<1>2. Spec => [](TypeOK /\ Holding)
  BY Invariance, PTL DEF IInv
<1>. QED  BY <1>1, <1>2, PTL DEF Spec

-----------------------------------------------------------------------------
(* Nobody waits for ever.                                                  *)

(* A test that has left the input queue is somewhere. *)
NoneForgotten ==
    \A j \in Test : j <= Taken =>
        j \in InOutput \/ j \in collected \/ \E w \in Worker : job[w] = j

(* As many workers have ended as break jobs were taken, and these come     *)
(* after all tests.                                                        *)
Ended == {w \in Worker : at[w] = "ended"}

BreaksTaken == Cardinality(Ended) = IF Taken > Total THEN Taken - Total ELSE 0

AllPut == pc # "dispatch" => puts = Total + Processors

Accounted == NoneForgotten /\ BreaksTaken /\ AllPut

LEMMA Workers == IsFiniteSet(Worker) /\ Cardinality(Worker) = Processors
  BY TestRunnerAssumption, FS_Interval DEF Worker

(* The step that takes a job from the input queue. *)
LEMMA TakenNext ==
    ASSUME TypeOK, InputShape, NEW w \in Worker, Get(w)
    PROVE  /\ Taken \in Nat /\ Taken' = Taken + 1 /\ Head(input) = Taken + 1
           /\ Head(input) \in Break => Taken' > Total
           /\ Head(input) \notin Break => Taken' <= Total /\ Head(input) \in Test
<1> USE TestRunnerAssumption
<1>1. /\ input \in Seq(Test \cup Break) /\ input # << >> /\ input' = Tail(input) /\ puts' = puts
      /\ puts \in Nat /\ Len(input) \in Nat /\ Len(input) <= puts
  BY DEF Get, TypeOK, InputShape
<1>2. /\ Len(input') = Len(input) - 1 /\ Head(input) = input[1] /\ 1 \in DOMAIN input
      /\ Head(input) \in Test \cup Break
  BY <1>1, TailOf
<1>3. Taken \in Nat /\ Taken' = puts - (Len(input) - 1) /\ Taken = puts - Len(input)
  BY <1>1, <1>2 DEF Taken
<1>4. input[1] = (puts - Len(input)) + 1
  BY <1>2 DEF InputShape
<1>5. Taken' = Taken + 1 /\ Head(input) = Taken + 1
  BY <1>1, <1>2, <1>3, <1>4
<1>. QED  BY <1>2, <1>3, <1>5 DEF Test, Break

(* Putting a job does not take one. *)
LEMMA TakenPut == TypeOK /\ Put => Taken' = Taken
<1> SUFFICES ASSUME TypeOK, Put PROVE Taken' = Taken
  OBVIOUS
<1>1. /\ input \in Seq(Test \cup Break) /\ puts \in Nat /\ Len(input) \in Nat
      /\ puts' = puts + 1 /\ input' = Append(input, puts + 1)
  BY DEF Put, TypeOK
<1>2. Len(input') = Len(input) + 1
  BY <1>1
<1>. QED  BY <1>1, <1>2 DEF Taken

LEMMA NoneForgottenStep ==
    ASSUME TypeOK, Holding, InputShape, Places, NoneForgotten, [Next]_vars
    PROVE  NoneForgotten'
<1> USE TestRunnerAssumption
<1>t. job \in [Worker -> {0} \cup Test] /\ output \in Seq(Test) /\ 0 \notin Test
      /\ Test \subseteq Nat
  BY DEF TypeOK, Test
<1>1. ASSUME Taken' = Taken, UNCHANGED <<job, output, collected>>
      PROVE  NoneForgotten'
  BY <1>1 DEF NoneForgotten, InOutput
<1>2. CASE Put
  <2>1. UNCHANGED <<job, output, collected>>
    BY <1>2 DEF Put
  <2>. QED  BY <1>1, <1>2, <2>1, TakenPut
<1>3. CASE Collect
  <2>1. /\ output # << >> /\ output' = Tail(output) /\ collected' = collected \cup {Head(output)}
        /\ Taken' = Taken /\ job' = job
    BY <1>3 DEF Collect, Taken
  <2>2. \A j : j \in InOutput => j \in InOutput' \/ j = Head(output)
    <3> SUFFICES ASSUME NEW i \in DOMAIN output, output[i] # Head(output)
                 PROVE  output[i] \in InOutput'
      BY DEF InOutput
    <3>1. i \in 1 .. Len(output) /\ i # 1 /\ Len(output) \in Nat
      BY <1>t, <2>1
    <3>2. i - 1 \in DOMAIN output' /\ output'[i - 1] = output[i]
      <4>1. i - 1 \in 1 .. Len(output) - 1
        BY <3>1
      <4>2. Tail(output) \in Seq(Test) /\ Len(Tail(output)) = Len(output) - 1
        BY <1>t, <2>1
      <4>3. i - 1 \in DOMAIN Tail(output)
        BY <4>1, <4>2
      <4>4. Tail(output)[i - 1] = output[(i - 1) + 1] /\ (i - 1) + 1 = i
        BY <1>t, <2>1, <3>1, <4>3, TailOf
      <4>. QED  BY <2>1, <4>3, <4>4
    <3>. QED  BY <3>2 DEF InOutput
  <2>. QED  BY <2>1, <2>2 DEF NoneForgotten
<1>4. CASE AllCollected \/ Return \/ Interrupt \/ UNCHANGED vars
  <2>1. UNCHANGED <<puts, input, job, output, collected>>
    BY <1>4 DEF AllCollected, Return, Interrupt, vars, mainVars
  <2>. QED  BY <1>1, <2>1 DEF Taken
<1>5. ASSUME NEW w \in Worker, Get(w)  PROVE NoneForgotten'
  <2>1. /\ Taken' = Taken + 1 /\ Taken \in Nat /\ Head(input) = Taken + 1
        /\ Head(input) \notin Break => Head(input) \in Test
        /\ Head(input) \in Break => Taken' > Total
    BY <1>5, TakenNext
  <2>2. UNCHANGED <<output, collected>> /\ at[w] = "get" /\ job[w] = 0
    BY <1>5 DEF Get, mainVars, Holding
  <2>3. \A x \in Worker : job[x] # 0 => job'[x] = job[x]
    BY <1>5, <1>t, <2>2 DEF Get
  <2>4. ASSUME NEW j \in Test, j <= Taken'
        PROVE  j \in InOutput' \/ j \in collected' \/ \E x \in Worker : job'[x] = j
    <3>1. CASE j <= Taken
      <4>1. j # 0
        BY <1>t
      <4>. QED  BY <2>2, <2>3, <3>1, <4>1 DEF NoneForgotten, InOutput
    <3>2. CASE ~ (j <= Taken)
      <4>1. j = Head(input)
        BY <1>t, <2>1, <2>4, <3>2
      <4>2. Head(input) \notin Break
        BY <4>1 DEF Test, Break
      <4>3. job' = [job EXCEPT ![w] = Head(input)]
        BY <1>5, <4>2 DEF Get
      <4>4. job'[w] = j
        BY <1>t, <4>1, <4>3
      <4>. QED  BY <4>4
    <3>. QED  BY <3>1, <3>2
  <2>. QED  BY <2>4 DEF NoneForgotten
<1>6. ASSUME NEW w \in Worker, GiveBack(w), job[w] \in Test, UNCHANGED <<puts, input, collected>>
      PROVE  NoneForgotten'
  <2>1. \A j \in Test : j \in InOutput' <=> j \in InOutput \/ j = job[w]
    BY <1>6, GivenBack
  <2>2. \A x \in Worker : x # w => job'[x] = job[x]
    BY <1>t, <1>6 DEF GiveBack
  <2>3. Taken' = Taken
    BY <1>6 DEF Taken
  <2>. QED  BY <1>6, <2>1, <2>2, <2>3 DEF NoneForgotten
<1>7. ASSUME NEW w \in Worker, Check(w)  PROVE NoneForgotten'
  <2>1. /\ job[w] \in Test /\ UNCHANGED <<puts, input, collected>>
        /\ GiveBack(w) \/ UNCHANGED <<output, job>>
    BY <1>7 DEF Check, Holding, mainVars
  <2>. QED  BY <1>1, <1>6, <2>1 DEF Taken
<1>8. ASSUME NEW w \in Worker, Launch(w) \/ LaunchFails(w)  PROVE NoneForgotten'
  <2>1. UNCHANGED <<puts, input, job, output, collected>>
    BY <1>8 DEF Launch, LaunchFails, mainVars
  <2>. QED  BY <1>1, <2>1 DEF Taken
<1>9. ASSUME NEW w \in Worker, Finish(w)  PROVE NoneForgotten'
  <2>1. job[w] \in Test /\ UNCHANGED <<puts, input, collected>> /\ GiveBack(w)
    BY <1>9 DEF Finish, Holding, mainVars
  <2>. QED  BY <1>6, <2>1
<1>. QED  BY <1>2, <1>3, <1>4, <1>5, <1>7, <1>8, <1>9 DEF Next, Main, Work

LEMMA BreaksTakenStep ==
    ASSUME TypeOK, InputShape, BreaksTaken, [Next]_vars
    PROVE  BreaksTaken'
<1> USE TestRunnerAssumption
<1>t. /\ at \in [Worker -> {"get", "check", "launch", "run", "ended", "died"}]
      /\ Taken \in Nat /\ Total \in Nat /\ Ended \subseteq Worker /\ IsFiniteSet(Ended)
  <2>1. Ended \subseteq Worker
    BY DEF Ended
  <2>2. IsFiniteSet(Ended)
    BY <2>1, Workers, FS_Subset
  <2>3. Taken \in Nat
    <3>1. puts \in Nat /\ Len(input) \in Nat /\ Len(input) <= puts
      BY DEF TypeOK, InputShape
    <3>. QED  BY <3>1 DEF Taken
  <2>. QED  BY <2>1, <2>2, <2>3 DEF TypeOK
<1>1. ASSUME Taken' = Taken, Ended' = Ended  PROVE BreaksTaken'
  BY <1>1 DEF BreaksTaken
<1>2. CASE Put
  <2>1. Ended' = Ended
    BY <1>2 DEF Put, Ended
  <2>. QED  BY <1>1, <1>2, <2>1, TakenPut
<1>3. CASE Collect \/ AllCollected \/ Return \/ Interrupt \/ UNCHANGED vars
  <2>1. UNCHANGED <<puts, input, at>>
    BY <1>3 DEF Collect, AllCollected, Return, Interrupt, vars
  <2>. QED  BY <1>1, <2>1 DEF Taken, Ended
(* A worker that goes on to another place than the end. *)
<1>4. ASSUME NEW w \in Worker, at[w] # "ended", NEW p \in {"get", "check", "launch", "run", "died"},
             at' = [at EXCEPT ![w] = p]
      PROVE  Ended' = Ended
  BY <1>4, <1>t DEF Ended
<1>5. ASSUME NEW w \in Worker, Get(w)  PROVE BreaksTaken'
  <2>1. /\ Taken' = Taken + 1
        /\ Head(input) \in Break => Taken' > Total
        /\ Head(input) \notin Break => Taken' <= Total
    BY <1>5, TakenNext
  <2>2. at[w] = "get"
    BY <1>5 DEF Get
  <2>3. CASE Head(input) \in Break
    <3>1. at' = [at EXCEPT ![w] = "ended"]
      BY <1>5, <2>3 DEF Get
    <3>2. Ended' = Ended \cup {w} /\ w \notin Ended
      BY <1>t, <2>2, <3>1 DEF Ended
    <3>3. Cardinality(Ended') = Cardinality(Ended) + 1
      BY <1>t, <3>2, FS_AddElement
    <3>4. Cardinality(Ended) = Taken - Total
      BY <1>t, <2>1, <2>3 DEF BreaksTaken
    <3>. QED  BY <1>t, <2>1, <2>3, <3>3, <3>4 DEF BreaksTaken
  <2>4. CASE Head(input) \notin Break
    <3>1. at' = [at EXCEPT ![w] = "check"]
      BY <1>5, <2>4 DEF Get
    <3>2. Ended' = Ended
      BY <1>4, <2>2, <3>1
    <3>. QED  BY <1>t, <2>1, <2>4, <3>2 DEF BreaksTaken
  <2>. QED  BY <2>3, <2>4
<1>6. ASSUME NEW w \in Worker, Check(w) \/ Launch(w) \/ LaunchFails(w) \/ Finish(w)
      PROVE  BreaksTaken'
  <2>1. UNCHANGED <<puts, input>> /\ at[w] # "ended"
    BY <1>6 DEF Check, Launch, LaunchFails, Finish
  <2>2. \E p \in {"get", "check", "launch", "run", "died"} : at' = [at EXCEPT ![w] = p]
    BY <1>6 DEF Check, Launch, LaunchFails, Finish, GiveBack
  <2>3. Ended' = Ended
    BY <1>4, <2>1, <2>2
  <2>. QED  BY <1>1, <2>1, <2>3 DEF Taken
<1>. QED  BY <1>2, <1>3, <1>5, <1>6 DEF Next, Main, Work

LEMMA AccountedAlways == Spec => []Accounted
<1>1. Init => Accounted
  <2> SUFFICES ASSUME Init PROVE Accounted
    OBVIOUS
  <2>1. puts = 0 /\ input = << >> /\ pc = "dispatch" /\ \A w \in Worker : at[w] = "get"
    BY DEF Init
  <2>2. Taken = 0
    <3>1. Len(input) = 0 /\ puts = 0
      BY <2>1
    <3>. QED  BY <3>1 DEF Taken
  <2>3. Ended = {}
    BY <2>1 DEF Ended
  <2>4. BreaksTaken
    BY <2>2, <2>3, TestRunnerAssumption, FS_EmptySet DEF BreaksTaken
  <2>. QED  BY <2>1, <2>2, <2>4 DEF Accounted, NoneForgotten, AllPut, Test
<1>2. IInv /\ Accounted /\ [Next]_vars => Accounted'
  <2> SUFFICES ASSUME IInv, Accounted, [Next]_vars PROVE Accounted'
    OBVIOUS
  <2>1. NoneForgotten' /\ BreaksTaken'
    BY NoneForgottenStep, BreaksTakenStep DEF IInv, Accounted
  <2>2. AllPut'
    <3>1. CASE Put
      <4>1. /\ pc = "dispatch" /\ puts' = puts + 1
            /\ pc' = IF puts + 1 = Total + Processors THEN "collect" ELSE pc
        BY <3>1 DEF Put
      <4>. QED  BY <4>1 DEF AllPut
    <3>2. ASSUME puts' = puts, pc = "dispatch" => pc' = "dispatch" PROVE AllPut'
      BY <3>2 DEF AllPut, Accounted
    <3>3. CASE Collect \/ AllCollected \/ Return
      <4>1. puts' = puts /\ pc # "dispatch"
        BY <3>3 DEF Collect, AllCollected, Return
      <4>. QED  BY <3>2, <4>1
    <3>4. CASE Interrupt \/ (\E w \in Worker : Work(w) \/ LaunchFails(w)) \/ UNCHANGED vars
      <4>1. puts' = puts /\ pc' = pc
        BY <3>4 DEF Interrupt, Work, Get, Check, Launch, LaunchFails, Finish, vars, mainVars
      <4>. QED  BY <3>2, <4>1
    <3>. QED  BY <3>1, <3>3, <3>4 DEF Next, Main
  <2>. QED  BY <2>1, <2>2 DEF Accounted
<1>. QED  BY <1>1, <1>2, Invariance, PTL DEF Spec

(* Where no thread can go on, all workers have ended or died, because      *)
(* there is a break job for each.                                          *)
LEMMA WorkersGone ==
    ASSUME IInv, Accounted, ~ MainCanMove, \A w \in Worker : ~ WorkerCanMove(w)
    PROVE  \A w \in Worker : at[w] \in {"ended", "died"}
<1> USE TestRunnerAssumption
<1>1. /\ TypeOK /\ BreaksTaken /\ puts = Total + Processors
  BY DEF IInv, Accounted, AllPut, MainCanMove
<1>2. \A w \in Worker : at[w] \in {"ended", "died"} \/ (at[w] = "get" /\ input = << >>)
  BY <1>1 DEF TypeOK, WorkerCanMove
<1>3. SUFFICES ASSUME NEW w \in Worker, at[w] = "get", input = << >> PROVE FALSE
  BY <1>2
<1>4. Taken = Total + Processors
  <2>1. Len(input) = 0
    BY <1>3
  <2>. QED  BY <1>1, <2>1 DEF Taken
<1>5. Cardinality(Ended) = Processors
  <2>1. Total + Processors > Total /\ (Total + Processors) - Total = Processors
    OBVIOUS
  <2>. QED  BY <1>1, <1>4, <2>1 DEF BreaksTaken
<1>6. Ended \subseteq Worker
  BY DEF Ended
<1>7. Ended = Worker
  BY <1>5, <1>6, Workers, FS_Subset
<1>. QED  BY <1>3, <1>7 DEF Ended

(* When all of them have ended, every test has been given back, because    *)
(* the break jobs come last.                                               *)
LEMMA AllGivenBack ==
    ASSUME IInv, Accounted, ~ MainCanMove, \A w \in Worker : at[w] = "ended"
    PROVE  pc \in {"returned", "died"}
<1> USE TestRunnerAssumption
<1>1. /\ TypeOK /\ Holding /\ Totals /\ NoneForgotten /\ BreaksTaken
  BY DEF IInv, Accounted
<1>2. Taken >= Total
  <2>1. Ended = Worker
    BY DEF Ended
  <2>2. Cardinality(Ended) = Processors
    BY <2>1, Workers
  <2>3. Taken > Total
    <3>1. Cardinality(Ended) # 0
      BY <2>2
    <3>. QED  BY <1>1, <3>1 DEF BreaksTaken
  <2>4. Taken \in Int
    <3>1. Len(input) \in Nat /\ puts \in Nat
      BY <1>1 DEF TypeOK
    <3>. QED  BY <3>1 DEF Taken
  <2>. QED  BY <2>3, <2>4
<1>3. pc # "collect"
  <2> SUFFICES ASSUME pc = "collect" PROVE FALSE
    OBVIOUS
  <2>1. received # Total /\ output = << >>
    BY DEF MainCanMove
  <2>2. InOutput = {}
    BY <2>1 DEF InOutput
  <2>3. \A w \in Worker : job[w] = 0
    BY <1>1 DEF Holding
  <2>4. \A j \in Test : j <= Taken /\ j # 0
    <3>1. Taken \in Int
      <4>1. Len(input) \in Nat /\ puts \in Nat
        BY <1>1 DEF TypeOK
      <4>. QED  BY <4>1 DEF Taken
    <3>. QED  BY <1>2, <3>1 DEF Test
  <2>5. Test \subseteq collected
    BY <1>1, <2>2, <2>3, <2>4 DEF NoneForgotten
  <2>6. collected = Test
    BY <1>1, <2>5 DEF TypeOK
  <2>. QED  BY <1>1, <2>1, <2>6, Finite DEF Totals
<1>4. pc \notin {"dispatch", "join"}
  BY DEF MainCanMove
<1>. QED  BY <1>1, <1>3, <1>4 DEF TypeOK

(* The program never hangs but for the job of a worker that died with it:  *)
(* when no worker can go on, all of them have ended or died; if none died, *)
(* the main thread has all it waits for; otherwise it gives no verdict.    *)
THEOREM NobodyWaits == Spec => []NobodyStuck
<1>1. IInv /\ Accounted /\ NoVerdictWithoutJob => NobodyStuck
  <2> SUFFICES ASSUME IInv, Accounted, NoVerdictWithoutJob, ~ MainCanMove,
                      \A w \in Worker : ~ WorkerCanMove(w)
               PROVE  /\ \A w \in Worker : at[w] \in {"ended", "died"}
                      /\ pc \in IF \E w \in Worker : at[w] = "died"
                                THEN {"collect", "died"} ELSE {"returned", "died"}
    BY DEF NobodyStuck
  <2>1. \A w \in Worker : at[w] \in {"ended", "died"}
    BY WorkersGone
  <2>2. CASE \E w \in Worker : at[w] = "died"
    <3>1. pc \notin {"join", "returned", "dispatch"}
      BY <2>2 DEF NoVerdictWithoutJob, MainCanMove
    <3>2. pc \in {"collect", "died"}
      BY <3>1 DEF IInv, TypeOK
    <3>. QED  BY <2>1, <2>2, <3>2
  <2>3. CASE ~ \E w \in Worker : at[w] = "died"
    <3>1. pc \in {"returned", "died"}
      BY <2>1, <2>3, AllGivenBack
    <3>. QED  BY <2>1, <2>3, <3>1
  <2>. QED  BY <2>2, <2>3
<1>. QED  BY <1>1, NoVerdict, Invariance, AccountedAlways, PTL
=============================================================================
