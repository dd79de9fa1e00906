------------------------------ MODULE E1Runner ------------------------------
(***************************************************************************)
(* run_benchmark of the E1 benchmark and prove_recursive_wrapper_with_depth,*)
(* which its workers call.                                                 *)
(*                                                                         *)
(* The wrapper: the five proofs of a lot are wrapped and aggregated pairwise*)
(* into one.  A layer is the sequence of circuits whose proofs it covers.  *)
(* recursion_step silences the panic hook of the process while a step of   *)
(* the upstream prover runs.  Taking the hook, setting the silent one and  *)
(* putting back the one taken are three calls, and the hook is shared by   *)
(* all threads.                                                            *)
(*                                                                         *)
(* The runner: a new output file, then for every number of events the rows *)
(* of all seeds, computed one after the other or by a pool of workers,     *)
(* sorted, and written and flushed one by one.  The program may be killed  *)
(* at any time and started again.                                          *)
(***************************************************************************)
EXTENDS Integers, Sequences, FiniteSets, SequencesExt

CONSTANT WrapLots  \* the lots that are wrapped at the same time, one per thread

VARIABLES
  hook,       \* the panic hook: "default" or "silent"
  step,       \* for each lot the step it is at, 0 when it is not wrapped
  taken,      \* the hook its current recursion_step took, or "none"
  inside,     \* whether the upstream prover runs in its recursion_step
  layers,     \* the layers made so far
  overlapped  \* whether two recursion_steps ever overlapped

wrapperVars == <<hook, step, taken, inside, layers, overlapped>>

Inner == <<"C1", "C2", "C3", "C4", "C5">>

\* The layers 1 to 5 wrap one proof each; each of the others aggregates two.
Aggregations == <<<<1, 2>>, <<3, 4>>, <<7, 5>>, <<6, 8>>>>
LastLayer == 9

\* The steps: the inner proofs, then the layers, then the verification.
LayerOf(s) == s - Len(Inner)
IsInner(s) == s \in 1 .. Len(Inner)
IsLayer(s) == LayerOf(s) \in 1 .. LastLayer
VerifyStep == Len(Inner) + LastLayer + 1

WrapperInit ==
  /\ hook = "default"
  /\ step = [l \in WrapLots |-> 0]
  /\ taken = [l \in WrapLots |-> "none"]
  /\ inside = [l \in WrapLots |-> FALSE]
  /\ layers = [l \in WrapLots |-> <<>>]
  /\ overlapped = FALSE

\* The wrapper leaves the thread: with an error, or with its statistics.
Leave(l) ==
  /\ step' = [step EXCEPT ![l] = 0]
  /\ layers' = [layers EXCEPT ![l] = <<>>]

Enter(l) ==
  /\ step[l] = 0
  /\ step' = [step EXCEPT ![l] = 1]
  /\ UNCHANGED <<hook, taken, inside, layers, overlapped>>

ProveInner(l) ==
  /\ IsInner(step[l])
  /\ step' = [step EXCEPT ![l] = @ + 1]
  /\ UNCHANGED <<hook, taken, inside, layers, overlapped>>

\* A witness that is refused, a trace that violates a constraint.
InnerFails(l) ==
  /\ IsInner(step[l])
  /\ Leave(l)
  /\ UNCHANGED <<hook, taken, inside, overlapped>>

\* take_hook leaves the default hook in place.
TakeHook(l) ==
  /\ IsLayer(step[l]) /\ taken[l] = "none"
  /\ taken' = [taken EXCEPT ![l] = hook]
  /\ hook' = "default"
  /\ overlapped' = (overlapped \/ \E k \in WrapLots \ {l} : taken[k] # "none")
  /\ UNCHANGED <<step, inside, layers>>

Silence(l) ==
  /\ taken[l] # "none" /\ ~inside[l]
  /\ hook' = "silent"
  /\ inside' = [inside EXCEPT ![l] = TRUE]
  /\ UNCHANGED <<step, taken, layers, overlapped>>

\* The hook goes back whether the step returned, failed or panicked.
Restore(l) ==
  /\ inside[l]
  /\ hook' = taken[l]
  /\ taken' = [taken EXCEPT ![l] = "none"]
  /\ inside' = [inside EXCEPT ![l] = FALSE]
  /\ UNCHANGED overlapped

\* Mutant: after a failure the hook stays silent.
StepFailsSilent(l) ==
  /\ inside[l]
  /\ taken' = [taken EXCEPT ![l] = "none"]
  /\ inside' = [inside EXCEPT ![l] = FALSE]
  /\ Leave(l)
  /\ UNCHANGED <<hook, overlapped>>

StepFails(l) == Restore(l) /\ Leave(l)

\* Mutant: the last aggregation takes the layer of C3 and C4 without C5.
NewLayerWithoutC5(l) ==
  LET k == LayerOf(step[l])
      own == layers[l]
  IN IF k <= Len(Inner) THEN <<Inner[k]>>
     ELSE LET pair == <<<<1, 2>>, <<3, 4>>, <<7, 5>>, <<6, 7>>>>[k - Len(Inner)]
          IN own[pair[1]] \o own[pair[2]]

NewLayer(l) ==
  LET k == LayerOf(step[l])
      own == layers[l]
  IN IF k <= Len(Inner) THEN <<Inner[k]>>
     ELSE LET pair == Aggregations[k - Len(Inner)]
          IN own[pair[1]] \o own[pair[2]]

StepDone(l) ==
  /\ Restore(l)
  /\ layers' = [layers EXCEPT ![l] = Append(@, NewLayer(l))]
  /\ step' = [step EXCEPT ![l] = @ + 1]

\* The verification of the last layer, the wrapper's return.
Return(l) ==
  /\ step[l] = VerifyStep
  /\ Leave(l)
  /\ UNCHANGED <<hook, taken, inside, overlapped>>

WrapperFails(l) == InnerFails(l) \/ StepFails(l) \/ Return(l)

WrapperSteps(l) == ProveInner(l) \/ TakeHook(l) \/ Silence(l) \/ StepDone(l)

-----------------------------------------------------------------------------

\* The wrapper that is about to be verified covers each of the five circuits
\* exactly once, in their order.
CoversAll ==
  \A l \in WrapLots : step[l] = VerifyStep => layers[l][LastLayer] = Inner

\* The hook is the default one whenever no recursion_step runs, whatever steps
\* failed, unless two steps overlapped: then the thread that took the silent
\* hook of another may put it back for good.
HookRestored ==
  hook = "default" \/ overlapped \/ \E l \in WrapLots : inside[l]

-----------------------------------------------------------------------------
(* run_benchmark.                                                          *)

CONSTANTS
  LotSizes,      \* the sequence of lot sizes
  Seeds,         \* the number of seeds
  Circuits,      \* the sequence of circuits
  JobNumbers,    \* the numbers of workers that may be asked for
  Strict,        \* --strict-output
  MaxRuns        \* bound on the number of times the program is started

ASSUME RunnerAssumption ==
  /\ WrapLots = 1 .. Seeds
  /\ LotSizes \in Seq(Nat) /\ Circuits \in Seq(STRING)
  /\ JobNumbers \subseteq Nat /\ Seeds \in Nat /\ Strict \in BOOLEAN

VARIABLES
  recursion,  \* whether the feature "recursion" is built
  jobs,    \* --jobs
  exists,  \* whether the output file exists
  file,    \* the rows in it
  run,     \* how often the program was started
  status,  \* "idle", "grid", "write", "ok", "failed", "killed"
  size,    \* the index of the current lot size
  work,    \* for each seed its rows so far
  busy,    \* the seeds a worker is at
  unwritten  \* the rows of the current size that are not yet written

runnerVars == <<recursion, jobs, exists, file, run, status, size, work, busy, unwritten>>
benchVars == <<wrapperVars, runnerVars>>

NoWork == [seed \in 1 .. Seeds |-> <<>>]

RunnerInit ==
  /\ WrapperInit
  /\ recursion \in BOOLEAN /\ jobs = 0
  /\ exists = FALSE /\ file = <<>> /\ run = 0 /\ status = "idle" /\ size = 0
  /\ work = NoWork /\ busy = {} /\ unwritten = <<>>

GridOk(number) ==
  Seeds # 0 /\ LotSizes # <<>> /\ Circuits # <<>> /\ number # 0

\* Mutant: an existing file is appended to.
OpenAppends == TRUE

\* open_raw_output creates the file: one that exists is an error.
CreateNew == ~exists

Start ==
  /\ status \in {"idle", "ok", "failed", "killed"} /\ run < MaxRuns
  /\ run' = run + 1
  /\ jobs' \in JobNumbers
  /\ IF GridOk(jobs') /\ CreateNew
       THEN exists' = TRUE /\ status' = "grid" /\ size' = 1
       ELSE exists' = exists /\ status' = "failed" /\ size' = 0
  /\ UNCHANGED <<recursion, file>>
  /\ work' = NoWork /\ busy' = {} /\ unwritten' = <<>>
  /\ hook' = "default" /\ step' = [l \in WrapLots |-> 0]
  /\ taken' = [l \in WrapLots |-> "none"] /\ inside' = [l \in WrapLots |-> FALSE]
  /\ layers' = [l \in WrapLots |-> <<>>] /\ overlapped' = FALSE

\* A worker takes a seed: in order when there is one job.
Take(seed) ==
  /\ status = "grid" /\ Cardinality(busy) < jobs
  /\ seed \notin busy /\ work[seed] = <<>>
  /\ jobs = 1 => \A s \in 1 .. seed - 1 : work[s] # <<>>
  /\ busy' = busy \cup {seed}
  /\ UNCHANGED <<wrapperVars, recursion, jobs, exists, file, run, status, size, work, unwritten>>

MetricRow(seed, ok) ==
  [run |-> run, events |-> LotSizes[size], seed |-> seed,
   circuit |-> Circuits[Len(work[seed]) + 1], ok |-> ok]

\* A row is done; with the last one the worker is free again.
Done(seed, ok) ==
  /\ work' = [work EXCEPT ![seed] = Append(@, MetricRow(seed, ok))]
  /\ busy' = IF Len(work[seed]) + 1 = Len(Circuits) THEN busy \ {seed} ELSE busy
  /\ UNCHANGED <<recursion, jobs, exists, file, run, status, size, unwritten>>

AtCircuit(seed, circuits) ==
  /\ status = "grid" /\ seed \in busy
  /\ Circuits[Len(work[seed]) + 1] \in circuits

\* run_regular_row: a failed proof is a row, and a disabled circuit always is.
RegularRow(seed) ==
  /\ AtCircuit(seed, Range(Circuits) \ {"Wrapper"})
  /\ \E ok \in IF Circuits[Len(work[seed]) + 1] = "C1Legacy" THEN {FALSE} ELSE BOOLEAN :
       Done(seed, ok)
  /\ UNCHANGED wrapperVars

\* run_wrapper_row without the feature: an error row that says so.
BlockedRow(seed) ==
  /\ AtCircuit(seed, {"Wrapper"}) /\ ~recursion
  /\ Done(seed, FALSE)
  /\ UNCHANGED wrapperVars

WrapperRow(seed) ==
  /\ AtCircuit(seed, {"Wrapper"}) /\ recursion
  /\ \/ (Enter(seed) \/ WrapperSteps(seed)) /\ UNCHANGED runnerVars
     \/ WrapperFails(seed) /\ Done(seed, FALSE)
     \/ Return(seed) /\ Done(seed, TRUE)

\* The k-th row of a lot size: its seed, and the place of its circuit.
SeedAt(k) == (k - 1) \div Len(Circuits) + 1
PlaceAt(k) == ((k - 1) % Len(Circuits)) + 1

\* The sort of a seed's rows is stable: by the first position of the circuit in
\* the list, and in the order they were made where it is the same.
Position(row) == SelectInSeq(Circuits, LAMBDA c : c = row.circuit)
NotAfter(own, j, i) ==
  \/ Position(own[j]) < Position(own[i])
  \/ Position(own[j]) = Position(own[i]) /\ j <= i
Ranked(own, place) ==
  own[CHOOSE i \in DOMAIN own :
        Cardinality({j \in DOMAIN own : NotAfter(own, j, i)}) = place]

\* The rows by seed; those of a seed are sorted where several workers made them.
Sorted ==
  [k \in 1 .. Seeds * Len(Circuits) |->
     IF jobs = 1 THEN work[SeedAt(k)][PlaceAt(k)]
     ELSE Ranked(work[SeedAt(k)], PlaceAt(k))]

Gather ==
  /\ status = "grid" /\ busy = {} /\ \A seed \in 1 .. Seeds : work[seed] # <<>>
  /\ unwritten' = Sorted /\ status' = "write" /\ work' = NoWork
  /\ UNCHANGED <<wrapperVars, recursion, jobs, exists, file, run, size, busy>>

Write ==
  /\ status = "write" /\ unwritten # <<>>
  /\ file' = Append(file, Head(unwritten))
  /\ unwritten' = Tail(unwritten)
  /\ UNCHANGED <<wrapperVars, recursion, jobs, exists, run, status, size, work, busy>>

\* Mutant: only the failures of the last lot size decide.
FailuresOfLastSize ==
  \E i \in DOMAIN file : ~file[i].ok /\ file[i].events = Last(LotSizes)

\* The failures counted while the rows were written.
Failures == \E i \in DOMAIN file : ~file[i].ok

NextSize ==
  /\ status = "write" /\ unwritten = <<>>
  /\ IF size < Len(LotSizes)
       THEN size' = size + 1 /\ status' = "grid"
       ELSE size' = size /\ status' = IF Strict /\ Failures THEN "failed" ELSE "ok"
  /\ UNCHANGED <<wrapperVars, recursion, jobs, exists, file, run, work, busy, unwritten>>

Kill ==
  /\ status \in {"grid", "write"}
  /\ status' = "killed"
  /\ UNCHANGED <<wrapperVars, recursion, jobs, exists, file, run, size, work, busy, unwritten>>

RunnerNext ==
  \/ Start \/ Gather \/ Write \/ NextSize \/ Kill
  \/ \E seed \in 1 .. Seeds :
       Take(seed) \/ RegularRow(seed) \/ BlockedRow(seed) \/ WrapperRow(seed)

RunnerSpec == RunnerInit /\ [][RunnerNext]_benchVars

-----------------------------------------------------------------------------

\* The rows of the grid in the order of the loops: lot sizes, seeds, circuits.
RowsPerSize == Seeds * Len(Circuits)
Grid ==
  [i \in 1 .. Len(LotSizes) * RowsPerSize |->
     <<LotSizes[(i - 1) \div RowsPerSize + 1],
       SeedAt(((i - 1) % RowsPerSize) + 1), Circuits[PlaceAt(i)]>>]

\* Whatever order workers finish in, and however often the program is killed
\* and started, the file is the beginning of the grid, in order, every row from
\* one and the same run.
OnePrefixOfGrid ==
  /\ Len(file) <= Len(Grid)
  /\ \A i \in DOMAIN file :
       /\ Grid[i] = <<file[i].events, file[i].seed, file[i].circuit>>
       /\ file[i].run = file[1].run

\* A run that reports success has written the whole grid itself, with a strict
\* output not one failed row in it.
SuccessIsWhole ==
  status = "ok" =>
    /\ Len(file) = Len(Grid) /\ file[1].run = run
    /\ Strict => \A i \in DOMAIN file : file[i].ok

=============================================================================
