------------------------------ MODULE E1Prover ------------------------------
(***************************************************************************)
(* prove_and_verify of the E1 benchmark for one lot and one circuit: the   *)
(* witness is built or refused, the constraints are checked row by row     *)
(* (a trace that violates one makes the prover panic, which is caught and  *)
(* reported as a failed proof), and only then is there a proof.            *)
(*                                                                         *)
(* A job may carry one of the tamperings that the tests of the circuits    *)
(* apply to a witness or to its public inputs.                             *)
(***************************************************************************)
EXTENDS GeofenceAir

CONSTANT Jobs  \* what is proved: see E1ProverAssumption

\* The tamperings the tests apply, per circuit.
Tampers == [C1 |-> {"polygon", "events"},
            C2 |-> {"root", "path", "index"},
            C3 |-> {},
            C4 |-> {"secret", "role", "commitment"},
            C5 |-> {"duplicate", "old root", "new root", "path", "index", "secret",
                    "state", "replay"}]

\* A lot of the wrong shape does not reach a prover: SimplePolygon::new refuses
\* the polygon, c2_path_witness any depth but 6 and 16.
ASSUME E1ProverAssumption ==
  \A j \in Jobs :
    /\ j.circuit \in DOMAIN Tampers
    /\ j.tamper \in {"none"} \cup Tampers[j.circuit]
    /\ j.circuit = "C1" => /\ j.lot.polygon \in Seq(Point) /\ SimplePolygon(j.lot.polygon)
                           /\ j.lot.events \in Seq([id : Int, point : Point])
    /\ j.circuit = "C2" => j.events \in Nat /\ j.seed \in Nat /\ j.depth \in Nat \ {0}
    /\ j.circuit = "C3" => /\ j.events \in Nat
                           /\ j.lot.readings \in Seq(Int) /\ j.lot.timestamps \in Seq(Int)
    /\ j.circuit = "C4" => j.lot.secret # Off(j.lot.secret) /\ j.lot.role # Off(j.lot.role)
    /\ j.circuit = "C5" => j.lot.secret # Off(j.lot.secret) /\ NullifierIndex[j.lot.id] \in Nat

VARIABLES
  job,    \* the circuit, the lot and the tampering
  phase,  \* "witness", "prove", then "proved" or "failed"
  trace,  \* the rows
  pis,    \* the public inputs
  next    \* the row that is checked next

proverVars == <<job, phase, trace, pis, next>>

ProverInit ==
  /\ job \in Jobs
  /\ phase = "witness" /\ trace = <<>> /\ pis = <<>> /\ next = 1

-----------------------------------------------------------------------------

HasWitness ==
  CASE job.circuit = "C1" -> C1Witness(job.lot)
    [] job.circuit = "C2" -> C2Witness(job.lot, job.events, job.depth)
    [] job.circuit = "C3" -> C3Witness(job.lot, job.events)
    [] job.circuit = "C4" -> TRUE
    [] job.circuit = "C5" -> C5Witness(job.lot, job.prior)

\* Which of the two commitments a test of C1 spoils.
SpoiltC1 ==
  LET own == C1Publics(job.lot)
  IN CASE job.tamper = "none" -> own
       [] job.tamper = "polygon" -> [own EXCEPT !.polygon = Append(@, PointAt(0, 0))]
       [] job.tamper = "events" -> [own EXCEPT !.events = Append(@, 0)]

TraceAndPublics ==
  CASE job.circuit = "C1" -> <<C1Trace(job.lot), SpoiltC1>>
    [] job.circuit = "C2" ->
         <<C2Trace(job.lot, job.seed, job.events, job.depth, job.tamper),
           C2Publics(job.lot, job.seed, job.events, job.depth, job.tamper)>>
    [] job.circuit = "C3" -> <<C3Trace(job.lot, job.events), C3Publics(job.events)>>
    [] job.circuit = "C4" -> <<C4Trace(job.lot, job.tamper), C4Publics(job.lot, job.tamper)>>
    [] job.circuit = "C5" ->
         <<[i \in 1 .. MinRows |-> C5Trace(job.lot, job.prior, job.tamper)],
           C5Publics(job.lot, job.prior, job.tamper)>>

BuildWitness ==
  /\ phase = "witness"
  /\ IF HasWitness
       THEN /\ LET built == TraceAndPublics IN trace' = built[1] /\ pis' = built[2]
            /\ phase' = "prove"
       ELSE /\ phase' = "failed"
            /\ UNCHANGED <<trace, pis>>
  /\ UNCHANGED <<job, next>>

\* The constraints of the circuit on one row, the first or a later one.
RowHolds(r, first) ==
  CASE job.circuit = "C1" -> C1EveryRow(r, pis) /\ (first => C1FirstRow(r, pis))
    [] job.circuit = "C2" -> first => C2FirstRow(r, pis)
    [] job.circuit = "C3" -> C3EveryRow(r, pis) /\ (first => C3FirstRow(r, pis))
    [] job.circuit = "C4" -> first => C4FirstRow(r, pis)
    [] job.circuit = "C5" -> C5EveryRow(r, pis)

TransitionHolds(r, n) ==
  CASE job.circuit = "C1" -> C1Transition(r, n)
    [] job.circuit = "C2" -> C2Transition(r, n, pis)
    [] job.circuit = "C3" -> C3Transition(r, n)
    [] OTHER -> TRUE

LastHolds(r) ==
  CASE job.circuit = "C1" -> C1LastRow(r, pis)
    [] job.circuit = "C2" -> C2LastRow(r)
    [] job.circuit = "C3" -> C3LastRow(r, pis)
    [] OTHER -> TRUE

Holds(i) ==
  /\ RowHolds(trace[i], i = 1)
  /\ IF i < Len(trace) THEN TransitionHolds(trace[i], trace[i + 1]) ELSE LastHolds(trace[i])

CheckRow ==
  /\ phase = "prove"
  /\ phase' = IF ~Holds(next) THEN "failed"
              ELSE IF next = Len(trace) THEN "proved" ELSE "prove"
  /\ next' = next + 1
  /\ UNCHANGED <<job, trace, pis>>

ProverNext == BuildWitness \/ CheckRow

ProverSpec == ProverInit /\ [][ProverNext]_proverVars

-----------------------------------------------------------------------------

\* Every point of the lot is strictly outside its polygon, by the rule the
\* policy uses.
AllOutside(lot) ==
  \A i \in DOMAIN lot.events : StrictlyOutside(lot.polygon, lot.events[i].point)

\* What a proof of the circuit says, without its trace.
Statement ==
  /\ job.tamper = "none"
  /\ CASE job.circuit = "C1" ->
            /\ Len(job.lot.events) \in MinLotEvents .. MaxLotEvents
            /\ \A i \in DOMAIN job.lot.events : InBounds(job.lot.events[i].point)
            /\ AllOutside(job.lot)
       [] job.circuit = "C2" ->
            job.events \in 1 .. TwoTo[job.depth] /\ Len(job.lot.facts) >= job.events
       [] job.circuit = "C3" ->
            /\ job.events > 0
            /\ Len(job.lot.readings) >= job.events /\ Len(job.lot.timestamps) >= job.events
            /\ \A i \in 1 .. job.events :
                 /\ job.lot.readings[i] \in 0 .. Threshold
                 /\ i > 1 => job.lot.timestamps[i] - job.lot.timestamps[i - 1]
                               \in 1 .. TwoTo[RangeBits]
       [] job.circuit = "C4" -> TRUE
       [] job.circuit = "C5" -> C5Index(job.lot) \notin {C5Index(q) : q \in job.prior}

\* A point at the height of an edge that runs along a parallel, or of the
\* polygon's last vertex, whose copies pad the polygon.
LevelWithEdge(vs, p) ==
  \/ Len(vs) < MaxVertices /\ p.lat = vs[Len(vs)].lat
  \/ \E i \in 1 .. Len(vs) : p.lat = vs[i].lat /\ p.lat = After(vs, i).lat

Level == \E i \in DOMAIN job.lot.events :
           LevelWithEdge(job.lot.polygon, job.lot.events[i].point)

\* No lot with a point inside its polygon or on it, no reading or time out of
\* range, no wrong path, secret, root or index, and no nullifier that is in use
\* has a proof, whatever the padding of the trace.
NoFalseProof == phase = "proved" => Statement

\* Every true statement is proved, of every length a trace can have, but for
\* points level with an edge in C1.
TrueIsProved ==
  phase = "failed" => ~Statement \/ (job.circuit = "C1" /\ Level)

\* What the note of the C1 template promises: a lot is proved when every point
\* is strictly outside the polygon (templates.rs:275).
EveryOutsideLotProved ==
  phase = "failed" /\ job.circuit = "C1" => ~Statement

=============================================================================
