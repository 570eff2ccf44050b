# A TLA+ model of the kangaroo solver

The repository solves the elliptic curve discrete logarithm in an interval with
Pollard's kangaroos on GPUs.  Tame kangaroos start at known multiples of the
base point, wild ones at the public key (wild1) or its opposite (wild2); all
jump around the curve, report *distinguished points* (DPs), and when a tame and
a wild one report the same affine x the private key follows from the two
distances.  These modules model the parts of that program where an order of
events, a wrap-around, a rounding or a failure decides whether the key is found,
check them with TLC on small instances and prove the main invariants with TLAPS.

All source paths below are relative to the repository root.

## 1. Inventory

| Component | State | Operations | Hard behaviour | What makes it correct |
|---|---|---|---|---|
| DP table (`src/cpu/dp_table.rs`, `verify_key_with_base` in `src/crypto/mod.rs`) | hash map from 8 bytes of x to lists of `(x, dist, ktype)`, total and per-type counters | `insert_and_check` | signs and wrapped distances of meeting walks; same-type and unresolved collisions; hash collisions; the cap | no tame/wild meeting missed; one entry per x; counters right |
| GPU solver (`src/solver.rs`, `src/gpu/buffers.rs`) | two DP slots (buffer, counter, staging), current slot, pending submission, dispatch length | calibration, `step_collect`, `read_pending`, `flush_pending`, `step` | GPU and host run concurrently; resets go through the queue; overflow; failing polls; probes left behind | candidates delivered once and in order; nothing overwritten unread; operations counted as executed |
| Multi-GPU search (`src/lib.rs` 1359-1554) | workers, bounded channel, stop flag, operation count, DP table, outcome | worker loop, main loop, shutdown | blocked senders, dying workers, stop/drop/join order, limit against key | no point lost while listening; shutdown ends; outcome true |
| Single-GPU search (`src/lib.rs` 758-968) and DP file | solver, DP table, output file, operation count | loop of `step`, record writing, restart | failed verification, ignored write errors, no flush at the end, kills within a record | outcome true; what was checked is in the file |
| Pool bridge (`bridge/pool_bridge.py`) | file offset, connection, work, sequence number | connect, read, submit, receive, reconnect | half records, partial frames, broken connections, new work, restarts | records arrive once and in order; sequence numbers without gaps |
| Walk shaders (`src/shaders/kangaroo_jacobian.wgsl`, `normalize_dp.wgsl`, `src/gpu_crypto/shaders/curve.wgsl`) | per kangaroo: point, distance, type, cycle counter, repeat count, last jump | one jump, DP check, normalisation | reflections, cycles and escapes, infinity, dependence on Z | the distance names the point |
| CPU solver (`src/cpu/cpu_solver.rs`) | two kangaroos with cached affine points, two tables | `solve`, `bruteforce_fallback` | cache and distance of one moment; cycles through DPs; end of the range | tables name points; a meeting yields the key; no key skipped |
| Modular constraint (`src/modular.rs`) | transformed key, base, range | `ModConstraint::new`, `recover_key_from_j` | borrows and carries between limbs, rounding of start and width | every key of the class stays in range and is recovered |
| Start of a search (`run`, `resolve_params`, calibration and allocation in `src/lib.rs`) | arguments, budget, weights, cache file, solvers | from the arguments to the loop; restarts | floors and remainders; cache left by another version or a kill | range covered; starts unique; shares add up |
| Initialisation (`src/cpu/init.rs`) | starting points | `initialize_kangaroos`, `generate_jump_tables` | grid and jitter, negative offsets, offsets of several GPUs | distances name the start points |
| Devices (`src/gpu_crypto/context.rs`, selection in `src/lib.rs`) | adapter lists | enumeration, selection, opening | an index of one list used in another | what is opened is what was listed |
| Field arithmetic, affine shader, pipeline cache, CLI, providers, benchmark | - | - | none of interest here | - |

How they interact: `run` turns its arguments into a problem (`ModConstraint`), opens
devices, shares kangaroos out and creates the solvers; initialisation fills their GPU
buffers; a solver dispatches the walk shader and reads candidates back one dispatch
late; candidates become DPs after an exact check (`convert_candidates_to_dps`); the DPs
go straight into a DP table (`step`, single GPU), over a channel to the main thread's
table (multi GPU), and in the single-GPU loop also into a file that the pool bridge
reads.  With a modular constraint the solver works on `j` with `key = R + M*j` and the
search converts back.

The hazards of this code, each at its line, are in `PROJECT.json` ("hazards").

## 2. Modules

| Module | Models | Uses |
|---|---|---|
| `KangarooAlgebra` | candidate formulas, distance words, affine x | |
| `Problem` | range start, public key, form of a distinguished point | extends `KangarooAlgebra` |
| `DPTable` | `insert_and_check` | extends `Problem` |
| `GpuPipeline` | calibration, double-buffered readback and the GPU queue | |
| `Search` | what a solve loop promises | abstract specification |
| `MultiGpu` | worker threads, channel, main thread | instantiates `Search` |
| `DpFile`, `SingleGpu`, `PoolBridge`, `PoolMode` | the file; the single-GPU loop; the bridge; the three together | `PoolMode` instantiates `Search` |
| `Walk` | the walk shader on logarithms | extends `Problem` |
| `Herd` | walks, DP buffer and table | extends `Walk` and `DPTable` |
| `Curve` | the shader's curve formulas over a small field, and the group law | extends `KangarooAlgebra` |
| `JacobianWalk` | walk and normalize passes on Jacobian coordinates | extends `Curve`, instantiates `Walk` |
| `CurveHerd` | the passes of `JacobianWalk`, the exact check and the table | extends `JacobianWalk`, instantiates `DPTable` |
| `CpuSolver` | the CPU solver | extends `KangarooAlgebra` |
| `ModConstraint` | the transformed problem, limb by limb | extends `KangarooAlgebra` |
| `CpuSearch` | `run` with `--cpu`: constraint, solver, recovery | extends both |
| `Devices`, `Allocation`, `KangarooInit` | adapter lists and selection; budget and shares; starting points | operators; the last two extend `KangarooAlgebra` |
| `Launch` | `run` up to the loops, started again and again | extends these and `ModConstraint` |
| `*_proofs` | theorems and proofs (`Herd_proofs`: of `Walk`, `DPTable` and `Herd`) | extend their component |
| `MC*` | constants for TLC | |

### KangarooAlgebra and DPTable

The group has odd order `N`; a point is its logarithm, so verification of a key
is equality with the logarithm of the public key, and two points share an affine
x when they are equal or opposite.  Distances are words modulo `W` (2^256 in the
code), read both as they stand and as wrapped negatives, as
`distance_scalar_pair` does.  The inputs of `InsertAndCheck` are the `Genuine`
points: those a walk of the given type can report, at plus or minus its origin
(an odd number of reflections flips the sign) plus the distance it moved, up to
`Reach` in either direction.  The order of candidates and the order in which map
entries are created are left out: at most one candidate verifies.  `found` keeps
what the last call returned; the caller stops at the first key.  `received` is a
history variable.  The public key may be the point at infinity: with a modular
constraint whose residue is the key itself it is.  The early return for an unknown
type has no action, because no kangaroo has one.

### GpuPipeline

`queue` is the wgpu queue; `GpuStep` executes its head at any time.  The host is
a program counter: calibration submits probes of growing length on slot 0 and may
give up waiting for one, `StepCollect` submits a dispatch, `ReadCount` and
`ReadPayload` are the two blocking polls of `read_pending`, each followed by what
the code does before it blocks again, `ReadFails` is any of the `?` of the
readback.  A candidate is the rank at which the GPU stored it (0 for one of
calibration), so that order, loss, repetition and leaks are visible; candidates that
do not fit the buffer are never stored.  `normalize` selects whether the normalize
pass clears the counter before the exact check; if its pipeline could not be built
the walk pass appends behind the counter.

### MultiGpu and Search

`MultiGpu` uses the two components above by what they were shown to do:
`step_collect` returns the candidates of the batch before (`pending`), and the
table returns the key once it holds all points of a meeting (`Meetings`).
Workers and main thread interleave at every step: reading the stop flag, a
`step_collect`, a send, the drain, a receive, the limit check, setting the flag,
dropping the receiver, joining.  A step or the drain may fail and a worker may
panic.  One operation is one batch.  `Search` is the promise: points are checked
only after they were produced, nothing is checked after a meeting, the outcome
is "found" exactly when the checked points hold a meeting, and it is final.
The cap of the table is not part of this module: a search whose table is full
can miss meetings by design.

### SingleGpu, DpFile, PoolBridge and PoolMode

`SingleGpu` is the loop of `run_single_gpu_solver` with `KangarooSolver::step` taken
apart where it can fail or be killed: `StepCollect` counts the new dispatch and takes
the batch before, `StepInsert` puts its points into the table up to the first that
yields a key, `WriteRecord` and `WriteRest` append a record in one or two calls,
`Verdict` verifies a key and looks at the limit.  A record is two pieces (`DpFile`), so
that half a record is a state of the file.  Write errors are ignored, as in the code;
`torn` remembers that one cut a record short.  The process may be killed anywhere and
started again; it appends to the same file.

`PoolBridge` is `main()` of the bridge with `DPFileReader` and `PoolConnection`.  Work
assignments are numbers; a link is up, half open (connected, no work came), broken
(the peer is gone, the bridge does not know yet) or down.  `SubmitDps` sends one batch,
of which any number of submissions may reach the pool when the connection breaks;
`CheckHalfAFrame` is the time-out of `check_messages` in the middle of a frame, whose
first bytes are thrown away.  `received` is what the pool gets.

`PoolMode` runs both over the file they share and nothing else.

### Walk and Herd

`Walk` follows kangaroos on logarithms.  `Step` is one iteration of the shader's
loop: choose the jump (`JumpTaken`, `Choose`), take the even-y representative and
add the jump point (`Move`), update the counters (`Tally`), check for a
distinguished point.  The jump hash, the parity of Y and the low bits of X are
functions of the Jacobian coordinates, which differ between two representations of
one point; here they are any value.  The approximate check may or may not notice
a point; the host's exact check rejects every false alarm, so `reports` holds
exact points only, of which any may be missing.  `Look` is the check before the
first step of a dispatch and the exact one of the normalize pass; it may happen
between any two steps, which covers every `steps_per_call`.  An escape resets the
counters and does not set `last_jump`, as in the shader.  A kangaroo that reaches
the point at infinity is followed no further, and none starts there (`affine_to_gpu`
panics on it).  `path` is a history variable: the sign and the
exact distance of the way so far, and the last two points.

`Herd` lets the host take reports out of the buffer in any order and insert them
into the table, and is shown to implement `DPTable`: the assumption `Genuine` that
`DPTable` makes about its inputs is what the walks guarantee.

### Curve and JacobianWalk

`Curve` has `jac_add_affine`, `jac_double` and the normalisation line by line, and
`Points`, the multiples of the base point by the chord and tangent law, as the
reference.  `JacobianWalk` runs them dispatch by dispatch: the threads of the walk
pass look and step in any order, then either the host reads the buffer, or the
counter is cleared and the normalize pass runs.  Here the jump hash and the escape
hash are constants of the module, functions of what the shader hashes, and the
parity of Y and both distinguished point checks are computed from the coordinates.
Seen through `Log` it implements `Walk` (`ImplementsWalk`).  It stops when a kangaroo
meets the point at infinity, which has negligible probability on the real curve:
`jac_add_affine` returns (1, 1, 0) for P = -Q and has no case for it as P, so the
next addition gives (0, 0, 0), and the normalize pass makes (0, 0, 1) of both, which is
no point of the curve and passes the exact check.  So the chain is
`JacobianWalk` implements `Walk`, walks and table implement `DPTable`, and what is
shown of `DPTable` holds of the kangaroos the GPU runs.  The candidate buffer is
read before the next dispatch here; the overlap is `GpuPipeline`'s matter.

`CurveHerd` hands the candidates of `JacobianWalk` to `DPTable` one after the other, as
`step` does.  It serves the run `cross_wild`: a counterexample of one meeting has to be one
the shaders can produce, and `Walk`'s free choice of jump and parity, which is right for what holds
of every hash, would allow more.
`ways` is a history variable: for each distinguished point a kangaroo stood on its
report, and sign and distance of the way there, so that a property can say what a
meeting tells about the key and a trace shows it.

### CpuSolver, ModConstraint and CpuSearch

`CpuSolver` runs a tame and a wild kangaroo in turn.  `Step` is `step_kangaroo`: the
cached affine point chooses jump and sign, point and distance move, the counters decide
on an escape, and otherwise the new affine point is cached.  The table gets the point
and the distance from before the step.  The time may run out at each look at the clock.
A small range is searched key by key.  Unlike the shaders this solver computes affine
coordinates, so a step is a function of the point; the low bits of x and the parity of y
are constants of the module.

`ModConstraint` does the arithmetic of `src/modular.rs` limb by limb.  `CpuSearch`
composes the two: the solver's group is read to the base `M * G`, where the public key of
the transformed problem is `j`, and what it returns goes through `RecoverKey`.

### Launch and what it is made of

`Launch` starts the program with one set of arguments after another.  Each action is a
stretch of `run` up to the next thing that can fail: bounds and constraint, the choice of
devices, opening one context after another, budget, calibration GPU by GPU against the
cache, saving the cache, creating one solver after another.  The process may be killed at
any of them; what stays is the cache file, which may be old, new or cut short, and
which another version may read.  The kangaroos themselves are operators of `KangarooInit`
over the solvers' shares and offsets.  `Devices` models both enumerations, `enumerate_gpus`
over all backends and the one `GpuContext::new` makes of a single backend.  A probe is one step
that measures a weight or fails.

## 3. Runs

| Run | Bounds | Shows |
|---|---|---|
| `dp_table` | N = 7, W = 8, 2 entries, 2 hash keys, reach 4, every secret | no missed tame/wild meeting; one entry per x, exact counters, cap kept |
| `gpu_pipeline` | buffer 2, 2 lengths, up to 3 candidates per dispatch, 4 dispatches, with and without normalize pass | order, no overwrite, one dispatch behind, operations counted as run, delivery |
| `multi_gpu` | 2 workers, three batches, no limit or limit 3 | conservation, true "stopped", refinement of `Search`, termination, a meeting read back is reported |
| `limit_drain` | same, limit 2 | **violation**: points of counted operations are never checked |
| `walk` | N = 7, W = 8, a kangaroo of each type in turn, 3 jumps, escape after 3 steps or 2 equal X, reach 5 | distance names point, no fruitless pair |
| `herd` | a tame and a wild kangaroo of either type, or a wild one of each, 2 jumps, escape every step or second step, reach 2, buffer of 1 | refines `DPTable`; a tame/wild meeting yields the key, and so does one of two wild walks at one point with one sign |
| `jacobian_walk` | curve of order 31 over 43 elements, a tame and a wild kangaroo, 2 steps a dispatch, reach 20, buffer of 2, every secret, with and without the normalize pass | refines `Walk`; the pass reports every DP it leaves; merged walks stay merged |
| `cross_wild` | the same curve, a wild1 and a wild2 kangaroo from five offsets each, a quarter of the x distinguished, table of 4 | **violation**: the two come to opposite points with different signs, and the key is not found |
| `cpu_solver` | N = 61, limbs of base 4, 4 jumps, escape after 5 steps or 3 equal low bits, 3 range sizes, 5 starts, constraints with step up to 3, every key | tables name points, a meeting gives the key, escapes in time, fallback complete, key recovered, window holds the key |
| `launch` | N = 251, limbs of base 4, six machines of up to 4 adapters, some 770 argument sets for the first start and 8 for the second, 2 versions, 2 weights | unique starts, distances name starts, budget spent, weights measured, puzzle covered, listed device opened |
| `device_selection` | the argument sets with a choice of devices | **violation**: another device than the listed one is opened |
| `pool_mode` | 3 points in batches of up to 3, limit 2, 2 starts of the solver, 2 of the bridge, batches of up to 3 of which 2 can be packed, 2 attempts at first and 1 later, 2 assignments | file complete, records once and in order, sequence without gaps, refinement of `Search`, records are received |

The bounds are enough for these reasons.

* `dp_table`: seven is the smallest prime order with three affine x, so that two x share a
  hash key, one is alone, and the table of two entries fills up before all three are in;
  reach 4 passes N/2, so every point is reached from every origin by positive and by
  wrapped distances, and W = 8 is one more than the order as 2^256 is more than n.
* `gpu_pipeline`: four dispatches use each slot twice, three candidates overflow a
  buffer of two, and two lengths let calibration settle before, at and after a time-out.
* `multi_gpu`: two workers fill a channel of four while the main thread is elsewhere,
  each may die in each place, and three batches give an empty one, one with a false
  candidate, and the two halves of a meeting.
* `walk`, `herd`: a walk needs four steps to meet both escapes and go on, and a reach of 5
  lets a distance pass zero and N in both directions; a kangaroo does not look at the
  others, so one of each type in turn is enough, and `herd` needs two only for the meeting.
* `jacobian_walk`: order 31 has fifteen affine x, four of them distinguished, and walks of
  ten and more steps leave Z at many values, double, cancel and escape by either cause.
* `cross_wild`: from every secret the walks go on until they cancel out or end at their reach, so
  all four combinations of signs and points come up among the meetings.
* `cpu_solver`: order 61 has thirty affine x in four classes of DPs; walks go on until they
  meet or go round, which TLC explores to the end without a bound on steps.  Starts 15 and
  16 and steps up to 3 make the limbs borrow and carry, ranges of 2 and 8 keys are searched
  key by key and one of 32 is walked.
* `launch`: three kangaroos are the least a solver takes, 60 leave remainders; Farm has two
  equal GPUs, an integrated one and a renderer, Mixed and Legacy have devices listed on
  several backends; the second start meets the cache of the first with the same or another
  key.
* `pool_mode`: three points let a key be found in the middle of a batch, a batch be too
  large to pack, and a second process find what the first left; two assignments let new
  work come in between batches.

Deadlock is not checked where the system stops by itself: `dp_table` and `herd` end when the
key is found, walks (also in `cross_wild`) end at their reach, `launch` and `pool_mode` when there are no more starts.
The other modules have an explicit `Terminated` stutter.

**Fairness.** `GpuPipeline`: the GPU executes what is queued, a host whose awaited
work is done goes on, the caller goes on calling until it flushes.  Nothing fails
of necessity.  `MultiGpu`: weak fairness for the main thread and for each
worker's steps, justified by the operating system's scheduler and by
`GPU_POLL_TIMEOUT`, which bounds every GPU wait; strong fairness for `Send`,
because the main thread keeps taking batches out and the standard channel wakes
senders in turn, so a blocked one is not passed over for ever.  `PoolMode`: weak
fairness for the bridge's main loop, which never blocks without a time-out and sleeps half a
second a round; nothing is assumed of the solver, the network or the pool.

### Findings

1. *Cross-wild meetings* (`cross_wild`).  A wild1 walk ends at `s*k + d1`, a wild2 walk at
   `-r*k + d2`, each sign telling whether the way took the opposite point an odd number of
   times.  They have one affine x when the two are equal or opposite.  With equal signs and
   one point, `k = ±(d2 - d1)/2`, which `compute_candidate_keys_cross_wild` tries
   (`SameSignMeetingSolves` of `herd` shows that it is enough).  With different signs and opposite points,
   `k = ±(d1 + d2)/2`, which it does not.  (In the other two cases the key cancels out and the
   meeting tells nothing.)  The collision is then logged as spurious and dropped, although
   wild2 is started from the negated public key for these collisions and a test
   says that they "should resolve to a valid key".  The trace of the run is one on the
   curve: with k = 2 and order 31, wild1 at 2 + 3 = 5 with sign 1 and wild2 at
   2 - 7 = -5 with sign -1.  The search is not wrong, it only takes longer: two
   walks that merge from opposite points go on at one point with one sign, so that their next
   distinguished point tells the key; what is lost is a meeting at a distinguished point itself.
2. *Drain at the limit* (`limit_drain`).  The main thread drops the receiver before it
   joins, so at the operation limit neither the batches in the channel nor the drained ones
   are looked at, and the message says the key was not found within operations
   whose points were not all checked.
3. *Device index* (`device_selection`).  `run` hands an index into the list of all backends
   to `GpuContext::new`, which counts the adapters of one backend; `--benchmark` hands over
   the place among the *listed* adapters of the backend, where a duplicate name has been left
   out.  With several backends another device is opened, or none.

Read in the code while modelling it, with no run of its own:

* A comment (`kangaroo_jacobian.wgsl:125`) takes the Jacobian X for the jump index because it "just needs to be
  consistent".  Two kangaroos on one point take the same jump only if their Z agree, in practice when
  both stand normalized at the start of a dispatch; this is the form in which `MergedWalksStayMerged`
  states it.
* A comment (`kangaroo_jacobian.wgsl:101`) says of `is_distinguished_approx` "False negative rate is negligible for
  practical DP bit counts."  After a step Z is any element of the field and `X = x * Z^2` any multiple of x
  by a square, so a distinguished point is noticed about as often as any other point; `src/solver.rs:352`
  itself calls the check unreliable.  The normalize pass makes up for it where it exists.
* `bridge/README.md:32` says "The solver appends DPs atomically."  Write errors are ignored (`src/lib.rs:888`), so
  a write that fails half way leaves half a record and shifts all that follow.  The properties of
  `pool_mode` say what holds as long as no record was cut short (`torn`).
* After a failed readback in `step_collect` (`src/solver.rs:481`) the new dispatch is submitted but
  not recorded, so the drain that follows has nothing to read (`:523`).
* The doc comment of `initialize_kangaroos` (`src/cpu/init.rs:79`) gives the offset of GPU N as N times
  the number of kangaroos; with weighted shares `src/lib.rs` rightly uses a running sum
  (the mutant of `UniqueStarts` is the comment's rule).
* The bridge dies on a batch of more than 840 points, because the payload size is 16 bits
  wide, and on the second half of a frame that `check_messages` cut in two.  Restarted, it submits
  the file from the beginning again, with the work it is given then.
  With a socket left closed or half open after five attempts it goes on reading, and what it reads
  is dropped or sent to nobody.
* `--mode` and `--dp-output` are ignored with several GPUs and with `--cpu`, `--max-ops` with `--cpu`.

## 4. Proofs

Each proof module extends its component and TLAPS.  The assumptions are the named
`ASSUME`s on the constants and nothing else; TLC evaluates each of them in some run.
They say what the constants are (an odd group order and a larger word, four limbs to a word,
a jump or hash table that is total), and in `Launch` what a command line and a machine can
be (`Arguments`).  The installed provers do not know exponentiation: a one shifted
left is the recursive function `TwoTo`, whose laws are proved.

* `KangarooAlgebra_proofs`: congruence modulo `N` from Euclidean division, then
  `DistanceIsRead` (one of the two readings of a word is the distance),
  `SameAffineX` and `MeetingYieldsKey`: the equation of a meeting is solved for
  the key in each of the four sign cases, and the signs found are one of the
  eight formulas.  Then the arithmetic of `ModConstraint`: `SubU64Value`, `DivByU64Value` and
  `AddOneValue` show for every limb base that borrows, remainders and carries passed from limb to limb
  compute the difference, quotient and successor of the numbers the limbs stand for, the borrow
  beyond the last limb included, and `TransformedHolds` that start and width, each rounded in its own direction,
  leave every key of the class in the divided range.
* `MultiGpu_proofs`: `WorkerInv` says what a worker can hold where, `FromGpus`
  and `NothingDropped` together say where every point is, and `MainInv` records
  why the main thread left its loop.  From these follow `StoppedMeansAllChecked`
  and the step-wise refinement of `Search`.
* `Herd_proofs`, of the walks: `DistanceNamesPoint` alone is not inductive, because a word that
  has wrapped says nothing about the next one.  The strengthening says that
  `path` keeps the exact distance: the point is `sign * origin + walked` and the
  word is `walked` modulo `W`; with `walked` shorter than `W`, `DistanceIsRead`
  of the algebra gives the property.  For `NoFruitlessPair` the invariant ties
  `last_jump` to the jump of the last step that was no escape.
* `Herd_proofs`, of the table: the invariant of interest says something about pairs of
  *received* points, but a received point need not be stored.  The strengthening
  is `ReceivedIsStored`: at every received x there is a stored point, and as long
  as no key was returned it agrees in tameness with all that was received there.
  With `StoredGenuine` (so that `MeetingYieldsKey` applies to stored points),
  `InOwnBucket` and `OneEntryPerX` (so that a scan of one list without a match
  means the x is nowhere) it is inductive.  Counters need the finiteness of the
  set of stored points.
* `Herd_proofs`, of the composition: the reports of the walks' invariant are `Genuine`, so every
  step is a step of `DPTable` or leaves it alone (`Composition`), and
  `MeetingsAreSolved` says of walks and table together what `NoMeetingIsMissed` says of the table.
* `JacobianWalk_proofs`: the curve is assumed to be what secp256k1 is (`CurveAssumption`): every
  element of the field but zero has an inverse, the multiples of the base point
  are points of y^2 = x^3 + 7 other than those with y = 0 (the group has odd order), and the
  chord and tangent law adds them.  From there the formulas of the shader are congruences: `ChordFormula`
  and `DoubleFormula` are the polynomial identities behind `JacChord` and `JacDouble`, divided by powers
  of Z in `ChordSum` and `TangentSum`; `Comparisons` shows that the two products compared in
  `jac_add_affine` tell equal points and opposite ones from others; `SumRepresents` puts the cases together:
  what `jac_add_affine` returns stands for the sum of what its arguments stand for, whatever Z is.
  Besides types the inductive invariant says that a kangaroo at Z other than 0 is on the curve and, within
  a normalize pass, what each thread that is done leaves behind (`PassReports`: Z = 1, and a distinguished point is in the
  buffer or the buffer is full).  `NormalizePassReports` is its last part at the end of the pass.  For `ImplementsWalk` each action
  has a lemma: a step of a thread is a `Step` of `Walk` (`StepGives`, over `Chosen`, `Moved`, `Tallied`),
  a thread of the normalize pass is a `Look` at the same point in another representation, the switch between the passes
  is not seen, and the exact check turns a candidate into the report of a kangaroo or into nothing
  (`StoredAs`).  `MergedWalksStayMerged` needs that the even-y representatives of a point and its opposite at Z = 1
  are one triple (`EvenYAgrees`).
* `GpuPipeline_proofs`: `DeliveredInOrder` depends on what the GPU will have done when the
  host looks.  The invariant describes the queue: `QueueInv` says which commands can be in it
  and in which order for each place of the host, `NextInv` what the command at its head may
  assume, `HostInv` how slot, submissions and program counter belong together, `OrderInv`
  where the counters and staging buffers stand between a dispatch, the copy and the reset,
  and `DataInv` that the buffer not yet read holds the ranks from `Len(delivered) + 1` on.
  `DeliveredInOrder`, `NoOverwriteOfUnread`, `StepsAreCounted` and `OneDispatchBehind` follow, for
  every buffer size, number of lengths, dispatches and candidates.
* `CpuSearch_proofs`: `Paths` says that each kangaroo's distance leads from its origin to its
  point under some sign and that a cached point is the point, `Recorded` that what was seen
  and gave no key is in the table, `Counts` that the cycle counter is the number
  of steps since the last escape, `Tried` that every key before the candidate was looked at.
  `MeetingSolves` uses `MeetingYieldsKey` of the algebra in a form without signs.
  `KeyIsRecovered` is proved of the composition with `ModConstraint`: the search's initial state
  fixes `M * j = key - R` modulo the order, and whatever `solve` returns is that `j`.
  `WindowIsKept` adds the range: with `TransformedHolds`, `j` counted from the divided start is less than
  the divided range's size, and because the logarithm to the base `M * G` is unique (`LogIsUnique`) it is the
  solver's logarithm.
* `Launch_proofs`: lemmas first.  `AllocationIsWhole`: what the divisions of
  `AllocateWeightedKangaroos` leave over is less than one for each GPU (`LeftoversBounds`, from sums of
  quotients and remainders), places in the order of remainders are all different and all taken
  (`PlacesTaken`), so the leftovers go out one each and the shares add up.  `OffsetsDiffer`: with no
  more kangaroos than keys, the jitter keeps each in its own cell of the grid.  `StartNames`: a
  negative offset is read back through the two's complement.  Then the invariant `IInv`, of six
  parts: `Asked` (a launch that goes on has arguments that were accepted, and the problem made of them),
  `Opening` (contexts are of adapters, and there is one before a budget is made), `Known` (what a cache
  that this version trusts holds was measured by it, in memory and on disk), `Weighed`, `Budgeted` (the budget feeds every
  GPU and does not exceed the range), and `Built` (each herd begins where the one before ended, with the share it
  was allocated).  Of the six theorems `UniqueStarts` needs most of it: the herds cover
  the places from 0 to the budget (`HerdsCover`), and no two places are the same offset.
  `ListedIsOpened` has an invariant of its own, `Listing` (while devices are opened the list is the
  machine's, and what is still to be opened are indices of it), and lemmas about the two lists: the
  sort by rank is a permutation that never decreases (`SortedMembers`, from the lemmas about places), with
  one backend the hardware adapters come first in it, so that what `enumerate_gpus` lists is a beginning of
  what `try_backend` sorts (`ListIsFirst`), and a context gets the member with its index
  (`ContextIsListed`).  With several backends it is false, as the run `device_selection` shows.
* `PoolMode_proofs`: `Mark` is the last point that is neither in the pipeline nor waiting to be
  written.  `SolverInv` says that what waits are the points behind `Mark` in their order and that key and
  outcome are those of the table; `FileInv` that, unless a record was cut short, the file is
  whole records in the order of their points, none beyond `Mark` and none of this process missing up to it, with at
  most the record being written half there.  For the bridge, `SequenceInv` says that on a connection
  that is up `sequence` counts what the pool has of the current work, and `RecordsInv` that there is a place in
  the file (`ReadUpTo`) with everything received before it and everything held behind it; the order of what
  the pool gets is then the order of the file.

What is only model-checked: all liveness (`Terminates`, `ShutdownCompletes`, `MeetingIsReported`,
`StoredIsDelivered`, `RecordsAreReceived`), which is not in the prover's reach, `SameSignMeetingSolves`, and the
violations.  Every invariant of a passing run is the property of a theorem.

## 5. Not modelled

* `src/gpu_crypto/shaders/field.wgsl`: straight-line 256-bit limb code without state; TLC cannot enumerate
  its width, a narrower one has other carries, and `tests/cpu_vs_gpu.rs` compares it with k256.
* `src/shaders/kangaroo_affine.wgsl`: no pipeline compiles it.
* The CPU normalisation fallback of `src/solver.rs:541-640`: used only in the modes tame and
  wild without a normalize pipeline, where `step` ignores what was collected.  It reads through staging
  buffer 0, where a count may be waiting (listed as a hazard).
* The hash that fills the jump table (`generate_jump_tables`): a constant of `Walk` and `CpuSolver`, which are
  checked for any hash or a given one.
* A provider's puzzle without bounds, and a build without the provider: the search takes the provider's own
  `range_bits`, or ends with an error, and checks no bounds.  `Launch` has puzzles with bounds.
* Kangaroos that start at the point at infinity: `affine_to_gpu` panics, the program ends.
* Pipeline cache, wgpu resource creation, command line parsing, providers, benchmark, output: no state of the
  search depends on them.
