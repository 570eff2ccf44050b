-------------------------------- MODULE Launch --------------------------------
(***************************************************************************)
(* run() of src/lib.rs from its arguments to the start of a GPU search:    *)
(* puzzle bounds, modular constraint, choice of devices, kangaroo budget,  *)
(* calibration of the GPUs' weights with its cache on disk, allocation,    *)
(* and the creation of one solver after the other.  The program is started *)
(* again and again, also by another version of itself, and may be killed   *)
(* at any step; the cache file is what stays.                              *)
(***************************************************************************)
EXTENDS Devices, Allocation, KangarooInit, ModConstraint

CONSTANTS
  Invocations,      \* what the program may be started with the first time, the second ...
  Versions,         \* versions of the program that share a cache
  MeasuredWeights,  \* weights a probe may measure
  AutoCap,          \* recommended_auto_kangaroos: the cap for small ranges (32768) ...
  AutoBits,         \* ... and the largest such range (40)
  OptimalKangaroos, \* optimal_kangaroos of an adapter, by name
  DefaultRangeBits, \* range_bits when nothing tells (32)
  DpMin, DpMax,     \* bounds of dp_bits (8 and 40)
  ProbeCap          \* largest herd of a probe (131072)

Nothing == -1  \* an option that was not given
NoTarget == [first |-> 0, last |-> -1]

(* The machine and what a command line may ask for; adapters have ids of their own
   kind, none of them NoDevice. *)
Arguments ==
  [machine : Seq({a \in Adapter : a.id # NoDevice}), gpu : {All} \cup SUBSET Nat,
   integrated : BOOLEAN, backend : Backends \cup {AutoBackend}, benchmark : BOOLEAN,
   kangaroos : Nat \cup {Nothing}, dpBits : Nat \cup {Nothing}, mode : {"both", "tame", "wild"},
   target : {NoTarget} \cup [first : Word, last : Word], start : Word \cup {Nothing},
   range : Nat \cup {Nothing}, step : Limb, rest : Limb, key : Nat]

ASSUME InvocationsAssumption == Invocations \in Seq(SUBSET Arguments)

ASSUME LaunchAssumption ==
  /\ MeasuredWeights \subseteq Nat
  /\ OptimalKangaroos \in [Names -> Nat]
  /\ AutoCap \in Nat /\ AutoBits \in Nat /\ DefaultRangeBits \in Nat
  /\ DpMin \in Nat /\ DpMax \in Nat /\ ProbeCap \in Nat

(* Bound: how often the program is started. *)
MaxLaunches == Len(Invocations)

VARIABLES
  pc,        \* where run() is; "off": not running
  args,      \* this launch's arguments
  version,   \* this launch's version
  problem,   \* what the solvers will be set to solve
  devices,   \* enumerate_gpus
  selected,  \* gpu_indices still to be opened, in order
  contexts,  \* gpu_contexts
  total,     \* total_k
  cache,     \* the calibration cache in memory, and whether it is dirty
  weights,   \* calibrated_weights
  solvers,   \* solvers
  file,      \* gpu-calibration.json
  launches,  \* how often the program has been started
  measured   \* history: what each version's probes have measured

vars == <<pc, args, version, problem, devices, selected, contexts, total, cache,
          weights, solvers, file, launches, measured>>
disk == <<file, launches, measured>>
setup == <<args, version, problem>>

NoProblem == [base |-> 1, pubkey |-> 0, start |-> 0, rangeBits |-> 0]
NoArgs == [machine |-> << >>]
NoVersion == 0
NoCache == [version |-> NoVersion, entries |-> << >>]
NotLoaded == [entries |-> << >>, dirty |-> FALSE]
Torn == [version |-> -1, entries |-> << >>] \* a file that does not parse

-----------------------------------------------------------------------------
(* resolve_params *)

StartOf(a) ==
  IF a.start # Nothing THEN a.start
  ELSE IF a.target # NoTarget THEN a.target.first ELSE 0

(* BigUint::bits *)
BitsOf(n) == CHOOSE b \in 0 .. n : n < TwoTo[b] /\ \A c \in 0 .. b - 1 : n >= TwoTo[c]

(* Mutant: the place of the size's highest bit instead of the number of its bits. *)
RangeBitsTooFew(a) ==
  IF a.range # Nothing THEN a.range
  ELSE IF a.target = NoTarget THEN DefaultRangeBits
  ELSE BitsOf(a.target.last - StartOf(a) + 1) - 1

(* --range, or the bits of the number of keys from the start to the puzzle's end,
   or 32.  (Targets have both bounds, as the provider's puzzles do; for one without,
   and in a build without the provider, the provider's own range_bits would be taken
   and OutOfBounds would not apply.) *)
RangeBitsOf(a) ==
  IF a.range # Nothing THEN a.range
  ELSE IF a.target = NoTarget THEN DefaultRangeBits
  ELSE BitsOf(a.target.last - StartOf(a) + 1)

(* A start outside the puzzle, or a range that leaves it. *)
OutOfBounds(a) ==
  /\ a.target # NoTarget
  /\ \/ StartOf(a) < a.target.first
     \/ a.range = Nothing /\ StartOf(a) > a.target.last
     \/ a.range # Nothing /\ StartOf(a) + TwoTo[a.range] - 1 > a.target.last

Problem(a) ==
  LET p == Transformed(a.step, a.rest, a.key % N,
                                  Limbs(StartOf(a)), RangeBitsOf(a))
  IN [p EXCEPT !.start = Value(@)]

-----------------------------------------------------------------------------
(* The kangaroo budget and dp_bits. *)

Minimum(S) == CHOOSE m \in S : \A n \in S : m <= n
Clamp(v, low, high) == IF v < low THEN low ELSE IF v > high THEN high ELSE v

(* recommended_auto_kangaroos *)
Recommended(adapter, rangeBits) ==
  IF rangeBits <= AutoBits THEN Minimum({OptimalKangaroos[adapter.name], AutoCap})
                           ELSE OptimalKangaroos[adapter.name]

Requested(a, opened, rangeBits) ==
  IF a.kangaroos # Nothing THEN a.kangaroos
  ELSE TotalOf([i \in DOMAIN opened |-> Recommended(opened[i].adapter, rangeBits)])

DpBits(a, count, rangeBits) ==
  Clamp(IF a.dpBits # Nothing THEN a.dpBits
        ELSE rangeBits \div 2 - (FloorLog2(count) \div 2)
               - (IF rangeBits <= AutoBits THEN 2 ELSE 0),
        DpMin, DpMax)

-----------------------------------------------------------------------------
(* The calibration cache. *)

(* load_calibration_cache: nothing from a file that does not parse or that another
   version wrote. *)
LoadCalibrationCache == IF file.version = version THEN file.entries ELSE NoCache.entries

(* HashMap::insert *)
With(entries, key, weight) ==
  [k \in DOMAIN entries \cup {key} |-> IF k = key THEN weight ELSE entries[k]]

CacheKey(context) ==
  [name |-> context.adapter.name, backend |-> context.adapter.backend,
   dpBits |-> DpBits(args, total, problem.rangeBits),
   probe |-> Clamp(total \div Len(contexts), 3, ProbeCap)]

(* What the file may hold after save_calibration_cache, which ignores errors. *)
Saved == {[version |-> version, entries |-> cache.entries], Torn, file}

-----------------------------------------------------------------------------
(* What a process keeps in memory is gone with it. *)
NoProcess ==
  /\ pc' = "off"
  /\ args' = NoArgs
  /\ version' = NoVersion
  /\ problem' = NoProblem
  /\ devices' = << >>
  /\ selected' = << >>
  /\ contexts' = << >>
  /\ total' = 0
  /\ cache' = NotLoaded
  /\ weights' = << >>
  /\ solvers' = << >>

Exit == NoProcess /\ UNCHANGED disk

(* The program is started, reads its arguments and sets up the problem. *)
Start ==
  /\ pc = "off"
  /\ launches < MaxLaunches
  /\ launches' = launches + 1
  /\ \E a \in Invocations[launches'], v \in Versions :
       IF ~a.benchmark /\ (OutOfBounds(a) \/ Refused(a.step, a.rest))
       THEN NoProcess
       ELSE /\ pc' = "select"
            /\ args' = a
            /\ version' = v
            /\ problem' = IF a.benchmark THEN NoProblem ELSE Problem(a)
            /\ UNCHANGED <<devices, selected, contexts, total, cache, weights, solvers>>
  /\ UNCHANGED <<file, measured>>

Context(index, adapter, id) == [index |-> index, adapter |-> adapter, id |-> id]

(* The contexts that an adapter's id may lead to; NoDevice is nobody's. *)
Opened(index, id) ==
  {<<Context(index, args.machine[i], id)>> :
     i \in {j \in DOMAIN args.machine : args.machine[j].id = id}}

(* --gpu 0: the first listed device, without another enumeration. *)
OpenDefault ==
  /\ pc = "select"
  /\ UsesDirectDefaultGpuPath(args.gpu, args.integrated)
  /\ \/ Exit
     \/ /\ contexts' \in Opened(0, NewFromGlobalIndex(args.machine, 0, args.backend))
        /\ devices' = EnumerateGpus(args.machine, args.backend)
        /\ pc' = IF args.benchmark THEN "benchmark" ELSE "single"
        /\ UNCHANGED <<setup, selected, total, cache, weights, solvers, disk>>

(* The indices of the selected devices; one is opened for a single-GPU search, and
   a benchmark takes only one. *)
Select ==
  /\ pc = "select"
  /\ ~UsesDirectDefaultGpuPath(args.gpu, args.integrated)
  /\ LET list == EnumerateGpus(args.machine, args.backend)
         indices == Ascending(FilterIntegrated(ParseGpuSelection(args.gpu, Len(list)), list,
                                               args.gpu, args.integrated))
     IN IF ParseFails(args.gpu, Len(list)) \/ (args.benchmark /\ Len(indices) > 1)
        THEN Exit
        ELSE /\ devices' = list
             /\ selected' = indices
             /\ pc' = IF args.benchmark THEN "benchmark"
                      ELSE IF Len(indices) = 1 THEN "openOne" ELSE "openAll"
             /\ UNCHANGED <<setup, contexts, total, cache, weights, solvers, disk>>

(* --benchmark of one listed device, found again by its place among the listed
   ones of its backend. *)
OpenForBenchmark ==
  /\ pc = "benchmark"
  /\ contexts = << >>
  /\ LET index == selected[1]
     IN \/ Exit
        \/ /\ contexts' \in Opened(index, NewContext(args.machine,
                                ResolveLocalIndex(devices, index), devices[index + 1].backend))
           /\ UNCHANGED <<pc, setup, devices, selected, total, cache, weights, solvers, disk>>

(* The only selected device, through the backend it is listed with. *)
OpenOne ==
  /\ pc = "openOne"
  /\ LET index == selected[1]
     IN \/ Exit
        \/ /\ contexts' \in Opened(index, NewContext(args.machine, index,
                                                      devices[index + 1].backend))
           /\ selected' = << >>
           /\ pc' = "single"
           /\ UNCHANGED <<setup, devices, total, cache, weights, solvers, disk>>

(* The next of several; one that cannot be opened is left out. *)
OpenNext ==
  /\ pc = "openAll"
  /\ selected # << >>
  /\ LET index == Head(selected)
         id == NewContext(args.machine, index, devices[index + 1].backend)
     IN \/ /\ \E context \in Opened(index, id) : contexts' = contexts \o context
           /\ selected' = Tail(selected)
           /\ pc' = IF selected' = << >> THEN "budget" ELSE pc
           /\ UNCHANGED <<setup, devices, total, cache, weights, solvers, disk>>
        \/ contexts = << >> /\ Tail(selected) = << >> /\ Exit
        \/ /\ contexts # << >> \/ Tail(selected) # << >>
           /\ selected' = Tail(selected)
           /\ pc' = IF selected' = << >> THEN "budget" ELSE pc
           /\ UNCHANGED <<setup, devices, contexts, total, cache, weights, solvers, disk>>

(* run_single_gpu_solver, up to its loop. *)
StartSingle ==
  /\ pc = "single"
  /\ \/ Exit
     \/ /\ total' = Capped(Requested(args, contexts, problem.rangeBits), problem.rangeBits)
        /\ ~RefusesHerd(total', problem.rangeBits)
        /\ solvers' = <<[gpu |-> contexts[1].id, first |-> 0, num |-> total',
                         mode |-> args.mode]>>
        /\ pc' = "search"
        /\ UNCHANGED <<setup, devices, selected, contexts, cache, weights, disk>>

(* The budget of several GPUs has to feed each. *)
Budget ==
  /\ pc = "budget"
  /\ LET requested == Capped(Requested(args, contexts, problem.rangeBits), problem.rangeBits)
     IN IF requested < MinPerGpu * Len(contexts)
        THEN Exit
        ELSE /\ total' = requested
             /\ pc' = "calibrate"
             /\ cache' = [entries |-> LoadCalibrationCache, dirty |-> FALSE]
             /\ UNCHANGED <<setup, devices, selected, contexts, weights, solvers, disk>>

(* Mutant: the weight that stands in for a failed probe is cached. *)
ProbeFailsIntoCache(context) ==
  /\ weights' = Append(weights, GpuWeight(context.adapter.kind))
  /\ cache' = [entries |-> With(cache.entries, CacheKey(context), GpuWeight(context.adapter.kind)),
               dirty |-> TRUE]
  /\ UNCHANGED measured

(* A probe that fails at any point leaves no trace but the weight by type. *)
ProbeFails(context) ==
  /\ weights' = Append(weights, GpuWeight(context.adapter.kind))
  /\ UNCHANGED <<cache, measured>>

ProbeSucceeds(context, weight) ==
  /\ weights' = Append(weights, weight)
  /\ cache' = [entries |-> With(cache.entries, CacheKey(context), weight), dirty |-> TRUE]
  /\ measured' = measured \cup {<<version, CacheKey(context), weight>>}

(* auto_calibrate_gpu_weights, one GPU. *)
Calibrate ==
  /\ pc = "calibrate"
  /\ Len(weights) < Len(contexts)
  /\ LET context == contexts[Len(weights) + 1]
     IN IF CacheKey(context) \in DOMAIN cache.entries
        THEN /\ weights' = Append(weights, cache.entries[CacheKey(context)])
             /\ UNCHANGED <<cache, measured>>
        ELSE \/ ProbeFails(context)
             \/ \E weight \in MeasuredWeights : ProbeSucceeds(context, weight)
  /\ UNCHANGED <<pc, setup, devices, selected, contexts, total, solvers, file, launches>>

SaveCalibrationCache ==
  /\ pc = "calibrate"
  /\ Len(weights) = Len(contexts)
  /\ file' \in IF cache.dirty THEN Saved ELSE {file}
  /\ pc' = "build"
  /\ UNCHANGED <<setup, devices, selected, contexts, total, cache, weights, solvers,
                 launches, measured>>

(* Mutant: the offset the doc comment of initialize_kangaroos gives, N * num. *)
OffsetByPosition(num) == Len(solvers) * num

(* kangaroo_offset: the herds of the GPUs follow one another. *)
KangarooOffset(num) ==
  IF solvers = << >> THEN 0 ELSE Last(solvers).first + Last(solvers).num

(* The next solver; one that cannot be created ends the program. *)
Build ==
  /\ pc = "build"
  /\ LET num == AllocateWeightedKangaroos(total, weights)[Len(solvers) + 1]
     IN \/ Exit
        \/ /\ ~RefusesHerd(num, problem.rangeBits)
           /\ solvers' = Append(solvers, [gpu |-> contexts[Len(solvers) + 1].id,
                                          first |-> KangarooOffset(num), num |-> num,
                                          mode |-> "both"])
           /\ pc' = IF Len(solvers') = Len(contexts) THEN "search" ELSE "build"
           /\ UNCHANGED <<setup, devices, selected, contexts, total, cache, weights, disk>>

(* The search or the benchmark ends, or the program is killed: also while it writes
   the cache. *)
Stop ==
  /\ pc # "off"
  /\ file' \in IF pc = "calibrate" /\ Len(weights) = Len(contexts) /\ cache.dirty
               THEN Saved ELSE {file}
  /\ NoProcess
  /\ UNCHANGED <<launches, measured>>

Init ==
  /\ pc = "off"
  /\ args = NoArgs
  /\ version = NoVersion
  /\ problem = NoProblem
  /\ devices = << >>
  /\ selected = << >>
  /\ contexts = << >>
  /\ total = 0
  /\ cache = NotLoaded
  /\ weights = << >>
  /\ solvers = << >>
  /\ file = NoCache
  /\ launches = 0
  /\ measured = {}

Next ==
  \/ Start \/ OpenDefault \/ Select \/ OpenForBenchmark \/ OpenOne \/ OpenNext
  \/ StartSingle \/ Budget \/ Calibrate \/ SaveCalibrationCache \/ Build \/ Stop

Spec == Init /\ [][Next]_vars

-----------------------------------------------------------------------------
Searching == pc = "search"

(* No two kangaroos of a search start at the same place of the range, whatever share
   of them each GPU has: the grid is laid for all of them and the herds follow one
   another ("multiple GPU workers get unique positions").  (Of a range with room for
   all.) *)
UniqueStarts ==
  Searching /\ total <= TwoTo[problem.rangeBits] =>
    Cardinality(UNION {{Offset(problem.rangeBits, solvers[s].first + i, total) :
                          i \in 0 .. solvers[s].num - 1} : s \in DOMAIN solvers}) = total

(* Every kangaroo's distance, read one of the two ways the table reads it, leads from
   the origin of its type to its point, on the base point of the search. *)
StartsNamePoints ==
  Searching /\ problem.start + TwoTo[problem.rangeBits] <= W =>
    \A s \in DOMAIN solvers : \A i \in 0 .. solvers[s].num - 1 :
      LET k == Kangaroo(problem, solvers[s].mode, i, solvers[s].num, solvers[s].first, total)
      IN \E d \in DistanceScalarPair(k.dist) :
           k.log = (OriginOf(k.ktype, problem.base * problem.start, problem.pubkey)
                      + problem.base * d) % N

(* The GPUs' shares add up to the budget, each enough for a kangaroo of every type,
   so that any one GPU could finish the search alone. *)
BudgetIsSpent ==
  Searching =>
    /\ TotalOf([s \in DOMAIN solvers |-> solvers[s].num]) = total
    /\ \A s \in DOMAIN solvers : solvers[s].mode = "both" =>
         {KTypeOf("both", i, solvers[s].num) : i \in 0 .. solvers[s].num - 1} = KType

(* Kangaroos are shared out by what this version has measured of a GPU of this name,
   backend, dp_bits and herd size, or by the type of the GPU; never by a probe that
   failed earlier, another version's or a file cut short. *)
WeightsAreMeasured ==
  /\ \A key \in DOMAIN file.entries : <<file.version, key, file.entries[key]>> \in measured
  /\ pc = "calibrate" => \A i \in DOMAIN weights :
       \/ weights[i] = GpuWeight(contexts[i].adapter.kind)
       \/ <<version, CacheKey(contexts[i]), weights[i]>> \in measured

(* A search started for a puzzle without --range holds every key from the start to
   the puzzle's end that the constraint allows, also after start and size have been
   divided by the step. *)
PuzzleIsCovered ==
  pc # "off" /\ ~args.benchmark /\ args.target # NoTarget /\ args.range = Nothing =>
    \A k \in StartOf(args) .. args.target.last :
      k % args.step = args.rest =>
        (k - args.rest) \div args.step
          \in problem.start .. problem.start + TwoTo[problem.rangeBits] - 1

(* Each context is of the device that the list shows under its index ("Use the specific
   backend from enumeration to ensure index consistency"). *)
OpenedIsListed ==
  \A i \in DOMAIN contexts : contexts[i].id = devices[contexts[i].index + 1].id

(* All adapters are of one backend, and none is a software renderer that says it is a
   GPU. *)
OneBackend(machine) ==
  /\ \A i, j \in DOMAIN machine : machine[i].backend = machine[j].backend
  /\ \A i \in DOMAIN machine : machine[i].software => DevicePriority(machine[i].kind) >= 3

(* So it is on a machine of one backend, although the list is made once more for each
   context, by other code. *)
OpenedIsListedOnOneBackend == OneBackend(args.machine) => OpenedIsListed
=============================================================================
