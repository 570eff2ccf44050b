-------------------------------- MODULE Devices --------------------------------
(***************************************************************************)
(* src/gpu_crypto/context.rs and the GPU selection of src/lib.rs: which    *)
(* adapters are listed, which of them --gpu selects, and which one a       *)
(* context is opened on.                                                   *)
(*                                                                         *)
(* An adapter is a way to a device through one backend: the same device    *)
(* (name) may be there several times.  A machine is the sequence of its    *)
(* adapters in the order wgpu enumerates them.                             *)
(***************************************************************************)
EXTENDS Integers, Sequences, FiniteSets, SequencesExt

CONSTANT Names \* names of adapters

Backends == {"Vulkan", "Metal", "Dx12", "Gl"}
AutoBackend == "Auto"
Kinds == {"Discrete", "Virtual", "Integrated", "Cpu", "Other"}

(* software: the adapter is of kind Cpu or its name is a software renderer's. *)
Adapter == [id : Nat, name : Names, kind : Kinds, backend : Backends, software : BOOLEAN]

IsSoftware(a) == a.kind = "Cpu" \/ a.software

NoDevice == 0

-----------------------------------------------------------------------------
DevicePriority(kind) ==
  CASE kind = "Discrete" -> 0 [] kind = "Virtual" -> 1 [] kind = "Integrated" -> 2
    [] kind = "Cpu" -> 3 [] OTHER -> 4

BackendPriority(backend) ==
  CASE backend = "Vulkan" -> 0 [] backend = "Metal" -> 1 [] backend = "Dx12" -> 2
    [] OTHER -> 3

FallbackOrder == <<"Vulkan", "Metal", "Dx12", "Gl">>

(* The order of both sorts: device type, then backend. *)
Rank(a) == 5 * DevicePriority(a.kind) + BackendPriority(a.backend)

(* The members of a finite set of numbers, the smallest first. *)
Ascending(S) ==
  [p \in 1 .. Cardinality(S) |-> CHOOSE x \in S : Cardinality({y \in S : y < x}) = p - 1]

(* retain, filter: the members at some places, in their order. *)
Only(seq, places) == [p \in 1 .. Cardinality(places) |-> seq[Ascending(places)[p]]]

(* sort_by_key: equals stay in their order. *)
SortedByRank(adapters) ==
  LET before(i) == {j \in DOMAIN adapters :
                      \/ Rank(adapters[j]) < Rank(adapters[i])
                      \/ Rank(adapters[j]) = Rank(adapters[i]) /\ j < i}
  IN [p \in DOMAIN adapters |->
        adapters[CHOOSE i \in DOMAIN adapters : Cardinality(before(i)) = p - 1]]

(* What wgpu enumerates for a backend; AutoBackend asks for all. *)
Visible(machine, backend) ==
  Only(machine, {i \in DOMAIN machine : backend \in {AutoBackend, machine[i].backend}})

IsHardware(a) == ~IsSoftware(a) /\ DevicePriority(a.kind) < 3

(* Hardware only, if there is any. *)
PreferHardware(adapters) ==
  LET hardware == {i \in DOMAIN adapters : IsHardware(adapters[i])}
  IN IF hardware = {} THEN adapters ELSE Only(adapters, hardware)

(* Of the adapters of one name those with its best backend. *)
BestBackendByName(adapters) ==
  Only(adapters, {i \in DOMAIN adapters : \A j \in DOMAIN adapters :
    adapters[j].name = adapters[i].name =>
      BackendPriority(adapters[i].backend) <= BackendPriority(adapters[j].backend)})

(* enumerate_visible_adapters, enumerate_gpus: position i of the list has index
   i - 1; empty when there is no adapter (an error in the code). *)
EnumerateGpus(machine, backend) ==
  BestBackendByName(PreferHardware(SortedByRank(Visible(machine, backend))))

(* GpuContext::new_from_global_index: the adapter's id. *)
NewFromGlobalIndex(machine, index, backend) ==
  LET list == EnumerateGpus(machine, backend)
  IN IF index < Len(list) THEN list[index + 1].id ELSE NoDevice

(* What try_backend chooses from. *)
Candidates(machine, backend, hardwareOnly) ==
  LET visible == Visible(machine, backend)
  IN Only(visible, {i \in DOMAIN visible : ~(hardwareOnly /\ IsSoftware(visible[i]))})

(* Mutant: in the order the backend enumerates its adapters. *)
TryBackendUnsorted(machine, index, backend, hardwareOnly) ==
  LET list == Candidates(machine, backend, hardwareOnly)
  IN IF index < Len(list) THEN list[index + 1].id ELSE NoDevice

TryBackend(machine, index, backend, hardwareOnly) ==
  LET list == SortedByRank(Candidates(machine, backend, hardwareOnly))
  IN IF index < Len(list) THEN list[index + 1].id ELSE NoDevice

(* The backends in turn, hardware first; the first that has the index. *)
NewWithFallback(machine, index) ==
  LET tries == [i \in 1 .. 2 * Len(FallbackOrder) |->
                  IF i <= Len(FallbackOrder)
                  THEN TryBackend(machine, index, FallbackOrder[i], TRUE)
                  ELSE TryBackend(machine, index, FallbackOrder[i - Len(FallbackOrder)], FALSE)]
      opened == Only(tries, {i \in DOMAIN tries : tries[i] # NoDevice})
  IN IF opened = << >> THEN NoDevice ELSE opened[1]

(* GpuContext::new *)
NewContext(machine, index, backend) ==
  IF backend = AutoBackend THEN NewWithFallback(machine, index)
                    ELSE TryBackend(machine, index, backend, FALSE)

-----------------------------------------------------------------------------
(* --gpu is "all" or a set of indices: the order and the repetitions in the text
   are gone after the sort and the dedup. *)
All == {-1} \* "all"; -1 is no index

ParseFails(gpuArg, count) ==
  \/ count = 0
  \/ gpuArg # All /\ (gpuArg = {} \/ \E i \in gpuArg : i >= count)

ParseGpuSelection(gpuArg, count) == IF gpuArg = All THEN 0 .. count - 1 ELSE gpuArg

UsesDirectDefaultGpuPath(gpuArg, includeIntegrated) ==
  ~includeIntegrated /\ gpuArg = {0}

(* "all" leaves integrated GPUs out if there is a discrete one. *)
FilterIntegrated(selected, list, gpuArg, includeIntegrated) ==
  IF \/ includeIntegrated
     \/ gpuArg # All
     \/ \A i \in selected : list[i + 1].kind # "Discrete"
  THEN selected
  ELSE {i \in selected : list[i + 1].kind # "Integrated"}

GpuWeight(kind) ==
  CASE kind = "Discrete" -> 8 [] kind = "Virtual" -> 3 [] kind = "Integrated" -> 2
    [] OTHER -> 1

(* resolve_backend_and_local_index, for --benchmark: the position among the
   listed devices of the same backend. *)
ResolveLocalIndex(list, index) ==
  Cardinality({i \in 0 .. index - 1 : list[i + 1].backend = list[index + 1].backend})
=============================================================================
