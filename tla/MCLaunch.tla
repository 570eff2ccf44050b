------------------------------- MODULE MCLaunch -------------------------------
(* Launch on machines with up to four adapters, words of four limbs of base 4. *)
EXTENDS Launch

A(id, name, kind, backend, software) ==
  [id |-> id, name |-> name, kind |-> kind, backend |-> backend, software |-> software]

Discrete(id, name, backend) == A(id, name, "Discrete", backend, FALSE)
Integrated(id, name, backend) == A(id, name, "Integrated", backend, FALSE)
Software(id, name, backend) == A(id, name, "Cpu", backend, TRUE)

(* One GPU; two alike beside an integrated one and a renderer; a pair of which one is
   there through one backend only; one beside two that are there through another
   backend only; nothing but renderers; none. *)
One == <<Discrete(1, "big", "Vulkan")>>
Farm == <<Software(4, "soft", "Vulkan"), Integrated(3, "small", "Vulkan"),
          Discrete(1, "big", "Vulkan"), Discrete(2, "big", "Vulkan")>>
Mixed == <<Integrated(2, "small", "Gl"), Discrete(3, "big", "Gl"),
           Discrete(1, "big", "Vulkan")>>
Legacy == <<Integrated(2, "small", "Gl"), Integrated(3, "slow", "Gl"),
            Discrete(1, "big", "Vulkan")>>
Soft == <<Software(2, "soft", "Gl"), Software(1, "slow", "Gl")>>

Base == [machine |-> One, gpu |-> {0}, integrated |-> FALSE, backend |-> AutoBackend,
         benchmark |-> FALSE, kangaroos |-> 7, dpBits |-> Nothing, mode |-> "both",
         target |-> NoTarget, start |-> 5, range |-> 4, step |-> 1, rest |-> 0, key |-> 9]

(* Ranges, constraints and herds on one GPU ... *)
Problems ==
  {[Base EXCEPT !.start = s, !.range = r, !.step = m, !.rest = q, !.kangaroos = k, !.mode = t,
                !.key = 40] :
     s \in {0, 17}, r \in {1, 3, 5}, m \in {0, 1, 3}, q \in 0 .. 2, k \in {2, 5, 11},
     t \in {"both", "tame", "wild"}}

Puzzles ==
  {[Base EXCEPT !.target = [first |-> 16, last |-> l], !.start = s, !.range = r, !.step = m,
                !.rest = q, !.key = 21] :
     l \in {16, 30, 31, 32}, s \in {Nothing, 15, 18}, r \in {Nothing, 3}, m \in {1, 2, 3},
     q \in 0 .. 1}

(* ... choices of devices, budgets and dp_bits ... *)
Farms ==
  {[Base EXCEPT !.machine = m, !.gpu = g, !.integrated = i, !.kangaroos = k, !.range = 5] :
     m \in {Farm, Mixed, Legacy, Soft, << >>}, g \in {All, {0, 1}, {2}, {}}, i \in BOOLEAN,
     k \in {Nothing, 5, 60}}

Benchmarks ==
  {[Base EXCEPT !.machine = m, !.gpu = {g}, !.benchmark = TRUE, !.integrated = i] :
     m \in {One, Farm, Mixed, Soft}, g \in 0 .. 2, i \in BOOLEAN}

(* ... and a second launch that meets the cache of the first, with the same or
   another dp_bits. *)
Again ==
  {[Base EXCEPT !.machine = m, !.gpu = All, !.kangaroos = k, !.dpBits = d, !.range = 5] :
     m \in {Farm, Mixed}, k \in {Nothing, 60}, d \in {Nothing, 3}}

MCInvocations == <<Problems \cup Puzzles \cup Farms \cup Benchmarks, Again>>

MCFarms == <<Farms>>

VersionSymmetry == Permutations(Versions)

MCHashSeed == [i \in Word |-> (i * 37 + 11) % 256]
MCOptimalKangaroos == [n \in Names |-> IF n = "big" THEN 9 ELSE 4]
=============================================================================
