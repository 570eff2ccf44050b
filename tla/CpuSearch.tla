------------------------------- MODULE CpuSearch -------------------------------
(***************************************************************************)
(* run() with --cpu (src/lib.rs): the modular constraint turns the search  *)
(* into one for j, the CPU solver looks for j, and the key is recovered    *)
(* from it.  The solver's points are logarithms to its base point, so its  *)
(* public key is the j that the base point times j is.                     *)
(***************************************************************************)
EXTENDS CpuSolver, ModConstraint

CONSTANTS
  Constraints, \* pairs of --mod-step and --mod-start that fit the group
  RangeStarts  \* values of --start

VARIABLES
  key,   \* the private key
  step,  \* --mod-step
  first, \* --mod-start
  from,  \* --start
  bits   \* --range

arguments == <<key, step, first, from, bits>>
searchVars == <<vars, arguments>>

ASSUME ConstraintAssumption ==
  /\ Constraints \subseteq Limb \X Limb
  /\ \A c \in Constraints : ~Refused(c[1], c[2]) =>
       \A p \in Scalar : \E j \in Scalar : (c[1] * j) % N = p
  /\ RangeStarts \subseteq Word

(* The logarithm of a point to the base b. *)
LogTo(b, p) == CHOOSE j \in Scalar : (b * j) % N = p

(* The arguments become a problem for the solver; a constraint that is refused
   ends the program before. *)
SearchInit ==
  /\ key \in Scalar
  /\ \E c \in Constraints : ~Refused(c[1], c[2]) /\ step = c[1] /\ first = c[2]
  /\ from \in RangeStarts
  /\ bits \in RangeBits
  /\ LET problem == Transformed(step, first, key, Limbs(from), bits)
     IN /\ pubkey = LogTo(problem.base, problem.pubkey)
        /\ start = Value(problem.start) % N
        /\ rangeBits = problem.rangeBits
  /\ Begin

SearchNext == Next /\ UNCHANGED arguments

SearchSpec == SearchInit /\ [][SearchNext]_searchVars

-----------------------------------------------------------------------------
(* What the solver returns for the transformed problem is turned back into the
   private key itself, whatever the class of the key and of the constraint. *)
KeyIsRecovered == result # NoKey => RecoverKey(step, first, result) = key

(* No key is lost by the constraint: a key of the range and of the class has its j
   inside the range the solver is given, although the start is divided and rounded
   limb by limb and the size only halved as often as the step is sure to allow.
   (For ranges within the group.) *)
WindowHoldsKey ==
  /\ key \in from .. from + TwoTo[bits] - 1
  /\ from + TwoTo[bits] <= N
  /\ key % step = first
  => (pubkey - start) % N < TwoTo[rangeBits]
=============================================================================
