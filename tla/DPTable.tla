------------------------------- MODULE DPTable -------------------------------
(***************************************************************************)
(* src/cpu/dp_table.rs: the table of distinguished points and the collision *)
(* check that ends the search.                                             *)
(*                                                                         *)
(* A key is the scalar k with k * base_point = pubkey; it is unique modulo *)
(* n, so verify_key_with_base is equality with the logarithm of pubkey.    *)
(***************************************************************************)
EXTENDS Problem, Sequences, FiniteSets

CONSTANTS
  MaxDistinguishedPoints, \* MAX_DISTINGUISHED_POINTS
  Buckets                 \* number of values of hash_key, the leading 8 bytes of affine_x

ASSUME DPTableAssumption ==
  /\ MaxDistinguishedPoints \in Nat
  /\ Buckets \in Nat \ {0}

VARIABLES
  table,    \* hash key -> list of stored DPs
  total,    \* total_dps
  count,    \* tame_count, wild1_count, wild2_count
  found,    \* what the last call returned: {} for None, {key} for Some(key)
  received  \* history: <<x, ktype>> of the DPs that were not turned away at the cap

tableVars == <<start, pubkey, table, total, count, found, received>>

Bucket == 0 .. Buckets - 1
HashKey(x) == x % Buckets

-----------------------------------------------------------------------------
(* The DPs a kangaroo can report.  It has moved from its origin by `walked` in
   all, and `sign` tells whether an odd number of its steps took the opposite
   point.  (Module Walk shows that the walk shader's reports are of this form.) *)
Origin(ktype) == OriginOf(ktype, start, pubkey)

Position(ktype, sign, walked) == (sign * Origin(ktype) + walked) % N

Reports(dp, sign, walked) ==
  /\ dp.dist = walked % W
  /\ Position(dp.ktype, sign, walked) # 0
  /\ dp.x = AffineX(Position(dp.ktype, sign, walked))

Genuine(dp) == \E sign \in Sign, walked \in -Reach .. Reach : Reports(dp, sign, walked)

-----------------------------------------------------------------------------
(* Mutant: entries of the DP's own type are skipped instead of ending the scan. *)
OtherTypeMatch(list, dp) ==
  {i \in DOMAIN list : /\ list[i].x = dp.x /\ list[i].ktype # dp.ktype
                       /\ \A j \in 1 .. i - 1 : list[j].x # dp.x \/ list[j].ktype = dp.ktype}

(* Index, in a bucket's list, of the one entry the scan of the list acts on:
   the first whose affine x is equal; every way through the loop body past the
   comparison returns. *)
FirstMatch(list, dp) ==
  {i \in DOMAIN list : list[i].x = dp.x /\ \A j \in 1 .. i - 1 : list[j].x # dp.x}

Verifies(key) == key = pubkey

IsWild(dp) == dp.ktype # Tame

(* Distances of a tame and a wild DP, or of a wild1 and a wild2 DP, whichever
   of the two is the stored one. *)
Candidates(entry, dp) ==
  LET pair(type) == IF entry.ktype = type THEN <<entry.dist, dp.dist>>
                                                 ELSE <<dp.dist, entry.dist>>
  IN IF IsWild(entry) /\ IsWild(dp)
     THEN LET d == pair(Wild1) IN ComputeCandidateKeysCrossWild(d[1], d[2])
     ELSE LET d == pair(Tame) IN ComputeCandidateKeys(start, d[1], d[2])

(* What a call returns when an entry with the same affine x is stored: the key,
   or nothing for two walks of one type and for a spurious collision.  The DP
   is not stored in either case. *)
CheckCollision(entry, dp) ==
  IF entry.ktype = dp.ktype THEN {} ELSE {key \in Candidates(entry, dp) : Verifies(key)}

(* Mutant: the cap is checked one entry too late. *)
HasRoomOffByOne == total <= MaxDistinguishedPoints

HasRoom == total < MaxDistinguishedPoints

(* push or insert, with the two counters. *)
Store(dp) ==
  /\ total' = total + 1
  /\ table' = [table EXCEPT ![HashKey(dp.x)] = Append(@, dp)]
  /\ count' = [count EXCEPT ![dp.ktype] = @ + 1]

(* insert_and_check.  The caller stops at the first key.  (Only the three
   types of initialize_kangaroos ever reach the table, so the early return for
   an unknown type has no input to take it.) *)
InsertAndCheck(dp) ==
  /\ found = {}
  /\ LET match == FirstMatch(table[HashKey(dp.x)], dp)
     IN \/ \E i \in match :
             /\ received' = received \cup {<<dp.x, dp.ktype>>}
             /\ found' = CheckCollision(table[HashKey(dp.x)][i], dp)
             /\ UNCHANGED <<table, total, count>>
        \/ /\ match = {}
           /\ HasRoom
           /\ Store(dp)
           /\ received' = received \cup {<<dp.x, dp.ktype>>}
           /\ UNCHANGED found
        \/ /\ match = {}
           /\ ~HasRoom
           /\ UNCHANGED <<table, total, count, found, received>>
  /\ UNCHANGED <<start, pubkey>>

(* DPTable::new *)
TableInit ==
  /\ start \in StartScalars
  /\ pubkey \in Scalar
  /\ table = [b \in Bucket |-> << >>]
  /\ total = 0
  /\ count = [t \in KType |-> 0]
  /\ found = {}
  /\ received = {}

TableNext == \E dp \in DistinguishedPoint : InsertAndCheck(dp) /\ Genuine(dp)

TableSpec == TableInit /\ [][TableNext]_tableVars

-----------------------------------------------------------------------------
TableTypeOK ==
  /\ start \in Scalar
  /\ pubkey \in Scalar
  /\ table \in [Bucket -> Seq(DistinguishedPoint)]
  /\ total \in 0 .. MaxDistinguishedPoints
  /\ count \in [KType -> Nat]
  /\ found \in SUBSET Scalar
  /\ received \in SUBSET (XCoord \X KType)

Entries(b) == {table[b][i] : i \in DOMAIN table[b]}
Stored == UNION {Entries(b) : b \in Bucket}

(* A key that insert_and_check returns is the key of the public key. *)
OnlyTheKey == found \subseteq {pubkey}

(* An affine x is stored once in the whole table, whatever hash keys it shares
   a list with and whatever walks reported it: the scan can stop at the first
   entry it finds. *)
OneEntryPerX ==
  \A b, c \in Bucket : \A i \in DOMAIN table[b], j \in DOMAIN table[c] :
    table[b][i].x = table[c][j].x => b = c /\ i = j

(* total_dps and the three type counters count the stored entries: no path of
   insert_and_check counts a DP it drops or stores one it does not count. *)
CountersMatchTable ==
  /\ total = count[Tame] + count[Wild1] + count[Wild2]
  /\ \A t \in KType : count[t] = Cardinality({e \in Stored : e.ktype = t})

(* The table stays consistent along any sequence of calls: one entry per affine
   x and a count for every entry, so the scan that stops at the first equal x
   sees every entry of that x, and the cap and the statistics are exact. *)
TableIsConsistent == OneEntryPerX /\ CountersMatchTable

(* The search cannot miss a tame kangaroo meeting a wild one: once a tame and a
   wild DP with one affine x were both received, in either order, with
   whatever signs and wrapped distances their walks reached the point, and with
   any number of same-type or unresolved wild collisions at that x between the
   two, the key has been returned. *)
TameWildMeetingSolves ==
  \A x \in XCoord, t \in {Wild1, Wild2} :
    {<<x, Tame>>, <<x, t>>} \subseteq received => found = {pubkey}
=============================================================================
