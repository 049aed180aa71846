------------------------- MODULE EventCollectorProps -------------------------
(***************************************************************************)
(* What the event collector promises its readers, over EventCollector.     *)
(***************************************************************************)
EXTENDS EventCollector

(* A slice lies inside its array.                                           *)
IsSlice(slice) ==
  /\ slice.array \in 1..Len(arrays) /\ slice.first \in Nat \ {0} /\ slice.len \in 0..MaxItems
  /\ slice.first + slice.len <= Len(arrays[slice.array]) + 1

(* Every variable has its type: arrays hold event numbers, slices lie in    *)
(* their arrays and readers do not run past theirs.                        *)
TypeOK ==
  /\ \A a \in 1..Len(arrays) : arrays[a] \in [1..Len(arrays[a]) -> 0..published]
  /\ published \in 0..MaxEvents
  /\ IsSlice(items)
  /\ \A r \in Reader : IsSlice(reading[r]) /\ Len(written[r]) <= reading[r].len

(* Items are the latest MaxItems events in the order in which they took the *)
(* lock: trimming and reallocation lose none of them and keep no older one. *)
KeepsLatest ==
  LET n == IF published < MaxItems THEN published ELSE MaxItems
  IN  Contents(items) = [i \in 1..n |-> published - n + i]

(* "Get a copy of the item array, should be conflict free": although Get    *)
(* shares the array, a reader encodes the items that were there when it     *)
(* asked, whatever is published while it encodes them.                      *)
ReadersUndisturbed ==
  \A r \in Reader : written[r] = SubSeq(snapshot[r], 1, Len(written[r]))

(* An item that a reader may still read is never written: publish and the   *)
(* unlocked reads do not race.                                              *)
SharedItemsFrozen ==
  [][\A r \in Reader : reading'[r] = reading[r] =>
       \A i \in 1..reading[r].len : Item(reading[r], i)' = Item(reading[r], i)]_vars
=============================================================================
