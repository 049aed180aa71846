--------------------------- MODULE EventCollector ---------------------------
(***************************************************************************)
(* service/collector.go: the latest MaxItems events, in a slice that        *)
(* publish appends to and trims under the lock.  Get hands out the slice    *)
(* itself, not a copy: WriteJSONStreamOnce reads its items without the lock *)
(* while later events are appended to the array behind it.                  *)
(*                                                                         *)
(* Item number n is the n-th event that took the lock; 0 is the zero Item.  *)
(***************************************************************************)
EXTENDS Naturals, Sequences

CONSTANTS Reader,     \* the goroutines that serve /v1/feed
          MaxItems,   \* Config.MaxItems
          MaxEvents,  \* bound on the events of a behaviour
          MaxGrowth   \* bound on the room that append adds to a full array

(* Config.ValidateValues *)
ASSUME MaxItemsAssumption == MaxItems \in Nat \ {0} /\ MaxEvents \in Nat

ASSUME GrowthAssumption == MaxGrowth \in Nat \ {0}

VARIABLES arrays,     \* the backing arrays that append has allocated so far
          items,      \* esc.Items: a slice of one of them
          published,  \* how many events were published
          reading,    \* the slice that each reader got
          written,    \* the items that each reader has encoded so far
          snapshot    \* the items in that slice when it got it (history)

vars == <<arrays, items, published, reading, written, snapshot>>

(* A slice is an array, the place of its first item in it, and a length.    *)
Slice(array, first, len) == [array |-> array, first |-> first, len |-> len]

Item(slice, i)  == arrays[slice.array][slice.first + i - 1]
Contents(slice) == [i \in 1..slice.len |-> Item(slice, i)]

Capacity(slice) == Len(arrays[slice.array]) - slice.first + 1

-----------------------------------------------------------------------------
(* append writes behind the slice where its array has room, and otherwise   *)
(* copies to a new, larger array.  How much larger is up to Go (twice as    *)
(* large while it is small, a quarter more later, rounded up to a size      *)
(* class): any room there may be.                                           *)
AppendInPlace(item) ==
  {[arrays |-> [arrays EXCEPT ![items.array][items.first + items.len] = item],
    items  |-> [items EXCEPT !.len = @ + 1]]}

Copied(item, room) ==
  [i \in 1..room |-> IF i <= items.len THEN Item(items, i)
                     ELSE IF i = items.len + 1 THEN item ELSE 0]

AppendGrowing(item) ==
  {[arrays |-> Append(arrays, Copied(item, room)),
    items  |-> Slice(Len(arrays) + 1, 1, items.len + 1)] :
     room \in items.len + 1..items.len + MaxGrowth}

(* A mutant: the array is used as a ring, by moving its items down.         *)
AppendedToRing(item) ==
  IF items.len < MaxItems THEN AppendInPlace(item)
  ELSE {[arrays |-> [arrays EXCEPT ![items.array] = Append(Tail(@), item)],
         items  |-> items]}

Appended(item) ==
  IF items.len < Capacity(items) THEN AppendInPlace(item) ELSE AppendGrowing(item)

(* Mutants: one item too many is kept; the newest item is cut off.          *)
TrimLate(slice) ==
  IF slice.len > MaxItems + 1 THEN Slice(slice.array, slice.first + 1, slice.len - 1) ELSE slice

TrimNewest(slice) ==
  IF slice.len > MaxItems THEN Slice(slice.array, slice.first, slice.len - 1) ELSE slice

(* esc.Items = esc.Items[1:], once there are too many.                      *)
Trim(slice) ==
  IF slice.len > MaxItems THEN Slice(slice.array, slice.first + 1, slice.len - 1) ELSE slice

Finished(r) == Len(written[r]) = reading[r].len

(* A mutant: the lock is held while a feed request is written.              *)
PublishBetweenReads ==
  \E result \in Appended(published + 1) :
    /\ published < MaxEvents /\ \A r \in Reader : Finished(r)
    /\ arrays' = result.arrays
    /\ items' = Trim(result.items)
    /\ published' = published + 1
    /\ UNCHANGED <<reading, written, snapshot>>

publish ==
  \E result \in Appended(published + 1) :
    /\ published < MaxEvents
    /\ arrays' = result.arrays
    /\ items' = Trim(result.items)
    /\ published' = published + 1
    /\ UNCHANGED <<reading, written, snapshot>>
-----------------------------------------------------------------------------
(* Get, at the start of WriteJSONStreamOnce.                                *)
Get(r) ==
  /\ Finished(r)
  /\ reading' = [reading EXCEPT ![r] = items]
  /\ written' = [written EXCEPT ![r] = <<>>]
  /\ snapshot' = [snapshot EXCEPT ![r] = Contents(items)]
  /\ UNCHANGED <<arrays, items, published>>

(* One item is read from the array and encoded, with no lock held.  A client *)
(* that stops reading keeps its handler here for as long as it likes: the   *)
(* server has no write timeout.                                             *)
Encode(r) ==
  /\ ~Finished(r)
  /\ written' = [written EXCEPT ![r] = Append(@, Item(reading[r], Len(@) + 1))]
  /\ UNCHANGED <<arrays, items, published, reading, snapshot>>

(* An item cannot be written, as when the client is gone: the reader stops.  *)
EncodeFails(r) ==
  /\ ~Finished(r)
  /\ reading' = [reading EXCEPT ![r].len = Len(written[r])]
  /\ UNCHANGED <<arrays, items, published, written, snapshot>>

(* NewEventCollector makes an empty slice with room for MaxItems.           *)
NewArrays == <<[i \in 1..MaxItems |-> 0]>>
NewItems  == Slice(1, 1, 0)

Init ==
  /\ arrays = NewArrays /\ items = NewItems /\ published = 0
  /\ reading = [r \in Reader |-> NewItems]
  /\ written = [r \in Reader |-> <<>>]
  /\ snapshot = [r \in Reader |-> <<>>]

(* The process dies and is started again: the items are gone, and so are the *)
(* feed requests.                                                           *)
Restart ==
  /\ arrays' = NewArrays /\ items' = NewItems /\ published' = 0
  /\ reading' = [r \in Reader |-> NewItems]
  /\ written' = [r \in Reader |-> <<>>]
  /\ snapshot' = [r \in Reader |-> <<>>]

Next == publish \/ Restart \/ \E r \in Reader : Get(r) \/ Encode(r) \/ EncodeFails(r)

Spec == Init /\ [][Next]_vars
=============================================================================
