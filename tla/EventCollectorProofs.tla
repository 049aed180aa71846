------------------------ MODULE EventCollectorProofs -------------------------
(***************************************************************************)
(* What EventCollectorProps states of the collector holds for every number  *)
(* of readers, of kept items and of events.  At the heart of it: no slice   *)
(* that was handed out ends behind the current one, so publish only writes  *)
(* where no reader looks.                                                  *)
(***************************************************************************)
EXTENDS EventCollectorProps, TLAPS

SliceType == [array : Nat, first : Nat, len : Nat]

(* Readers only have slices that were current once.                         *)
EndsBefore(slice, other) ==
  slice.array = other.array => slice.first + slice.len <= other.first + other.len

(* The items of arrs, from place first of its last array on, are the latest  *)
(* of n events.                                                             *)
AreLatest(arrs, n, first, len) ==
  /\ arrs \in Seq(Seq(0..n)) /\ Len(arrs) # 0
  /\ first \in Nat \ {0} /\ first <= Len(arrs[Len(arrs)])
  /\ len = (IF n < MaxItems THEN n ELSE MaxItems) /\ first + len <= Len(arrs[Len(arrs)]) + 1
  /\ \A j \in 1..len : arrs[Len(arrs)][first + j - 1] = n - len + j

(* The slice in use is one of the array allocated last.                     *)
ItemsOK ==
  /\ published \in 0..MaxEvents
  /\ items \in SliceType /\ items.array = Len(arrays)
  /\ AreLatest(arrays, published, items.first, items.len)

ReaderOK(r) ==
  /\ reading[r] \in SliceType /\ IsSlice(reading[r]) /\ EndsBefore(reading[r], items)
  /\ snapshot[r] \in Seq(Nat) /\ reading[r].len <= Len(snapshot[r])
  /\ \A i \in 1..reading[r].len : Item(reading[r], i) = snapshot[r][i]
  /\ written[r] \in Seq(Nat) /\ Len(written[r]) <= reading[r].len
  /\ \A i \in 1..Len(written[r]) : written[r][i] = snapshot[r][i]

ReadersOK ==
  /\ reading \in [Reader -> SliceType] /\ DOMAIN written = Reader /\ DOMAIN snapshot = Reader
  /\ \A r \in Reader : ReaderOK(r)

CollectorInv == ItemsOK /\ ReadersOK
-----------------------------------------------------------------------------
LEMMA NewProcess == Init => CollectorInv
<1>. SUFFICES ASSUME Init PROVE CollectorInv
  OBVIOUS
<1>. USE MaxItemsAssumption DEF Init, NewArrays, NewItems, Slice
<1>1. /\ Len(arrays) = 1 /\ arrays[1] = [i \in 1..MaxItems |-> 0]
      /\ arrays[1] \in Seq(0..published) /\ Len(arrays[1]) = MaxItems
  <2>1. arrays[1] = [i \in 1..MaxItems |-> 0] /\ Len(arrays) = 1
    OBVIOUS
  <2>2. arrays[1] \in [1..MaxItems -> 0..published] /\ MaxItems \in Nat
    BY <2>1
  <2> QED
    BY <2>1, <2>2
<1>2. AreLatest(arrays, 0, 1, 0)
  BY <1>1 DEF AreLatest
<1>3. ItemsOK
  BY <1>2, <1>1 DEF ItemsOK, SliceType
<1>4. ReadersOK
  BY <1>1 DEF ReadersOK, ReaderOK, SliceType, IsSlice, EndsBefore
<1> QED
  BY <1>3, <1>4 DEF CollectorInv
-----------------------------------------------------------------------------
(* Sequences with one item changed, one item more, and made of a function.   *)
LEMMA SeqUpdate ==
  ASSUME NEW S, NEW s \in Seq(S), NEW i \in 1..Len(s), NEW e \in S, NEW t, t = [s EXCEPT ![i] = e]
  PROVE  /\ t \in Seq(S) /\ Len(t) = Len(s) /\ t[i] = e
         /\ \A j \in 1..Len(s) : j # i => t[j] = s[j]
OBVIOUS

LEMMA SeqAppend ==
  ASSUME NEW S, NEW s \in Seq(S), NEW e \in S, NEW t, t = Append(s, e)
  PROVE  /\ t \in Seq(S) /\ Len(t) = Len(s) + 1 /\ t[Len(s) + 1] = e
         /\ \A j \in 1..Len(s) : t[j] = s[j]
OBVIOUS

LEMMA RowReplaced ==
  ASSUME NEW n \in Nat, NEW rows \in Seq(Seq(0..n)), NEW i \in 1..Len(rows),
         NEW row \in Seq(0..n + 1), NEW t, t = [rows EXCEPT ![i] = row]
  PROVE  /\ t \in Seq(Seq(0..n + 1)) /\ Len(t) = Len(rows) /\ t[i] = row
         /\ \A j \in 1..Len(rows) : j # i => t[j] = rows[j]
<1>. DEFINE Rows == Seq(0..n + 1)
<1>1. rows \in Seq(Rows) /\ row \in Rows
  OBVIOUS
<1>. HIDE DEF Rows
<1>2. /\ t \in Seq(Rows) /\ Len(t) = Len(rows) /\ t[i] = row
      /\ \A j \in 1..Len(rows) : j # i => t[j] = rows[j]
  BY <1>1, SeqUpdate
<1> QED
  BY <1>2 DEF Rows

LEMMA SeqOfFunction ==
  ASSUME NEW S, NEW n \in Nat, NEW f \in [1..n -> S]
  PROVE  f \in Seq(S) /\ Len(f) = n
OBVIOUS
-----------------------------------------------------------------------------
(* What append does to arrays whose last one holds, from place first on, the *)
(* len latest of n events: event n + 1 comes behind them, in the same array  *)
(* or in a new one, and nothing before it changes.                          *)
Extends(arrs, first, len, n, arrs2, first2) ==
  /\ arrs2 \in Seq(Seq(0..n + 1)) /\ Len(arrs) <= Len(arrs2)
  /\ first2 \in Nat \ {0} /\ first2 + len <= Len(arrs2[Len(arrs2)])
  /\ Len(arrs2) = Len(arrs) => first2 = first
  /\ \A j \in 1..len + 1 : arrs2[Len(arrs2)][first2 + j - 1] = n - len + j
  /\ \A a \in 1..Len(arrs) :
       /\ Len(arrs2[a]) = Len(arrs[a])
       /\ \A j \in 1..Len(arrs[a]) :
            (a = Len(arrs) => j < first + len) => arrs2[a][j] = arrs[a][j]

LEMMA InPlaceExtends ==
  ASSUME NEW n \in Nat, NEW arrs \in Seq(Seq(0..n)), NEW last \in Nat \ {0}, last = Len(arrs),
         NEW first \in Nat \ {0}, NEW len \in Nat, first + len <= Len(arrs[last]),
         \A j \in 1..len : arrs[last][first + j - 1] = n - len + j,
         NEW arrs2, arrs2 = [arrs EXCEPT ![last] = [arrs[last] EXCEPT ![first + len] = n + 1]]
  PROVE  Extends(arrs, first, len, n, arrs2, first)
<1>. DEFINE arr   == arrs[last]
            place == first + len
            new   == [arr EXCEPT ![place] = n + 1]
<1>1. /\ arr \in Seq(0..n) /\ Len(arr) \in Nat /\ last \in 1..Len(arrs)
      /\ place \in 1..Len(arr) /\ n + 1 \in 0..n + 1
      /\ arr \in Seq(0..n + 1) /\ place = first + len
      /\ \A j \in 1..len : arr[first + j - 1] = n - len + j
      /\ arrs2 = [arrs EXCEPT ![last] = new] /\ new = [arr EXCEPT ![place] = n + 1]
  BY SMTT(60)
<1>. HIDE DEF arr, place, new
<1>2. /\ new \in Seq(0..n + 1) /\ Len(new) = Len(arr) /\ new[place] = n + 1
      /\ \A j \in 1..Len(arr) : j # place => new[j] = arr[j]
  BY <1>1, SeqUpdate
<1>3. /\ arrs2 \in Seq(Seq(0..n + 1)) /\ Len(arrs2) = Len(arrs) /\ arrs2[last] = new
      /\ \A a \in 1..Len(arrs) : a # last => arrs2[a] = arrs[a]
  <2>1. /\ n \in Nat /\ arrs \in Seq(Seq(0..n)) /\ last \in 1..Len(arrs) /\ new \in Seq(0..n + 1)
        /\ arrs2 = [arrs EXCEPT ![last] = new]
    BY <1>1, <1>2
  <2> QED
    BY ONLY <2>1, RowReplaced
<1>4. ASSUME NEW j \in 1..len + 1 PROVE new[first + j - 1] = n - len + j
  <2>1. CASE j = len + 1
    <3>1. first + j - 1 = place /\ n - len + j = n + 1
      BY ONLY <1>1, <2>1, n \in Nat, len \in Nat, first \in Nat
    <3> QED
      BY ONLY <1>2, <3>1
  <2>2. CASE j \in 1..len
    <3>1. /\ first \in Nat \ {0} /\ len \in Nat /\ Len(arr) \in Nat
          /\ place = first + len /\ place \in 1..Len(arr)
      BY ONLY <1>1, first \in Nat \ {0}, len \in Nat
    <3>2. first + j - 1 \in 1..Len(arr) /\ first + j - 1 # place
      BY ONLY <2>2, <3>1
    <3>3. new[first + j - 1] = arr[first + j - 1]
      BY ONLY <1>2, <3>2
    <3> QED
      BY ONLY <1>1, <2>2, <3>3
  <2>3. j \in 1..len \/ j = len + 1
    BY <1>4
  <2> QED
    BY <2>1, <2>2, <2>3
<1>5. ASSUME NEW a \in 1..Len(arrs)
      PROVE  /\ Len(arrs2[a]) = Len(arrs[a])
             /\ \A j \in 1..Len(arrs[a]) :
                  (a = Len(arrs) => j < first + len) => arrs2[a][j] = arrs[a][j]
  <2>1. CASE a = last
    <3>1. arrs2[a] = new /\ arrs[a] = arr
      BY <1>3, <2>1 DEF arr
    <3>2. ASSUME NEW j \in 1..Len(arr), j < first + len PROVE new[j] = arr[j]
      <4>1. j # place
        BY <1>1, <3>2
      <4> QED
        BY <1>2, <4>1
    <3> QED
      BY <1>2, <2>1, <3>1, <3>2
  <2>2. CASE a # last
    BY <1>3, <2>2
  <2> QED
    BY <2>1, <2>2
<1>6. /\ Len(arrs) <= Len(arrs2) /\ arrs2[Len(arrs2)] = new
      /\ first + len <= Len(arrs2[Len(arrs2)])
  BY <1>1, <1>2, <1>3
<1> QED
  BY <1>3, <1>4, <1>5, <1>6 DEF Extends

LEMMA GrowingExtends ==
  ASSUME NEW n \in Nat, NEW arrs \in Seq(Seq(0..n)), NEW first, NEW len \in Nat,
         NEW room \in Nat, len + 1 <= room, NEW new \in [1..room -> 0..n + 1],
         \A j \in 1..len + 1 : new[j] = n - len + j,
         NEW arrs2, arrs2 = Append(arrs, new)
  PROVE  Extends(arrs, first, len, n, arrs2, 1)
<1>1. new \in Seq(0..n + 1) /\ Len(new) = room
  BY SeqOfFunction
<1>2. arrs \in Seq(Seq(0..n + 1))
  OBVIOUS
<1>3. /\ arrs2 \in Seq(Seq(0..n + 1)) /\ Len(arrs2) = Len(arrs) + 1
      /\ arrs2[Len(arrs) + 1] = new /\ \A a \in 1..Len(arrs) : arrs2[a] = arrs[a]
  BY <1>1, <1>2, SeqAppend
<1>4. ASSUME NEW j \in 1..len + 1 PROVE new[1 + j - 1] = n - len + j
  BY <1>4
<1>5. Len(arrs) \in Nat
  OBVIOUS
<1> QED
  BY <1>1, <1>3, <1>4, <1>5 DEF Extends

LEMMA TrimKeepsLatest ==
  ASSUME NEW n \in Nat, NEW arrs, NEW arrs2, NEW first, NEW first2, NEW len \in Nat,
         AreLatest(arrs, n, first, len), Extends(arrs, first, len, n, arrs2, first2)
  PROVE  /\ len + 1 > MaxItems => AreLatest(arrs2, n + 1, first2 + 1, len)
         /\ len + 1 <= MaxItems => AreLatest(arrs2, n + 1, first2, len + 1)
<1>. DEFINE arr == arrs2[Len(arrs2)]
<1>1. /\ arrs2 \in Seq(Seq(0..n + 1)) /\ Len(arrs) <= Len(arrs2)
      /\ first2 \in Nat \ {0} /\ first2 + len <= Len(arr)
      /\ \A j \in 1..len + 1 : arr[first2 + j - 1] = n - len + j
  BY DEF Extends
<1>2. /\ len = (IF n < MaxItems THEN n ELSE MaxItems) /\ Len(arrs2) # 0
  BY <1>1 DEF AreLatest
<1>3. Len(arr) \in Nat
  BY <1>1, <1>2
<1>. HIDE DEF arr
<1>4. ASSUME len + 1 > MaxItems PROVE AreLatest(arrs2, n + 1, first2 + 1, len)
  <2>1. /\ len = MaxItems /\ len = (IF n + 1 < MaxItems THEN n + 1 ELSE MaxItems)
        /\ first2 + 1 <= Len(arr) /\ first2 + 1 + len <= Len(arr) + 1
    BY <1>1, <1>2, <1>3, <1>4, MaxItemsAssumption
  <2>2. ASSUME NEW j \in 1..len PROVE arr[first2 + 1 + j - 1] = n + 1 - len + j
    <3>1. j + 1 \in 1..len + 1 /\ first2 + (j + 1) - 1 = first2 + 1 + j - 1
      BY <1>1
    <3>2. arr[first2 + (j + 1) - 1] = n - len + (j + 1)
      BY <1>1, <3>1
    <3> QED
      BY <1>2, <3>1, <3>2, SMTT(60)
  <2> QED
    BY <1>1, <1>2, <2>1, <2>2, SMTT(60) DEF AreLatest, arr
<1>5. ASSUME len + 1 <= MaxItems PROVE AreLatest(arrs2, n + 1, first2, len + 1)
  <2>1. /\ len + 1 = (IF n + 1 < MaxItems THEN n + 1 ELSE MaxItems)
        /\ first2 <= Len(arr) /\ first2 + (len + 1) <= Len(arr) + 1
    BY <1>1, <1>2, <1>3, <1>5, MaxItemsAssumption
  <2>2. ASSUME NEW j \in 1..len + 1 PROVE arr[first2 + j - 1] = n + 1 - (len + 1) + j
    BY <1>1
  <2> QED
    BY <1>1, <1>2, <2>1, <2>2, SMTT(60) DEF AreLatest, arr
<1> QED
  BY <1>4, <1>5

(* A slice that does not end behind the place where an item is appended      *)
(* keeps its items.                                                         *)
LiesBefore(arrs, a, f, l, first, len) ==
  /\ a \in 1..Len(arrs) /\ f \in Nat \ {0} /\ l \in Nat /\ f + l <= Len(arrs[a]) + 1
  /\ a = Len(arrs) => f + l <= first + len

LEMMA ReadersKept ==
  ASSUME published \in Nat, arrays \in Seq(Seq(0..published)), items.first \in Nat, items.len \in Nat,
         NEW first2, Extends(arrays, items.first, items.len, published, arrays', first2),
         NEW a, NEW f, NEW l, LiesBefore(arrays, a, f, l, items.first, items.len)
  PROVE  /\ LiesBefore(arrays', a, f, l, first2, items.len + 1)
         /\ \A i \in 1..l : arrays'[a][f + i - 1] = arrays[a][f + i - 1]
<1>1. /\ a \in 1..Len(arrays) /\ f \in Nat \ {0} /\ l \in Nat /\ f + l <= Len(arrays[a]) + 1
      /\ a = Len(arrays) => f + l <= items.first + items.len
  BY DEF LiesBefore
<1>2. /\ arrays' \in Seq(Seq(0..published + 1)) /\ Len(arrays) <= Len(arrays') /\ first2 \in Nat
      /\ Len(arrays') = Len(arrays) => first2 = items.first
      /\ Len(arrays'[a]) = Len(arrays[a])
      /\ \A j \in 1..Len(arrays[a]) :
            (a = Len(arrays) => j < items.first + items.len) => arrays'[a][j] = arrays[a][j]
  BY <1>1 DEF Extends
<1>3. Len(arrays) \in Nat /\ Len(arrays') \in Nat /\ Len(arrays[a]) \in Nat
  <2>1. a \in 1..Len(arrays)
    BY <1>1
  <2>2. arrays[a] \in Seq(0..published)
    BY <2>1
  <2>3. arrays' \in Seq(Seq(0..published + 1))
    BY <1>2
  <2> QED
    BY <2>2, <2>3
<1>4. LiesBefore(arrays', a, f, l, first2, items.len + 1)
  <2>1. a \in 1..Len(arrays') /\ f + l <= Len(arrays'[a]) + 1
    BY <1>1, <1>2, <1>3
  <2>2. a = Len(arrays') => f + l <= first2 + (items.len + 1)
    BY <1>1, <1>2, <1>3, SMTT(60)
  <2> QED
    BY <1>1, <2>1, <2>2 DEF LiesBefore
<1>5. \A i \in 1..l : arrays'[a][f + i - 1] = arrays[a][f + i - 1]
  <2>. SUFFICES ASSUME NEW i \in 1..l PROVE arrays'[a][f + i - 1] = arrays[a][f + i - 1]
    OBVIOUS
  <2>. DEFINE j == f + i - 1
  <2>1. j \in 1..Len(arrays[a]) /\ (a = Len(arrays) => j < items.first + items.len)
    <3>1. j \in Nat \ {0} /\ j < f + l
      BY <1>1
    <3>2. j <= Len(arrays[a])
      BY <1>1, <1>3, <3>1
    <3>3. a = Len(arrays) => j < items.first + items.len
      BY <1>1, <3>1, SMTT(60)
    <3> QED
      BY <1>3, <3>1, <3>2, <3>3
  <2>2. arrays'[a][j] = arrays[a][j]
    <3>. HIDE DEF j
    <3> QED
      BY <1>2, <2>1
  <2> QED
    BY <2>2
<1> QED
  BY <1>4, <1>5
-----------------------------------------------------------------------------
LEMMA ItemsFacts ==
  ASSUME ItemsOK
  PROVE  /\ published \in Nat /\ arrays \in Seq(Seq(0..published)) /\ Len(arrays) \in Nat \ {0}
         /\ items.array = Len(arrays) /\ arrays[Len(arrays)] \in Seq(0..published)
         /\ items.first \in Nat \ {0} /\ items.len \in Nat
         /\ items.len <= published /\ items.len <= MaxItems
         /\ items.len = (IF published < MaxItems THEN published ELSE MaxItems)
         /\ items.first <= Len(arrays[Len(arrays)])
         /\ items.first + items.len <= Len(arrays[Len(arrays)]) + 1
         /\ \A j \in 1..items.len : arrays[Len(arrays)][items.first + j - 1] = published - items.len + j
BY MaxItemsAssumption DEF ItemsOK, AreLatest, SliceType

LEMMA AppendExtends ==
  ASSUME ItemsOK, NEW result \in Appended(published + 1)
  PROVE  /\ result.items = Slice(Len(result.arrays), result.items.first, items.len + 1)
         /\ Extends(arrays, items.first, items.len, published, result.arrays, result.items.first)
<1>. DEFINE last  == Len(arrays)
            arr   == arrays[last]
            place == items.first + items.len
<1>1. /\ published \in Nat /\ arrays \in Seq(Seq(0..published)) /\ last \in Nat \ {0}
      /\ items.array = last /\ arr \in Seq(0..published) /\ Len(arr) \in Nat
      /\ items.first \in Nat \ {0} /\ items.len \in Nat /\ items.len <= published
      /\ items.first <= Len(arr) /\ place <= Len(arr) + 1
      /\ \A j \in 1..items.len : arr[items.first + j - 1] = published - items.len + j
  BY ItemsFacts
<1>2. CASE items.len < Capacity(items)
  <2>1. /\ result.arrays = [arrays EXCEPT ![last] = [arr EXCEPT ![place] = published + 1]]
        /\ result.items = [items EXCEPT !.len = @ + 1]
    BY <1>1, <1>2 DEF Appended, AppendInPlace
  <2>2. place <= Len(arr)
    BY <1>1, <1>2 DEF Capacity
  <2>3. Extends(arrays, items.first, items.len, published, result.arrays, items.first)
    BY <1>1, <2>1, <2>2, InPlaceExtends
  <2>4. Len(result.arrays) = last
    BY <1>1, <2>1
  <2>5. result.items = Slice(last, items.first, items.len + 1)
    BY <1>1, <2>1 DEF Slice, ItemsOK, SliceType
  <2> QED
    BY <2>3, <2>4, <2>5 DEF Slice
<1>3. CASE ~(items.len < Capacity(items))
  <2>1. PICK room \in items.len + 1..items.len + MaxGrowth :
          /\ result.arrays = Append(arrays, Copied(published + 1, room))
          /\ result.items = Slice(last + 1, 1, items.len + 1)
    BY <1>3 DEF Appended, AppendGrowing
  <2>2. items.len # 0 /\ room \in Nat /\ items.len + 1 <= room
    BY <1>1, <1>3, <2>1, GrowthAssumption, SMTT(60) DEF Capacity
  <2>3. \A j \in 1..items.len : Item(items, j) = published - items.len + j
    BY <1>1 DEF Item
  <2>4. Extends(arrays, items.first, items.len, published, result.arrays, 1)
    <3>. DEFINE new == Copied(published + 1, room)
    <3>1. /\ published \in Nat /\ arrays \in Seq(Seq(0..published)) /\ items.len \in Nat
          /\ room \in Nat /\ items.len + 1 <= room /\ items.len <= published
      BY <1>1, <2>2
    <3>2. result.arrays = Append(arrays, new)
      BY <2>1
    <3>3. \A j \in 1..items.len + 1 : new[j] = published - items.len + j
      <4>1. \A j \in 1..items.len + 1 : j \in 1..room
        BY <3>1
      <4>2. \A j \in 1..items.len : new[j] = Item(items, j)
        BY <3>1, <4>1 DEF Copied
      <4>3. new[items.len + 1] = published + 1
        BY <3>1, <4>1 DEF Copied
      <4>. HIDE DEF new
      <4>4. \A j \in 1..items.len + 1 : j \in 1..items.len \/ j = items.len + 1
        BY <3>1
      <4> QED
        BY <2>3, <3>1, <4>2, <4>3, <4>4
    <3>4. new \in [1..room -> 0..published + 1]
      BY <2>3, <3>1 DEF Copied
    <3>. HIDE DEF new
    <3> QED
      BY ONLY <3>1, <3>2, <3>3, <3>4, GrowingExtends
  <2>5. Len(result.arrays) = last + 1
    BY <1>1, <2>1
  <2> QED
    BY <2>1, <2>4, <2>5 DEF Slice
<1> QED
  BY <1>2, <1>3

LEMMA TrimSlice ==
  ASSUME NEW array, NEW first, NEW len \in Nat
  PROVE  Trim(Slice(array, first, len + 1)) =
           IF len + 1 > MaxItems THEN Slice(array, first + 1, len) ELSE Slice(array, first, len + 1)
BY DEF Trim, Slice

LEMMA PublishItems ==
  ASSUME ItemsOK, publish
  PROVE  /\ ItemsOK'
         /\ Extends(arrays, items.first, items.len, published, arrays',
                    items'.first + items'.len - items.len - 1)
<1>1. PICK result \in Appended(published + 1) :
        /\ published < MaxEvents /\ arrays' = result.arrays /\ items' = Trim(result.items)
        /\ published' = published + 1
  BY DEF publish
<1>. DEFINE first2 == result.items.first
<1>2. /\ result.items = Slice(Len(arrays'), first2, items.len + 1)
      /\ Extends(arrays, items.first, items.len, published, arrays', first2)
  BY <1>1, AppendExtends
<1>3. /\ published \in Nat /\ items.len \in Nat
      /\ AreLatest(arrays, published, items.first, items.len)
  BY ItemsFacts DEF ItemsOK
<1>4. /\ items.len + 1 > MaxItems => AreLatest(arrays', published + 1, first2 + 1, items.len)
      /\ items.len + 1 <= MaxItems => AreLatest(arrays', published + 1, first2, items.len + 1)
  <2>. HIDE DEF first2
  <2> QED
    BY <1>2, <1>3, TrimKeepsLatest
<1>5. /\ items' = IF items.len + 1 > MaxItems THEN Slice(Len(arrays'), first2 + 1, items.len)
                  ELSE Slice(Len(arrays'), first2, items.len + 1)
      /\ first2 \in Nat /\ Len(arrays') \in Nat
  <2>1. first2 \in Nat /\ arrays' \in Seq(Seq(0..published + 1))
    BY <1>2 DEF Extends
  <2>2. items' = Trim(Slice(Len(arrays'), first2, items.len + 1))
    BY <1>1, <1>2
  <2>3. Len(arrays') \in Nat
    BY <2>1
  <2>. HIDE DEF first2
  <2> QED
    BY ONLY <1>3, <2>1, <2>2, <2>3, TrimSlice
<1>6. published' \in 0..MaxEvents
  BY <1>1, <1>3, MaxItemsAssumption
<1>. HIDE DEF first2
<1>7. CASE items.len + 1 > MaxItems
  <2>1. /\ items'.array = Len(arrays') /\ items'.first = first2 + 1 /\ items'.len = items.len
        /\ items' \in SliceType
    BY <1>3, <1>5, <1>7 DEF Slice, SliceType
  <2>2. items'.first + items'.len - items.len - 1 = first2
    BY <1>3, <1>5, <2>1
  <2> QED
    BY <1>1, <1>2, <1>4, <1>6, <1>7, <2>1, <2>2 DEF ItemsOK
<1>8. CASE ~(items.len + 1 > MaxItems)
  <2>1. /\ items'.array = Len(arrays') /\ items'.first = first2 /\ items'.len = items.len + 1
        /\ items' \in SliceType
    BY <1>3, <1>5, <1>8 DEF Slice, SliceType
  <2>2. items'.first + items'.len - items.len - 1 = first2 /\ items.len + 1 <= MaxItems
    BY <1>3, <1>5, <1>8, <2>1, MaxItemsAssumption
  <2> QED
    BY <1>1, <1>2, <1>4, <1>6, <2>1, <2>2 DEF ItemsOK
<1> QED
  BY <1>7, <1>8
-----------------------------------------------------------------------------
(* What publish leaves of a slice that a reader has.                         *)
LEMMA PublishReader ==
  ASSUME CollectorInv, publish, NEW r \in Reader
  PROVE  /\ ReaderOK(r)'
         /\ \A i \in 1..reading[r].len : Item(reading[r], i)' = Item(reading[r], i)
<1>. DEFINE a == reading[r].array
            f == reading[r].first
            l == reading[r].len
            first2 == items'.first + items'.len - items.len - 1
<1>1. /\ ItemsOK' /\ Extends(arrays, items.first, items.len, published, arrays', first2)
      /\ reading' = reading /\ written' = written /\ snapshot' = snapshot
  BY PublishItems DEF CollectorInv, publish
<1>2. /\ published \in Nat /\ arrays \in Seq(Seq(0..published)) /\ items.array = Len(arrays)
      /\ items.first \in Nat /\ items.len \in Nat
      /\ items'.array = Len(arrays') /\ items'.first \in Nat /\ items'.len \in Nat
  <2>1. ItemsOK
    BY DEF CollectorInv
  <2>2. items' \in SliceType /\ items'.array = Len(arrays')
    BY <1>1 DEF ItemsOK
  <2> QED
    BY <2>1, <2>2, ItemsFacts DEF SliceType
<1>3. /\ reading[r] \in SliceType /\ a \in 1..Len(arrays) /\ f \in Nat \ {0} /\ l \in 0..MaxItems
      /\ f + l <= Len(arrays[a]) + 1
      /\ a = items.array => f + l <= items.first + items.len
  BY DEF CollectorInv, ReadersOK, ReaderOK, IsSlice, EndsBefore
<1>4. l \in Nat
  BY <1>3, MaxItemsAssumption
<1>. HIDE DEF a, f, l
<1>5. /\ LiesBefore(arrays', a, f, l, first2, items.len + 1)
      /\ \A i \in 1..l : arrays'[a][f + i - 1] = arrays[a][f + i - 1]
  <2>. HIDE DEF first2
  <2>1. Extends(arrays, items.first, items.len, published, arrays', first2)
    BY <1>1
  <2>2. LiesBefore(arrays, a, f, l, items.first, items.len)
    BY <1>2, <1>3, <1>4 DEF LiesBefore
  <2>3. /\ published \in Nat /\ arrays \in Seq(Seq(0..published))
        /\ items.first \in Nat /\ items.len \in Nat
    BY <1>2
  <2> QED
    BY <2>1, <2>2, <2>3, ReadersKept
<1>6. /\ first2 + (items.len + 1) = items'.first + items'.len
      /\ a \in 1..Len(arrays') /\ f + l <= Len(arrays'[a]) + 1
      /\ a = Len(arrays') => f + l <= items'.first + items'.len
  BY <1>2, <1>5, SMTT(60) DEF LiesBefore
<1>7. IsSlice(reading[r])'
  BY <1>1, <1>3, <1>6 DEF IsSlice, a, f, l
<1>8. EndsBefore(reading[r], items)'
  BY <1>1, <1>2, <1>6 DEF EndsBefore, a, f, l
<1>9. \A i \in 1..reading[r].len : Item(reading[r], i)' = Item(reading[r], i)
  BY <1>1, <1>5 DEF Item, a, f, l
<1>10. ReaderOK(r)
  BY DEF CollectorInv, ReadersOK
<1>11. ReaderOK(r)'
  BY <1>1, <1>7, <1>8, <1>9, <1>10 DEF ReaderOK
<1> QED
  BY <1>9, <1>11

LEMMA PublishKeeps ==
  ASSUME CollectorInv, publish
  PROVE  CollectorInv'
<1>1. ItemsOK'
  BY PublishItems DEF CollectorInv
<1>2. ReadersOK'
  BY PublishReader DEF CollectorInv, ReadersOK, publish
<1> QED
  BY <1>1, <1>2 DEF CollectorInv
-----------------------------------------------------------------------------
LEMMA ItemsAreSlice ==
  ASSUME ItemsOK
  PROVE  /\ items \in SliceType /\ IsSlice(items)
         /\ \A i \in 1..items.len : Item(items, i) \in Nat /\ Item(items, i) = published - items.len + i
<1>1. items \in SliceType
  BY DEF ItemsOK
<1>2. IsSlice(items)
  BY ItemsFacts, MaxItemsAssumption DEF IsSlice
<1>3. ASSUME NEW i \in 1..items.len
      PROVE  Item(items, i) = published - items.len + i /\ published - items.len + i \in Nat
  <2>1. arrays[Len(arrays)][items.first + i - 1] = published - items.len + i /\ items.array = Len(arrays)
    BY ItemsFacts
  <2>2. published - items.len + i \in Nat
    BY ItemsFacts
  <2> QED
    BY <2>1, <2>2 DEF Item
<1> QED
  BY <1>1, <1>2, <1>3

LEMMA ReaderLeft ==
  ASSUME NEW q \in Reader, ReaderOK(q), UNCHANGED <<arrays, items>>,
         reading'[q] = reading[q], written'[q] = written[q], snapshot'[q] = snapshot[q]
  PROVE  ReaderOK(q)'
BY DEF ReaderOK, IsSlice, EndsBefore, Item

LEMMA GetKeeps ==
  ASSUME CollectorInv, NEW r \in Reader, Get(r)
  PROVE  CollectorInv'
<1>1. ItemsOK' /\ ItemsOK /\ UNCHANGED <<arrays, items, published>>
  BY DEF Get, CollectorInv, ItemsOK, AreLatest
<1>2. /\ reading' \in [Reader -> SliceType] /\ DOMAIN written' = Reader /\ DOMAIN snapshot' = Reader
      /\ reading'[r] = items /\ written'[r] = <<>> /\ snapshot'[r] = Contents(items)
      /\ \A q \in Reader \ {r} : /\ reading'[q] = reading[q] /\ written'[q] = written[q]
                                 /\ snapshot'[q] = snapshot[q]
  BY <1>1 DEF Get, CollectorInv, ReadersOK, ItemsOK
<1>3. ASSUME NEW q \in Reader \ {r} PROVE ReaderOK(q)'
  <2>1. ReaderOK(q)
    BY DEF CollectorInv, ReadersOK
  <2> QED
    BY <1>1, <1>2, <2>1, ReaderLeft
<1>4. ReaderOK(r)'
  <2>1. /\ snapshot'[r] \in Seq(Nat) /\ Len(snapshot'[r]) = items.len
        /\ \A i \in 1..items.len : snapshot'[r][i] = Item(items, i)
    <3>1. Contents(items) \in [1..items.len -> Nat] /\ items.len \in Nat
      BY <1>1, ItemsAreSlice, ItemsFacts DEF Contents
    <3>2. \A i \in 1..items.len : Contents(items)[i] = Item(items, i)
      BY DEF Contents
    <3> QED
      BY <1>2, <3>1, <3>2, SeqOfFunction
  <2>2. items \in SliceType /\ IsSlice(items) /\ EndsBefore(items, items) /\ items.len \in Nat
    BY <1>1, ItemsAreSlice, ItemsFacts DEF EndsBefore
  <2>3. IsSlice(items)' /\ EndsBefore(items, items)' /\ \A i \in Nat : Item(items, i)' = Item(items, i)
    BY <1>1, <2>2 DEF IsSlice, EndsBefore, Item
  <2>4. /\ IsSlice(reading[r])' /\ EndsBefore(reading[r], items)'
        /\ \A i \in Nat : Item(reading[r], i)' = Item(items, i)
    BY <1>1, <1>2, <2>3 DEF IsSlice, EndsBefore, Item
  <2> QED
    <3>1. reading'[r] = items /\ Len(written'[r]) = 0 /\ written'[r] \in Seq(Nat)
      BY <1>2
    <3>2. \A i \in 1..items.len : Item(reading[r], i)' = snapshot'[r][i]
      BY <2>1, <2>2, <2>4
    <3> QED
      BY <3>1, <3>2, <2>1, <2>2, <2>4 DEF ReaderOK
<1> QED
  BY <1>1, <1>2, <1>3, <1>4 DEF CollectorInv, ReadersOK

LEMMA EncodeKeeps ==
  ASSUME CollectorInv, NEW r \in Reader, Encode(r)
  PROVE  CollectorInv'
<1>1. /\ ItemsOK' /\ ReaderOK(r)
      /\ UNCHANGED <<arrays, items, published, reading, snapshot>>
  BY DEF Encode, CollectorInv, ItemsOK, AreLatest, ReadersOK
<1>. DEFINE next == Item(reading[r], Len(written[r]) + 1)
<1>2. /\ DOMAIN written' = Reader /\ written'[r] = Append(written[r], next)
      /\ \A q \in Reader \ {r} : written'[q] = written[q]
  BY DEF Encode, CollectorInv, ReadersOK
<1>3. ASSUME NEW q \in Reader \ {r} PROVE ReaderOK(q)'
  <2>1. ReaderOK(q)
    BY DEF CollectorInv, ReadersOK
  <2> QED
    BY <1>1, <1>2, <2>1, ReaderLeft
<1>4. ReaderOK(r)'
  <2>1. /\ written[r] \in Seq(Nat) /\ Len(written[r]) \in Nat /\ reading[r].len \in Nat
        /\ Len(written[r]) + 1 \in 1..reading[r].len
    BY <1>1 DEF ReaderOK, Encode, Finished, SliceType
  <2>2. /\ next = snapshot[r][Len(written[r]) + 1] /\ next \in Nat
    BY <1>1, <2>1, SMTT(60) DEF ReaderOK
  <2>. HIDE DEF next
  <2>3. /\ written'[r] \in Seq(Nat) /\ Len(written'[r]) = Len(written[r]) + 1
        /\ written'[r][Len(written[r]) + 1] = next
        /\ \A i \in 1..Len(written[r]) : written'[r][i] = written[r][i]
    BY ONLY <1>2, <2>1, <2>2, SeqAppend
  <2>4. ASSUME NEW i \in 1..Len(written'[r]) PROVE written'[r][i] = snapshot[r][i]
    <3>1. i \in 1..Len(written[r]) \/ i = Len(written[r]) + 1
      BY <2>1, <2>3
    <3> QED
      BY <1>1, <2>2, <2>3, <3>1 DEF ReaderOK
  <2> QED
    BY <1>1, <2>1, <2>3, <2>4 DEF ReaderOK, IsSlice, EndsBefore, Item
<1> QED
  BY <1>1, <1>2, <1>3, <1>4 DEF CollectorInv, ReadersOK

LEMMA EncodeFailsKeeps ==
  ASSUME CollectorInv, NEW r \in Reader, EncodeFails(r)
  PROVE  CollectorInv'
<1>1. ItemsOK' /\ ReaderOK(r) /\ UNCHANGED <<arrays, items, published, written, snapshot>>
  BY DEF EncodeFails, CollectorInv, ItemsOK, AreLatest, ReadersOK
<1>2. Len(written[r]) \in Nat /\ Len(written[r]) <= reading[r].len /\ reading[r] \in SliceType
  BY <1>1 DEF ReaderOK
<1>3. /\ reading' \in [Reader -> SliceType] /\ reading'[r].len = Len(written[r])
      /\ reading'[r].array = reading[r].array /\ reading'[r].first = reading[r].first
      /\ \A q \in Reader \ {r} : reading'[q] = reading[q]
  BY <1>2 DEF EncodeFails, CollectorInv, ReadersOK, SliceType
<1>4. ASSUME NEW q \in Reader \ {r} PROVE ReaderOK(q)'
  <2>1. ReaderOK(q)
    BY DEF CollectorInv, ReadersOK
  <2> QED
    BY <1>1, <1>3, <2>1, ReaderLeft
<1>5. ReaderOK(r)'
  <2>1. reading'[r] \in SliceType
    BY <1>3
  <2>2. /\ reading[r].first \in Nat /\ reading[r].len \in Nat /\ reading[r].len <= MaxItems
        /\ reading'[r].len <= reading[r].len /\ reading'[r].len \in Nat
    BY <1>1, <1>2, <1>3, MaxItemsAssumption DEF ReaderOK, SliceType, IsSlice
  <2>3. IsSlice(reading[r])'
    <3>1. /\ reading[r].array \in 1..Len(arrays) /\ reading[r].first \in Nat \ {0}
          /\ reading[r].first + reading[r].len <= Len(arrays[reading[r].array]) + 1
          /\ Len(arrays[reading[r].array]) \in Nat
      <4>1. IsSlice(reading[r]) /\ arrays \in Seq(Seq(0..published))
        BY <1>1, ItemsFacts DEF ReaderOK, CollectorInv
      <4> QED
        BY <4>1 DEF IsSlice
    <3> QED
      BY <1>1, <1>3, <2>2, <3>1, MaxItemsAssumption, SMTT(60) DEF IsSlice
  <2>4. EndsBefore(reading[r], items)'
    <3>1. EndsBefore(reading[r], items) /\ items.first \in Nat /\ items.len \in Nat
      BY <1>1, ItemsFacts DEF ReaderOK, CollectorInv
    <3> QED
      BY <1>1, <1>3, <2>2, <3>1, SMTT(60) DEF EndsBefore
  <2>5. \A i \in 1..reading'[r].len : i \in 1..reading[r].len
    BY <2>2
  <2> QED
    BY <1>1, <1>2, <1>3, <2>1, <2>2, <2>3, <2>4, <2>5 DEF ReaderOK, Item
<1> QED
  BY <1>1, <1>3, <1>4, <1>5 DEF CollectorInv, ReadersOK
-----------------------------------------------------------------------------
LEMMA StepKeeps == CollectorInv /\ [Next]_vars => CollectorInv'
<1>1. Restart => Init'
  BY DEF Restart, Init
<1>2. Restart => CollectorInv'
  BY <1>1, NewProcess, PTL
<1>3. CollectorInv /\ UNCHANGED vars => CollectorInv'
  BY SMTT(60) DEF vars, CollectorInv, ItemsOK, AreLatest, ReadersOK, ReaderOK, IsSlice, EndsBefore, Item
<1> QED
  BY <1>2, <1>3, PublishKeeps, GetKeeps, EncodeKeeps, EncodeFailsKeeps DEF Next

(* In every reachable state the items are the latest events and no reader    *)
(* has a slice that ends behind them; EventCollector!publish relies on it.   *)
THEOREM CollectorInvariant == Spec => []CollectorInv
<1>1. Init => CollectorInv
  BY NewProcess
<1> QED
  BY <1>1, StepKeeps, PTL DEF Spec

LEMMA SeqIsFunction ==
  ASSUME NEW S, NEW s \in Seq(S)
  PROVE  s \in [1..Len(s) -> S]
OBVIOUS

LEMMA Beginning ==
  ASSUME NEW s \in Seq(Nat), NEW t \in Seq(Nat), Len(s) <= Len(t),
         \A i \in 1..Len(s) : s[i] = t[i]
  PROVE  s = SubSeq(t, 1, Len(s))
BY SMTT(60)

(* Every variable of the collector has its type in every reachable state.    *)
THEOREM CollectorTypes == Spec => []TypeOK
<1>1. CollectorInv => TypeOK
  <2>. SUFFICES ASSUME CollectorInv PROVE TypeOK
    OBVIOUS
  <2>1. IsSlice(items) /\ published \in 0..MaxEvents
    BY ItemsAreSlice DEF CollectorInv, ItemsOK
  <2>2. ASSUME NEW a \in 1..Len(arrays)
        PROVE  arrays[a] \in [1..Len(arrays[a]) -> 0..published]
    <3>1. arrays[a] \in Seq(0..published)
      BY ItemsFacts DEF CollectorInv
    <3> QED
      BY ONLY <3>1, SeqIsFunction
  <2>3. \A r \in Reader : IsSlice(reading[r]) /\ Len(written[r]) <= reading[r].len
    BY DEF CollectorInv, ReadersOK, ReaderOK
  <2> QED
    BY <2>1, <2>2, <2>3 DEF TypeOK
<1> QED
  BY <1>1, CollectorInvariant, PTL

(* The items are always the latest events, oldest first, however often       *)
(* publish has moved them to another array.                                 *)
THEOREM LatestAreKept == Spec => []KeepsLatest
<1>1. CollectorInv => KeepsLatest
  <2>. SUFFICES ASSUME CollectorInv PROVE KeepsLatest
    OBVIOUS
  <2>1. /\ items.len = IF published < MaxItems THEN published ELSE MaxItems
        /\ \A i \in 1..items.len : Item(items, i) = published - items.len + i
    BY ItemsFacts, ItemsAreSlice DEF CollectorInv
  <2> QED
    BY <2>1 DEF KeepsLatest, Contents
<1> QED
  BY <1>1, CollectorInvariant, PTL

(* What a reader encodes are the items it asked for, for any number of       *)
(* readers and whatever is published meanwhile.                             *)
THEOREM ReadersAreUndisturbed == Spec => []ReadersUndisturbed
<1>1. CollectorInv => ReadersUndisturbed
  <2>. SUFFICES ASSUME CollectorInv, NEW r \in Reader
                PROVE  written[r] = SubSeq(snapshot[r], 1, Len(written[r]))
    BY DEF ReadersUndisturbed
  <2>1. ReaderOK(r) /\ reading[r].len \in Nat
    BY DEF CollectorInv, ReadersOK, ReaderOK, SliceType
  <2>2. /\ written[r] \in Seq(Nat) /\ snapshot[r] \in Seq(Nat)
        /\ Len(written[r]) <= reading[r].len /\ reading[r].len <= Len(snapshot[r])
        /\ \A i \in 1..Len(written[r]) : written[r][i] = snapshot[r][i]
    BY <2>1 DEF ReaderOK
  <2>3. Len(written[r]) <= Len(snapshot[r])
    BY <2>1, <2>2
  <2> QED
    BY ONLY <2>2, <2>3, Beginning
<1> QED
  BY <1>1, CollectorInvariant, PTL

(* No step writes an item of a slice that a reader has.                      *)
THEOREM SharedItemsStay == Spec => SharedItemsFrozen
<1>1. CollectorInv /\ [Next]_vars
        => [\A r \in Reader : reading'[r] = reading[r] =>
              \A i \in 1..reading[r].len : Item(reading[r], i)' = Item(reading[r], i)]_vars
  <2>. SUFFICES ASSUME CollectorInv, Next, NEW r \in Reader, reading'[r] = reading[r],
                       NEW i \in 1..reading[r].len
                PROVE  Item(reading[r], i)' = Item(reading[r], i)
    OBVIOUS
  <2>1. CASE publish
    BY <2>1, PublishReader
  <2>2. CASE Restart
    <3>1. reading[r].len = 0
      BY <2>2 DEF Restart, NewItems, Slice
    <3> QED
      BY <3>1
  <2>3. CASE \E q \in Reader : Get(q) \/ Encode(q) \/ EncodeFails(q)
    <3>1. arrays' = arrays
      BY <2>3 DEF Get, Encode, EncodeFails
    <3> QED
      BY <3>1 DEF Item
  <2> QED
    BY <2>1, <2>2, <2>3 DEF Next
<1> QED
  BY <1>1, CollectorInvariant, PTL DEF Spec, SharedItemsFrozen
=============================================================================
