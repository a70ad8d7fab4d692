------------------------ MODULE UpdateBuildersLemmas ------------------------
(***************************************************************************)
(* What the operations on the queue of updates do to it, for both packers: *)
(* Store (add() at the cursor), Grown (++ of the cursor), NewStarts        *)
(* (updateStart()) and MaxSources; and what both verifications read: the   *)
(* entries of the updates, also with one of them lost or repeated, and the *)
(* fold that reads them one after the other.                               *)
(***************************************************************************)
EXTENDS SanityCheck, WellFoundedInduction, TLAPS

(* The entries of the updates k0, k0+1, ... of the queue.                  *)
EntriesFrom(q, k0) ==
  UNION { { q[k].entries[m] : m \in DOMAIN q[k].entries } :
            k \in { j \in DOMAIN q : k0 <= j } }

Entries(q) == EntriesFrom(q, 1)

(* An entry is there for a source or for the RP.                           *)
CarriesSomething(e) == e.rp \/ SptSources(e) # {}

(* The packed updates as they would be returned now.                       *)
Packed(q) == [k \in DOMAIN q |-> q[k].entries]

(* An update is within its capacity, and has a size once it has an entry.  *)
Sized(q) ==
  \A k \in DOMAIN q :
    q[k].size <= JPCapacity /\ (q[k].entries = << >> => q[k].size = 0)

QueueOK(q) ==
  /\ q \in Seq(Builder)
  /\ Sized(q)
  /\ LastAloneEmpty(q)
  /\ AscendingGroups(q)
  /\ SpillsFromFull(q)
  /\ NothingTwice(Packed(q))
-----------------------------------------------------------------------------
(***************************************************************************)
(* Sizes                                                                   *)
(***************************************************************************)

(* Integer division (maxSources() divides by SrcASize, Pack.hpp:129).      *)
LEMMA DivBounds ==
  ASSUME NEW x \in Nat, NEW d \in Nat \ {0}
  PROVE  /\ x \div d \in Nat
         /\ d * (x \div d) <= x
         /\ x < d * (x \div d) + d
BY SMT

LEMMA TimesMonotonic ==
  ASSUME NEW d \in Nat, NEW m \in Nat, NEW n \in Nat, m <= n
  PROVE  d * m \in Nat /\ d * n \in Nat /\ d * m <= d * n
BY SMT

LEMMA TimesDistributes ==
  ASSUME NEW d \in Nat, NEW m \in Nat, NEW n \in Nat
  PROVE  d * (m + n) = d * m + d * n
BY SMT

(* An entry with no more sources than maxSources() allows fits, and one    *)
(* that takes them all leaves less than one source over.                   *)
LEMMA MaxSourcesFits ==
  ASSUME NEW rem \in Nat, GrpHdrSize <= rem
  PROVE  /\ MaxSources(rem) \in Nat
         /\ \A n \in Nat : n <= MaxSources(rem) =>
              /\ GrpHdrSize + SrcASize * n <= rem
              /\ n = MaxSources(rem) =>
                   rem - (GrpHdrSize + SrcASize * n) < SrcASize
<1> DEFINE x == rem - GrpHdrSize
<1>1. x \in Nat
  BY SizesAssumption
<1>2. CASE rem = GrpHdrSize
  <2>1. MaxSources(rem) = 0
    BY <1>2, SizesAssumption DEF MaxSources
  <2>2. SrcASize * 0 = 0
    BY SizesAssumption
  <2> QED
    BY <1>2, <2>1, <2>2, SizesAssumption
<1>3. CASE rem > GrpHdrSize
  <2>1. MaxSources(rem) = x \div SrcASize
    BY <1>3, SizesAssumption DEF MaxSources
  <2>2. /\ x \div SrcASize \in Nat
        /\ SrcASize * (x \div SrcASize) <= x
        /\ x < SrcASize * (x \div SrcASize) + SrcASize
    BY <1>1, DivBounds, SizesAssumption
  <2>3. ASSUME NEW n \in Nat, n <= MaxSources(rem)
        PROVE  /\ GrpHdrSize + SrcASize * n <= rem
               /\ n = MaxSources(rem) =>
                    rem - (GrpHdrSize + SrcASize * n) < SrcASize
    <3>1. SrcASize * n \in Nat /\ SrcASize * n <= SrcASize * (x \div SrcASize)
      BY <2>1, <2>2, <2>3, TimesMonotonic, SizesAssumption
    <3> HIDE DEF x
    <3>2. SrcASize * n <= x
      BY <1>1, <2>2, <3>1, SizesAssumption
    <3>3. n = MaxSources(rem) => x < SrcASize * n + SrcASize
      BY <2>1, <2>2
    <3> QED
      BY <3>1, <3>2, <3>3, SizesAssumption DEF x
  <2> QED
    BY <2>1, <2>2, <2>3
<1> QED
  BY <1>2, <1>3, SizesAssumption

(* An update with no room for a source of a new group is full.             *)
LEMMA NoRoomIsFull ==
  ASSUME NEW rem \in Nat, MaxSources(rem) = 0
  PROVE  rem < MinEntrySize
<1>1. CASE rem < GrpHdrSize
  BY <1>1, SizesAssumption DEF MinEntrySize
<1>2. CASE GrpHdrSize <= rem
  <2>1. rem - (GrpHdrSize + SrcASize * 0) < SrcASize
    BY <1>2, MaxSourcesFits
  <2>2. SrcASize * 0 = 0
    BY SizesAssumption
  <2> QED
    BY <2>1, <2>2, SizesAssumption DEF MinEntrySize
<1> QED
  BY <1>1, <1>2, SizesAssumption
-----------------------------------------------------------------------------
(***************************************************************************)
(* The entries of the queue                                                *)
(***************************************************************************)

(* They are entries, and those further on are among those from before.     *)
LEMMA EntriesFacts ==
  ASSUME NEW q \in Seq(Builder)
  PROVE  /\ \A k0 \in Nat : EntriesFrom(q, k0) \subseteq Entry
         /\ \A k0 \in Nat : EntriesFrom(q, k0) \subseteq Entries(q)
         /\ \A k0, k1 \in Nat : k0 <= k1 =>
              EntriesFrom(q, k1) \subseteq EntriesFrom(q, k0)
<1>1. \A k \in DOMAIN q : \A m \in DOMAIN q[k].entries :
        q[k].entries[m] \in Entry
  <2>1. \A k \in DOMAIN q : q[k] \in Builder
    OBVIOUS
  <2> QED
    BY <2>1 DEF Builder
<1>2. DOMAIN q \subseteq Nat /\ \A k \in DOMAIN q : 1 <= k
  OBVIOUS
<1> QED
  BY <1>1, <1>2 DEF EntriesFrom, Entries

(***************************************************************************)
(* add() of an entry that fits                                             *)
(***************************************************************************)

(* The queue after the entry is added (UpdateBuilderImpl::add(),           *)
(* Pack.hpp:64-68).                                                        *)
LEMMA StoreFacts ==
  ASSUME NEW q \in Seq(Builder), NEW i \in DOMAIN q, NEW e \in Entry,
         EntrySize(e) \in Nat
  PROVE  LET r == Store(q, i, e) IN
         /\ r \in Seq(Builder)
         /\ Len(r) = Len(q) /\ DOMAIN r = DOMAIN q
         /\ \A k \in DOMAIN q : k # i => r[k] = q[k]
         /\ r[i].size = q[i].size + EntrySize(e)
         /\ r[i].entries = Append(q[i].entries, e)
<1>1. q[i] \in Builder
  OBVIOUS
<1>2. q[i].size \in Nat /\ q[i].entries \in Seq(Entry)
  BY <1>1 DEF Builder
<1>3. WithEntry(q[i], e) \in Builder
  <2>1. Append(q[i].entries, e) \in Seq(Entry)
    BY <1>2
  <2>2. q[i].size + EntrySize(e) \in Nat
    BY <1>2
  <2> QED
    BY <2>1, <2>2 DEF WithEntry, Builder
<1>4. Store(q, i, e) = [q EXCEPT ![i] = WithEntry(q[i], e)]
  BY DEF Store
<1>5. Store(q, i, e)[i] = WithEntry(q[i], e)
  BY <1>4
<1> QED
  BY <1>3, <1>4, <1>5 DEF WithEntry

(* The entries of an update that gets one more.                            *)
LEMMA AppendFacts ==
  ASSUME NEW es \in Seq(Entry), NEW e \in Entry
  PROVE  /\ DOMAIN Append(es, e) = 1 .. Len(es) + 1
         /\ DOMAIN es = 1 .. Len(es) /\ Len(es) \in Nat
         /\ \A m \in DOMAIN es : Append(es, e)[m] = es[m]
         /\ Append(es, e)[Len(es) + 1] = e
         /\ Append(es, e) # << >>
OBVIOUS

(* What the queue holds is what it held and the entry.                     *)
LEMMA StoreEntries ==
  ASSUME NEW q \in Seq(Builder), NEW i \in DOMAIN q, NEW e \in Entry,
         EntrySize(e) \in Nat
  PROVE  /\ \A k0 \in Nat : \A f \in EntriesFrom(Store(q, i, e), k0) :
              f \in EntriesFrom(q, k0) \/ (f = e /\ k0 <= i)
         /\ Entries(q) \subseteq Entries(Store(q, i, e))
         /\ e \in Entries(Store(q, i, e))
<1> DEFINE r == Store(q, i, e)
           es == q[i].entries
<1>1. /\ r \in Seq(Builder)
      /\ DOMAIN r = DOMAIN q
      /\ \A k \in DOMAIN q : k # i => r[k] = q[k]
      /\ r[i].entries = Append(es, e)
  BY StoreFacts
<1>2. es \in Seq(Entry)
  <2>1. q[i] \in Builder
    OBVIOUS
  <2> QED
    BY <2>1 DEF Builder
<1>3. /\ DOMAIN Append(es, e) = 1 .. Len(es) + 1
      /\ DOMAIN es = 1 .. Len(es) /\ Len(es) \in Nat
      /\ \A m \in DOMAIN es : Append(es, e)[m] = es[m]
      /\ Append(es, e)[Len(es) + 1] = e
  BY <1>2, AppendFacts
<1> HIDE DEF r, es
<1>4. ASSUME NEW k0 \in Nat, NEW f \in EntriesFrom(r, k0)
      PROVE  f \in EntriesFrom(q, k0) \/ (f = e /\ k0 <= i)
  <2>1. PICK k \in DOMAIN r : k0 <= k /\
          \E m \in DOMAIN r[k].entries : f = r[k].entries[m]
    BY DEF EntriesFrom
  <2>2. PICK m \in DOMAIN r[k].entries : f = r[k].entries[m]
    BY <2>1
  <2>3. CASE k # i
    BY <1>1, <2>1, <2>2, <2>3 DEF EntriesFrom
  <2>4. CASE k = i /\ m \in DOMAIN es
    BY <1>1, <1>3, <2>1, <2>2, <2>4 DEF EntriesFrom, es
  <2>5. CASE k = i /\ m = Len(es) + 1
    BY <1>1, <1>3, <2>1, <2>2, <2>5
  <2> QED
    BY <1>1, <1>3, <2>1, <2>2, <2>3, <2>4, <2>5
<1>5. ASSUME NEW f \in Entries(q)
      PROVE  f \in Entries(r)
  <2>1. PICK k \in DOMAIN q : 1 <= k /\
          \E m \in DOMAIN q[k].entries : f = q[k].entries[m]
    BY DEF Entries, EntriesFrom
  <2>2. PICK m \in DOMAIN q[k].entries : f = q[k].entries[m]
    BY <2>1
  <2>3. m \in DOMAIN r[k].entries /\ f = r[k].entries[m]
    <3>1. CASE k # i
      BY <1>1, <2>1, <2>2, <3>1
    <3>2. CASE k = i
      BY <1>1, <1>3, <2>1, <2>2, <3>2 DEF es
    <3> QED
      BY <3>1, <3>2
  <2> QED
    BY <1>1, <2>1, <2>3 DEF Entries, EntriesFrom
<1>6. e \in Entries(r)
  <2>1. Len(es) + 1 \in DOMAIN r[i].entries /\ e = r[i].entries[Len(es) + 1]
    BY <1>1, <1>3
  <2>2. i \in DOMAIN r /\ 1 <= i
    BY <1>1
  <2> QED
    BY <2>1, <2>2 DEF Entries, EntriesFrom
<1> QED
  BY <1>4, <1>5, <1>6 DEF r

(* remaining() of an update that is within its capacity does not wrap.     *)
LEMMA RemainingFacts ==
  ASSUME NEW b \in Builder, b.size <= JPCapacity
  PROVE  Remaining(b) = JPCapacity - b.size /\ Remaining(b) \in Nat
BY SizesAssumption DEF Remaining, SizeSub, Builder

(* An update that is full stays full.                                      *)
LEMMA StoreKeepsFull ==
  ASSUME NEW q \in Seq(Builder), NEW i \in DOMAIN q, NEW e \in Entry,
         EntrySize(e) \in Nat, ~Overflows(q[i], e), Sized(q),
         NEW k \in DOMAIN q, Full(q[k])
  PROVE  Full(Store(q, i, e)[k])
<1> DEFINE r == Store(q, i, e)
<1>1. /\ r \in Seq(Builder) /\ DOMAIN r = DOMAIN q
      /\ \A j \in DOMAIN q : j # i => r[j] = q[j]
      /\ r[i].size = q[i].size + EntrySize(e)
  BY StoreFacts
<1> HIDE DEF r
<1>2. CASE k # i
  BY <1>1, <1>2 DEF r
<1>3. CASE k = i
  <2>1. r[i] \in Builder /\ q[i] \in Builder
    BY <1>1
  <2>2. q[i].size <= JPCapacity /\ r[i].size <= JPCapacity
    <3>1. q[i].size <= JPCapacity /\ q[i].size \in Nat
      BY <2>1 DEF Sized, Builder
    <3> QED
      BY <1>1, <3>1, SizesAssumption DEF Overflows
  <2>3. Remaining(r[i]) = JPCapacity - r[i].size
        /\ Remaining(q[i]) = JPCapacity - q[i].size
    BY <2>1, <2>2, RemainingFacts
  <2>4. q[i].size \in Nat /\ r[i].size \in Nat
    BY <2>1 DEF Builder
  <2>5. MinEntrySize \in Nat
    BY SizesAssumption DEF MinEntrySize
  <2> QED
    BY <1>1, <1>3, <2>3, <2>4, <2>5, SizesAssumption DEF Full, r
<1> QED
  BY <1>2, <1>3

(* The queue stays in order: the entry is of a later group than those      *)
(* already in the update, fits, carries nothing a second time, and, if it  *)
(* carries SPT sources, goes to the first update with room.                *)
LEMMA StoreKeepsOrder ==
  ASSUME NEW q, QueueOK(q), NEW i \in DOMAIN q, NEW e \in Entry,
         EntrySize(e) \in Nat, EntrySize(e) > 0, ~Overflows(q[i], e),
         \A m \in DOMAIN q[i].entries : q[i].entries[m].group < e.group,
         SptSources(e) # {} => FullBefore(q, i),
         \A f \in Entries(q) : Apart(e, f)
  PROVE  QueueOK(Store(q, i, e))
<1> DEFINE r == Store(q, i, e)
           es == q[i].entries
<1>1. q \in Seq(Builder)
  BY DEF QueueOK
<1>2. /\ r \in Seq(Builder)
      /\ Len(r) = Len(q) /\ DOMAIN r = DOMAIN q
      /\ \A k \in DOMAIN q : k # i => r[k] = q[k]
      /\ r[i].size = q[i].size + EntrySize(e)
      /\ r[i].entries = Append(es, e)
  BY <1>1, StoreFacts
<1>3. q[i] \in Builder /\ es \in Seq(Entry) /\ q[i].size \in Nat
  <2>1. q[i] \in Builder
    BY <1>1
  <2> QED
    BY <2>1 DEF Builder
<1>4. /\ DOMAIN Append(es, e) = 1 .. Len(es) + 1
      /\ DOMAIN es = 1 .. Len(es) /\ Len(es) \in Nat
      /\ \A m \in DOMAIN es : Append(es, e)[m] = es[m]
      /\ Append(es, e)[Len(es) + 1] = e
      /\ Append(es, e) # << >>
  BY <1>3, AppendFacts
<1> HIDE DEF r, es
<1>5. Sized(r)
  <2>1. SUFFICES ASSUME NEW k \in DOMAIN r
                 PROVE  r[k].size <= JPCapacity
                        /\ (r[k].entries = << >> => r[k].size = 0)
    BY DEF Sized
  <2>2. CASE k # i
    BY <1>2, <2>2 DEF QueueOK, Sized
  <2>3. CASE k = i
    BY <1>2, <1>3, <1>4, <2>3, SizesAssumption DEF Overflows
  <2> QED
    BY <2>2, <2>3
<1>6. LastAloneEmpty(r)
  <2>1. SUFFICES ASSUME NEW k \in 1 .. Len(q) - 1
                 PROVE  r[k].entries # << >>
    BY <1>2 DEF LastAloneEmpty
  <2>2. q[k].entries # << >> /\ k \in DOMAIN q
    BY <1>1 DEF QueueOK, LastAloneEmpty
  <2> QED
    BY <1>2, <1>4, <2>2
<1>7. AscendingGroups(r)
  <2>1. SUFFICES ASSUME NEW k \in DOMAIN r,
                        NEW m1 \in DOMAIN r[k].entries,
                        NEW m2 \in DOMAIN r[k].entries, m1 < m2
                 PROVE  r[k].entries[m1].group < r[k].entries[m2].group
    BY DEF AscendingGroups
  <2>2. CASE k # i
    BY <1>2, <2>1, <2>2 DEF QueueOK, AscendingGroups
  <2>3. CASE k = i /\ m2 = Len(es) + 1
    <3>1. m1 \in DOMAIN es
      BY <1>2, <1>4, <2>1, <2>3
    <3> QED
      BY <1>2, <1>4, <2>3, <3>1 DEF es
  <2>4. CASE k = i /\ m2 # Len(es) + 1
    <3>1. m1 \in DOMAIN es /\ m2 \in DOMAIN es
      BY <1>2, <1>4, <2>1, <2>4
    <3>2. es[m1].group < es[m2].group
      BY <2>1, <3>1 DEF QueueOK, AscendingGroups, es
    <3> QED
      BY <1>2, <1>4, <2>4, <3>1, <3>2
  <2> QED
    BY <2>2, <2>3, <2>4
<1>8. \A k \in DOMAIN q : FullBefore(q, k) => FullBefore(r, k)
  <2>1. SUFFICES ASSUME NEW k \in DOMAIN q, FullBefore(q, k),
                        NEW j \in 1 .. k - 1
                 PROVE  Full(r[j])
    BY DEF FullBefore
  <2>2. j \in DOMAIN q /\ Full(q[j])
    BY <1>1, <2>1 DEF FullBefore
  <2> QED
    BY <1>1, <2>2, StoreKeepsFull DEF QueueOK, r
<1>9. SpillsFromFull(r)
  <2>1. SUFFICES ASSUME NEW k \in DOMAIN r, NEW m \in DOMAIN r[k].entries,
                        SptSources(r[k].entries[m]) # {}
                 PROVE  FullBefore(q, k)
    BY <1>2, <1>8 DEF SpillsFromFull
  <2>2. CASE k # i
    BY <1>2, <2>1, <2>2 DEF QueueOK, SpillsFromFull
  <2>3. CASE k = i /\ m = Len(es) + 1
    BY <1>2, <1>4, <2>1, <2>3
  <2>4. CASE k = i /\ m # Len(es) + 1
    <3>1. m \in DOMAIN es /\ r[k].entries[m] = es[m]
      BY <1>2, <1>4, <2>4
    <3> QED
      BY <2>1, <2>4, <3>1 DEF QueueOK, SpillsFromFull, es
  <2> QED
    BY <2>2, <2>3, <2>4
<1>10. NothingTwice(Packed(r))
  <2> DEFINE New(k, m) == k = i /\ m = Len(es) + 1
  <2>1. SUFFICES ASSUME NEW k1 \in DOMAIN r, NEW k2 \in DOMAIN r,
                        NEW m1 \in DOMAIN r[k1].entries,
                        NEW m2 \in DOMAIN r[k2].entries,
                        k1 # k2 \/ m1 # m2
                 PROVE  Apart(r[k1].entries[m1], r[k2].entries[m2])
    BY DEF NothingTwice, Packed
  <2>2. ASSUME NEW k \in DOMAIN r, NEW m \in DOMAIN r[k].entries, ~New(k, m)
        PROVE  /\ m \in DOMAIN q[k].entries
               /\ r[k].entries[m] = q[k].entries[m]
               /\ q[k].entries[m] \in Entries(q)
    <3>1. m \in DOMAIN q[k].entries /\ r[k].entries[m] = q[k].entries[m]
      <4>1. CASE k # i
        BY <1>2, <4>1
      <4>2. CASE k = i
        <5>1. m \in DOMAIN es
          BY <1>2, <1>4, <2>2, <4>2
        <5> QED
          BY <1>2, <1>4, <4>2, <5>1 DEF es
      <4> QED
        BY <4>1, <4>2
    <3>2. k \in DOMAIN q /\ 1 <= k /\ q[k] \in Builder
      BY <1>1, <1>2
    <3>3. q[k].entries[m] \in Entry
      BY <3>1, <3>2 DEF Builder
    <3> QED
      BY <3>1, <3>2, <3>3 DEF Entries, EntriesFrom
  <2>3. \A k \in DOMAIN r : \A m \in DOMAIN r[k].entries : New(k, m) =>
          r[k].entries[m] = e
    BY <1>2, <1>4
  <2>4. CASE New(k1, m1) /\ New(k2, m2)
    BY <2>1, <2>4
  <2>5. CASE New(k1, m1) /\ ~New(k2, m2)
    BY <2>2, <2>3, <2>5
  <2>6. CASE ~New(k1, m1) /\ New(k2, m2)
    <3>1. Apart(e, r[k1].entries[m1])
      BY <2>2, <2>6
    <3>2. Apart(r[k1].entries[m1], e)
      BY <3>1 DEF Apart
    <3> QED
      BY <2>3, <2>6, <3>2
  <2>7. CASE ~New(k1, m1) /\ ~New(k2, m2)
    <3>1. /\ m1 \in DOMAIN q[k1].entries /\ m2 \in DOMAIN q[k2].entries
          /\ r[k1].entries[m1] = q[k1].entries[m1]
          /\ r[k2].entries[m2] = q[k2].entries[m2]
      BY <2>2, <2>7
    <3>2. Apart(q[k1].entries[m1], q[k2].entries[m2])
      BY <1>2, <2>1, <3>1 DEF QueueOK, NothingTwice, Packed
    <3> QED
      BY <3>1, <3>2
  <2> QED
    BY <2>4, <2>5, <2>6, <2>7
<1> QED
  BY <1>2, <1>5, <1>6, <1>7, <1>9, <1>10 DEF QueueOK, r
-----------------------------------------------------------------------------
(***************************************************************************)
(* ++ of the cursor, and updateStart()                                     *)
(***************************************************************************)

(* The queue after the cursor moves to index j: nothing but an empty       *)
(* update is added, and the cursor is inside (UBCursor.hpp:46-51).         *)
LEMMA GrownFacts ==
  ASSUME NEW q \in Seq(Builder), NEW j \in 1 .. Len(q) + 1
  PROVE  LET r == Grown(q, j) IN
         /\ r \in Seq(Builder)
         /\ Len(q) \in Nat /\ Len(r) \in Nat /\ Len(q) <= Len(r)
         /\ DOMAIN q = 1 .. Len(q) /\ DOMAIN r = 1 .. Len(r)
         /\ j \in DOMAIN r
         /\ \A k \in DOMAIN q : r[k] = q[k]
         /\ \A k \in DOMAIN r : k \notin DOMAIN q =>
              k = j /\ k = Len(q) + 1 /\ r[k] = EmptyBuilder
<1>1. EmptyBuilder \in Builder
  <2>1. << >> \in Seq(Entry)
    OBVIOUS
  <2> QED
    BY <2>1 DEF EmptyBuilder, Builder
<1>2. CASE j = Len(q) + 1
  <2>1. Grown(q, j) = Append(q, EmptyBuilder)
    BY <1>2 DEF Grown
  <2> QED
    BY <1>1, <1>2, <2>1
<1>3. CASE j <= Len(q)
  <2>1. Grown(q, j) = q
    BY <1>3 DEF Grown
  <2> QED
    BY <1>3, <2>1
<1> QED
  BY <1>2, <1>3

(* The queue stays in order when the cursor leaves a last update that is   *)
(* not empty; no entry comes or goes, and what was full stays full.        *)
LEMMA GrownKeepsOrder ==
  ASSUME NEW q, QueueOK(q), NEW j \in 1 .. Len(q) + 1,
         j = Len(q) + 1 => q[Len(q)].entries # << >>
  PROVE  /\ QueueOK(Grown(q, j))
         /\ \A k0 \in Nat : EntriesFrom(Grown(q, j), k0) = EntriesFrom(q, k0)
         /\ \A k \in 1 .. Len(q) + 1 :
              FullBefore(q, k) => FullBefore(Grown(q, j), k)
<1> DEFINE r == Grown(q, j)
<1>1. q \in Seq(Builder)
  BY DEF QueueOK
<1>2. /\ r \in Seq(Builder)
      /\ Len(q) \in Nat /\ Len(r) \in Nat /\ Len(q) <= Len(r)
      /\ DOMAIN q = 1 .. Len(q) /\ DOMAIN r = 1 .. Len(r)
      /\ \A k \in DOMAIN q : r[k] = q[k]
      /\ \A k \in DOMAIN r : k \notin DOMAIN q =>
           k = j /\ k = Len(q) + 1 /\ r[k] = EmptyBuilder
  BY <1>1, GrownFacts
<1>3. \A k \in DOMAIN r : k \notin DOMAIN q =>
        r[k].size = 0 /\ r[k].entries = << >> /\ DOMAIN r[k].entries = {}
  BY <1>2 DEF EmptyBuilder
<1> HIDE DEF r
<1>4. Sized(r)
  BY <1>2, <1>3, SizesAssumption DEF QueueOK, Sized
<1>5. LastAloneEmpty(r)
  <2>1. SUFFICES ASSUME NEW k \in 1 .. Len(r) - 1
                 PROVE  r[k].entries # << >>
    BY DEF LastAloneEmpty
  <2>2. k \in DOMAIN q
    BY <1>2
  <2>3. CASE k \in 1 .. Len(q) - 1
    BY <1>2, <2>2, <2>3 DEF QueueOK, LastAloneEmpty
  <2>4. CASE k = Len(q)
    <3>1. j = Len(q) + 1
      BY <1>2, <2>4
    <3> QED
      BY <1>2, <2>2, <2>4, <3>1
  <2> QED
    BY <1>2, <2>2, <2>3, <2>4
<1>6. AscendingGroups(r)
  BY <1>2, <1>3 DEF QueueOK, AscendingGroups
<1>7. \A k \in 1 .. Len(q) + 1 : FullBefore(q, k) => FullBefore(r, k)
  BY <1>2 DEF FullBefore
<1>8. SpillsFromFull(r)
  <2>1. SUFFICES ASSUME NEW k \in DOMAIN r, NEW m \in DOMAIN r[k].entries,
                        SptSources(r[k].entries[m]) # {}
                 PROVE  FullBefore(r, k)
    BY DEF SpillsFromFull
  <2>2. k \in DOMAIN q /\ r[k] = q[k]
    BY <1>2, <1>3
  <2>3. FullBefore(q, k)
    BY <2>1, <2>2 DEF QueueOK, SpillsFromFull
  <2> QED
    BY <1>2, <1>7, <2>2, <2>3
<1>9. NothingTwice(Packed(r))
  <2>1. SUFFICES ASSUME NEW k1 \in DOMAIN r, NEW k2 \in DOMAIN r,
                        NEW m1 \in DOMAIN r[k1].entries,
                        NEW m2 \in DOMAIN r[k2].entries,
                        k1 # k2 \/ m1 # m2
                 PROVE  Apart(r[k1].entries[m1], r[k2].entries[m2])
    BY DEF NothingTwice, Packed
  <2>2. k1 \in DOMAIN q /\ k2 \in DOMAIN q
    BY <1>3
  <2> QED
    BY <1>2, <2>1, <2>2 DEF QueueOK, NothingTwice, Packed
<1>10. \A k0 \in Nat : EntriesFrom(r, k0) = EntriesFrom(q, k0)
  BY <1>2, <1>3 DEF EntriesFrom
<1> QED
  BY <1>2, <1>4, <1>5, <1>6, <1>7, <1>8, <1>9, <1>10 DEF QueueOK, r

(* start moves over full updates only, and not past the cursor             *)
(* (UBCursor.hpp:73-82).                                                   *)
LEMMA NewStartsFacts ==
  ASSUME NEW q \in Seq(Builder), NEW i \in DOMAIN q, NEW s \in 1 .. i,
         FullBefore(q, s), NEW t \in NewStarts(q, s, i)
  PROVE  t \in 1 .. i /\ FullBefore(q, t)
<1>1. t \in s .. i
  BY DEF NewStarts
<1>2. CASE Full(q[s])
  BY <1>1, <1>2 DEF NewStarts, FullBefore
<1>3. CASE ~Full(q[s])
  BY <1>1, <1>3 DEF NewStarts, FullBefore
<1> QED
  BY <1>2, <1>3
-----------------------------------------------------------------------------
(***************************************************************************)
(* build()                                                                 *)
(***************************************************************************)

(* Without a last update that is empty, what is returned has the entries   *)
(* of the queue, all of them, and no update without one (Pack.hpp:183-192).*)
LEMMA BuildFacts ==
  ASSUME NEW q \in Seq(Builder), QueueOK(q),
         NEW n \in Nat, n <= Len(q), Len(q) <= n + 1,
         \A k \in DOMAIN q : q[k].entries # << >> => k <= n,
         n # 0 => q[n].entries # << >>
  PROVE  LET u == [k \in 1 .. n |-> q[k].entries] IN
         /\ u \in Seq(Seq(Entry))
         /\ \A k \in DOMAIN u : u[k] # << >>
         /\ \A k \in DOMAIN u : \A m \in DOMAIN u[k] : u[k][m] \in Entries(q)
         /\ \A e \in Entries(q) :
              \E k \in DOMAIN u : \E m \in DOMAIN u[k] : e = u[k][m]
         /\ NothingTwice(u)
<1> DEFINE u == [k \in 1 .. n |-> q[k].entries]
<1>1. /\ Len(q) \in Nat /\ DOMAIN q = 1 .. Len(q)
      /\ \A k \in DOMAIN q : q[k] \in Builder
  OBVIOUS
<1>2. DOMAIN u = 1 .. n /\ 1 .. n \subseteq DOMAIN q
  BY <1>1
<1>3. \A k \in DOMAIN u : u[k] = q[k].entries /\ u[k] \in Seq(Entry)
  BY <1>1, <1>2 DEF Builder
<1>4. u \in Seq(Seq(Entry))
  <2>1. \A k \in 1 .. n : q[k].entries \in Seq(Entry)
    BY <1>2, <1>3
  <2> QED
    BY <2>1
<1> HIDE DEF u
<1>5. \A k \in DOMAIN u : u[k] # << >>
  <2>1. SUFFICES ASSUME NEW k \in DOMAIN u PROVE q[k].entries # << >>
    BY <1>3
  <2>2. CASE k = n
    BY <1>2, <2>2
  <2>3. CASE k # n
    <3>1. k \in 1 .. Len(q) - 1
      BY <1>1, <1>2, <2>3
    <3> QED
      BY <3>1 DEF QueueOK, LastAloneEmpty
  <2> QED
    BY <2>2, <2>3
<1>6. \A k \in DOMAIN u : \A m \in DOMAIN u[k] : u[k][m] \in Entries(q)
  BY <1>1, <1>2, <1>3 DEF Entries, EntriesFrom
<1>7. ASSUME NEW e \in Entries(q)
      PROVE  \E k \in DOMAIN u : \E m \in DOMAIN u[k] : e = u[k][m]
  <2>1. PICK k \in DOMAIN q : \E m \in DOMAIN q[k].entries : e = q[k].entries[m]
    BY DEF Entries, EntriesFrom
  <2>2. q[k].entries # << >>
    BY <2>1
  <2>3. k \in DOMAIN u
    BY <1>1, <1>2, <2>2
  <2> QED
    BY <1>3, <2>1, <2>3
<1>8. NothingTwice(u)
  BY <1>2, <1>3 DEF QueueOK, NothingTwice, Packed
<1> QED
  BY <1>4, <1>5, <1>6, <1>7, <1>8 DEF u
-----------------------------------------------------------------------------
(***************************************************************************)
(* The folds of the verifications (SanityCheck), over sequences of any     *)
(* length                                                                  *)
(***************************************************************************)

(* Induction over the naturals: the least of some.                         *)
LEMMA LeastNat ==
  ASSUME NEW T, T \subseteq Nat, T # {}
  PROVE  \E m \in T : \A k \in T : m <= k
<1>1. IsWellFoundedOn(OpToRel(<, Nat), Nat)
  BY NatLessThanWellFounded
<1>2. PICK m \in T : \A k \in T : ~(<<k, m>> \in OpToRel(<, Nat))
  BY <1>1, WFMin
<1>3. \A k \in T : ~(k < m)
  BY <1>2, Zenon DEF OpToRel
<1> QED
  BY <1>3

(* n is the greatest index of a set that has it, FoldLeft()'s next one.     *)
LEMMA MaxOf ==
  ASSUME NEW n \in Nat, NEW S \in SUBSET (1 .. n), n \in S
  PROVE  Seqs!Max(S) = n
<1>1. n \in S /\ \A y \in S : n >= y
  OBVIOUS
<1>2. \A x \in S : (\A y \in S : x >= y) => x = n
  OBVIOUS
<1> QED
  BY <1>1, <1>2 DEF Seqs!Max

(* What a fold over a sequence s of N elements reads from right to left:   *)
(* the function on the sets of its indices that FoldLeft() chooses.        *)
FoldsBy(g, F, a, s, n) ==
  \A S \in SUBSET (1 .. n) :
    g[S] = IF S = {} THEN a ELSE F[<<g[S \ {Seqs!Max(S)}], s[Seqs!Max(S)]>>]

(* There is such a function, for a sequence of any length.                  *)
LEMMA FoldExists ==
  ASSUME NEW A, NEW B, NEW F \in [A \X B -> A], NEW a \in A, NEW N \in Nat,
         NEW s \in [1 .. N -> B]
  PROVE  \E g \in [SUBSET (1 .. N) -> A] : FoldsBy(g, F, a, s, N)
<1> DEFINE Failing == { n \in 0 .. N : ~\E g \in [SUBSET (1 .. n) -> A] : FoldsBy(g, F, a, s, n) }
<1>1. SUFFICES Failing = {}
  <2>1. N \in 0 .. N
    OBVIOUS
  <2> QED
    BY <1>1, <2>1
<1>2. SUFFICES ASSUME Failing # {} PROVE FALSE
  OBVIOUS
<1>3. PICK n \in Failing : \A k \in Failing : n <= k
  <2>1. Failing \subseteq Nat
    OBVIOUS
  <2> HIDE DEF Failing
  <2> QED
    BY <1>2, <2>1, LeastNat
<1>4. n # 0
  <2>1. ASSUME n = 0 PROVE FALSE
    <3> DEFINE g == [S \in SUBSET (1 .. 0) |-> a]
    <3>1. \A S \in SUBSET (1 .. 0) : S = {}
      OBVIOUS
    <3>2. g \in [SUBSET (1 .. 0) -> A] /\ \A S \in SUBSET (1 .. 0) : g[S] = a
      OBVIOUS
    <3>3. FoldsBy(g, F, a, s, 0)
      BY <3>1, <3>2, Zenon DEF FoldsBy
    <3> QED
      BY <2>1, <3>2, <3>3
  <2> QED
    BY <2>1
<1>5. n \in 1 .. N /\ n - 1 \in 0 .. N /\ n - 1 \notin Failing
  <2>1. n \in 1 .. N
    BY <1>4
  <2> HIDE DEF Failing
  <2> QED
    BY <1>3, <2>1
<1>6. PICK g \in [SUBSET (1 .. n - 1) -> A] : FoldsBy(g, F, a, s, n - 1)
  BY <1>5
<1> HIDE DEF Failing
<1> DEFINE h == [S \in SUBSET (1 .. n) |-> IF n \in S THEN F[<<g[S \ {n}], s[n]>>] ELSE g[S]]
<1>7. \A S \in SUBSET (1 .. n) : /\ n \in S => S \ {n} \in SUBSET (1 .. n - 1)
                                 /\ n \notin S => S \in SUBSET (1 .. n - 1)
  BY <1>5
<1>8. h \in [SUBSET (1 .. n) -> A]
  <2>1. ASSUME NEW S \in SUBSET (1 .. n)
        PROVE  (IF n \in S THEN F[<<g[S \ {n}], s[n]>>] ELSE g[S]) \in A
    BY <1>5, <1>6, <1>7
  <2> QED
    BY <2>1
<1>9. FoldsBy(h, F, a, s, n)
  <2>1. SUFFICES ASSUME NEW S \in SUBSET (1 .. n), S # {}
                 PROVE  h[S] = F[<<h[S \ {Seqs!Max(S)}], s[Seqs!Max(S)]>>]
    <3>1. {} \in SUBSET (1 .. n) /\ {} \in SUBSET (1 .. n - 1) /\ n \notin {}
      OBVIOUS
    <3>2. h[{}] = a
      BY <1>6, <3>1 DEF FoldsBy
    <3> QED
      BY <2>1, <3>2, Zenon DEF FoldsBy
  <2>2. CASE n \in S
    <3>1. Seqs!Max(S) = n
      BY <1>5, <2>2, MaxOf
    <3>2. S \ {n} \in SUBSET (1 .. n) /\ n \notin S \ {n}
      OBVIOUS
    <3> QED
      BY <2>2, <3>1, <3>2
  <2>3. CASE n \notin S
    <3>1. S \in SUBSET (1 .. n - 1)
      BY <1>7, <2>3
    <3>2. PICK x : x = Seqs!Max(S)
      OBVIOUS
    <3>3. S \ {x} \in SUBSET (1 .. n) /\ S \ {x} \in SUBSET (1 .. n - 1) /\ n \notin S \ {x}
      BY <2>3, <3>1
    <3>4. h[S] = g[S] /\ h[S \ {x}] = g[S \ {x}]
      BY <2>3, <3>3
    <3>5. g[S] = F[<<g[S \ {x}], s[x]>>]
      BY <1>6, <2>1, <3>1, <3>2, Zenon DEF FoldsBy
    <3> QED
      BY <3>2, <3>4, <3>5, Zenon
  <2> QED
    BY <2>2, <2>3
<1>10. n \notin Failing
  <2> HIDE DEF h
  <2> QED
    BY <1>5, <1>8, <1>9 DEF Failing
<1> QED
  BY <1>10

(* Along the prefixes of the sequence the fold takes one step after the    *)
(* other.                                                                  *)
LEMMA FoldSteps ==
  ASSUME NEW n \in Nat \ {0}
  PROVE  /\ 1 .. n \in SUBSET (1 .. n) /\ 1 .. n # {}
         /\ Seqs!Max(1 .. n) = n /\ (1 .. n) \ {n} = 1 .. n - 1
<1>1. n \in 1 .. n /\ 1 .. n \in SUBSET (1 .. n) /\ (1 .. n) \ {n} = 1 .. n - 1
  OBVIOUS
<1> QED
  BY <1>1, MaxOf

(* SequencesExt takes the greatest index of a set, which is in it.          *)
LEMMA MaxIn ==
  ASSUME NEW n \in Nat, NEW S \in SUBSET (1 .. n), S # {}
  PROVE  Seqs!Max(S) \in S
<1> DEFINE T == { n - k : k \in S }
<1>1. T \subseteq Nat /\ T # {}
  <2>1. \A k \in S : n - k \in Nat
    OBVIOUS
  <2> QED
    BY <2>1
<1>2. PICK m \in T : \A k \in T : m <= k
  <2> HIDE DEF T
  <2> QED
    BY <1>1, LeastNat
<1>3. PICK x \in S : m = n - x
  BY <1>2
<1>4. ASSUME NEW y \in S PROVE x >= y
  <2>1. n - y \in T
    OBVIOUS
  <2>2. n - x <= n - y
    BY <1>2, <1>3, <2>1
  <2> QED
    BY <2>2
<1> QED
  BY <1>4 DEF Seqs!Max

(* Induction over 0 .. n: the numbers K for which something holds.         *)
LEMMA FromZero ==
  ASSUME NEW n \in Nat, NEW K, 0 \in K, \A k \in 1 .. n : k - 1 \in K => k \in K
  PROVE  \A k \in 0 .. n : k \in K
<1> DEFINE T == { k \in 0 .. n : k \notin K }
<1>1. SUFFICES ASSUME T # {} PROVE FALSE
  OBVIOUS
<1>2. PICK m \in T : \A k \in T : m <= k
  <2>1. T \subseteq Nat
    OBVIOUS
  <2> HIDE DEF T
  <2> QED
    BY <1>1, <2>1, LeastNat
<1>3. m \in 1 .. n /\ m - 1 \in 0 .. n /\ ~(m <= m - 1)
  OBVIOUS
<1>4. m - 1 \in K
  BY <1>2, <1>3
<1> QED
  BY <1>3, <1>4
-----------------------------------------------------------------------------
(***************************************************************************)
(* The entries that are read, all of them, one lost and one repeated       *)
(***************************************************************************)

(* The first n entries of an update.                                       *)
FirstEntries(u, n) == { u[j] : j \in 1 .. n }

(* The entries of the first n updates.                                     *)
FirstUpdates(us, n) == UNION { FirstEntries(us[k], Len(us[k])) : k \in 1 .. n }

LEMMA FirstUpdatesFacts ==
  ASSUME NEW us \in Seq(Seq(Entry)), NEW n \in 1 .. Len(us)
  PROVE  /\ FirstUpdates(us, n) = FirstUpdates(us, n - 1) \cup FirstEntries(us[n], Len(us[n]))
         /\ FirstUpdates(us, n - 1) \in SUBSET Entry
         /\ \A e : e \in FirstUpdates(us, n - 1) <=>
              \E k \in 1 .. n - 1 : \E j \in 1 .. Len(us[k]) : e = us[k][j]
<1> PICK N \in Nat : N = Len(us)
  OBVIOUS
<1>1. 1 .. n = (1 .. n - 1) \cup {n}
  OBVIOUS
<1>2. FirstUpdates(us, n) = FirstUpdates(us, n - 1) \cup FirstEntries(us[n], Len(us[n]))
  BY <1>1, Zenon DEF FirstUpdates
<1>3. \A e : e \in FirstUpdates(us, n - 1) <=>
              \E k \in 1 .. n - 1 : \E j \in 1 .. Len(us[k]) : e = us[k][j]
  <2>1. \A e : e \in FirstUpdates(us, n - 1) <=>
          \E k \in 1 .. n - 1 : e \in FirstEntries(us[k], Len(us[k]))
    BY DEF FirstUpdates
  <2>2. \A e, k : e \in FirstEntries(us[k], Len(us[k])) <=>
          \E j \in 1 .. Len(us[k]) : e = us[k][j]
    BY DEF FirstEntries
  <2> QED
    BY <2>1, <2>2, Zenon
<1>4. \A k \in 1 .. n - 1 : \A j \in 1 .. Len(us[k]) : us[k][j] \in Entry
  <2>1. \A k \in 1 .. n - 1 : us[k] \in Seq(Entry)
    OBVIOUS
  <2> QED
    BY <2>1
<1>5. FirstUpdates(us, n - 1) \in SUBSET Entry
  <2>1. ASSUME NEW e \in FirstUpdates(us, n - 1) PROVE e \in Entry
    <3>1. PICK k \in 1 .. n - 1 : \E j \in 1 .. Len(us[k]) : e = us[k][j]
      BY <1>3
    <3> QED
      BY <1>4, <3>1, Zenon
  <2> QED
    BY <2>1
<1> QED
  BY <1>2, <1>3, <1>5

(* All the entries of the updates.                                         *)
AllEntries(us) == FirstUpdates(us, Len(us))

LEMMA AllEntriesFacts ==
  ASSUME NEW us \in Seq(Seq(Entry))
  PROVE  /\ AllEntries(us) \in SUBSET Entry
         /\ \A e : e \in AllEntries(us) <=>
              \E k \in DOMAIN us : \E j \in DOMAIN us[k] : e = us[k][j]
         /\ \A g : g \in GroupsIn(us) <=> \E e \in AllEntries(us) : e.group = g
<1>1. \A k \in DOMAIN us : us[k] \in Seq(Entry)
  OBVIOUS
<1>2. \A k \in DOMAIN us : DOMAIN us[k] = 1 .. Len(us[k]) /\ \A j \in DOMAIN us[k] : us[k][j] \in Entry
  BY <1>1
<1>3. DOMAIN us = 1 .. Len(us)
  OBVIOUS
<1>4. \A e : e \in AllEntries(us) <=> \E k \in DOMAIN us : \E j \in DOMAIN us[k] : e = us[k][j]
  <2>1. \A e : e \in AllEntries(us) <=> \E k \in DOMAIN us : e \in FirstEntries(us[k], Len(us[k]))
    BY <1>3 DEF FirstUpdates, AllEntries
  <2>2. \A k \in DOMAIN us : \A e : e \in FirstEntries(us[k], Len(us[k])) <=>
          \E j \in DOMAIN us[k] : e = us[k][j]
    BY <1>2, Zenon DEF FirstEntries
  <2>3. ASSUME NEW e, e \in AllEntries(us)
        PROVE  \E k \in DOMAIN us : \E j \in DOMAIN us[k] : e = us[k][j]
    <3>1. PICK k \in DOMAIN us : e \in FirstEntries(us[k], Len(us[k]))
      BY <2>1, <2>3
    <3>2. PICK j \in DOMAIN us[k] : e = us[k][j]
      BY <2>2, <3>1
    <3> QED
      BY <3>2
  <2>4. ASSUME NEW k \in DOMAIN us, NEW j \in DOMAIN us[k]
        PROVE  us[k][j] \in AllEntries(us)
    <3>1. us[k][j] \in FirstEntries(us[k], Len(us[k]))
      BY <2>2
    <3> QED
      BY <2>1, <3>1
  <2> QED
    BY <2>3, <2>4, Zenon
<1>5. AllEntries(us) \in SUBSET Entry
  <2>1. ASSUME NEW e \in AllEntries(us) PROVE e \in Entry
    <3>1. PICK k \in DOMAIN us : \E j \in DOMAIN us[k] : e = us[k][j]
      BY <1>4
    <3>2. PICK j \in DOMAIN us[k] : e = us[k][j]
      BY <3>1
    <3> QED
      BY <1>2, <3>2
  <2> QED
    BY <2>1
<1>6. \A g : g \in GroupsIn(us) <=> \E k \in DOMAIN us : \E j \in DOMAIN us[k] : g = us[k][j].group
  BY DEF GroupsIn
<1>7. \A g : g \in GroupsIn(us) <=> \E e \in AllEntries(us) : e.group = g
  <2>1. ASSUME NEW g, g \in GroupsIn(us) PROVE \E e \in AllEntries(us) : e.group = g
    <3>1. PICK k \in DOMAIN us : \E j \in DOMAIN us[k] : g = us[k][j].group
      BY <1>6, <2>1
    <3>2. PICK j \in DOMAIN us[k] : g = us[k][j].group
      BY <3>1
    <3>3. us[k][j] \in AllEntries(us)
      BY <1>4
    <3> QED
      BY <3>2, <3>3
  <2>2. ASSUME NEW g, NEW e \in AllEntries(us), e.group = g PROVE g \in GroupsIn(us)
    <3>1. PICK k \in DOMAIN us : \E j \in DOMAIN us[k] : e = us[k][j]
      BY <1>4
    <3>2. PICK j \in DOMAIN us[k] : e = us[k][j]
      BY <3>1
    <3>3. \E k0 \in DOMAIN us : \E j0 \in DOMAIN us[k0] : g = us[k0][j0].group
      BY <2>2, <3>2
    <3> QED
      BY <1>6, <3>3
  <2> QED
    BY <2>1, <2>2
<1> QED
  BY <1>4, <1>5, <1>7

(* The updates without entry j of update k.                                *)
LEMMA WithoutFacts ==
  ASSUME NEW us \in Seq(Seq(Entry)), NEW k \in DOMAIN us, NEW j \in DOMAIN us[k]
  PROVE  /\ Without(us, k, j) \in Seq(Seq(Entry))
         /\ \A e \in AllEntries(Without(us, k, j)) :
              \E l \in DOMAIN us : \E i0 \in DOMAIN us[l] :
                e = us[l][i0] /\ (l # k \/ i0 # j)
<1> PICK w : w = Without(us, k, j)
  OBVIOUS
<1>0. PICK u \in Seq(Entry) : u = us[k]
  OBVIOUS
<1>1. PICK v \in Seq(Entry) : v = Seqs!RemoveAt(u, j) /\
        \A i0 \in DOMAIN v : \E l \in DOMAIN u : l # j /\ v[i0] = u[l]
  <2> DEFINE v == Seqs!RemoveAt(u, j)
  <2>0. j \in 1 .. Len(u) /\ Len(u) \in Nat /\ DOMAIN u = 1 .. Len(u)
    BY <1>0
  <2>1. PICK a \in Seq(Entry), b \in Seq(Entry) :
          a = SubSeq(u, 1, j - 1) /\ b = SubSeq(u, j + 1, Len(u))
    <3>1. SubSeq(u, 1, j - 1) \in Seq(Entry) /\ SubSeq(u, j + 1, Len(u)) \in Seq(Entry)
      BY <2>0
    <3> QED
      BY <3>1
  <2>2. v = a \o b
    BY <2>1 DEF Seqs!RemoveAt
  <2>3. /\ Len(a) = j - 1 /\ Len(b) = Len(u) - j
        /\ \A i0 \in 1 .. Len(a) : a[i0] = u[i0]
        /\ \A i0 \in 1 .. Len(b) : b[i0] = u[j + i0]
    <3>1. Len(a) = j - 1
      BY <2>0, <2>1
    <3>2. Len(b) = Len(u) - j
      BY <2>0, <2>1
    <3>3. \A i0 \in 1 .. Len(a) : a[i0] = u[i0]
      BY <2>0, <2>1, <3>1
    <3>4. \A i0 \in 1 .. Len(b) : b[i0] = u[j + i0]
      <4>1. SUFFICES ASSUME NEW i0 \in 1 .. Len(b) PROVE b[i0] = u[j + i0]
        OBVIOUS
      <4> PICK m, n : m = j + 1 /\ n = Len(u)
        OBVIOUS
      <4>2. m \in Int /\ n \in Int /\ j \in Int /\ i0 \in Int
        BY <2>0
      <4>3. b = SubSeq(u, m, n) /\ i0 \in 1 .. (n - m) + 1
        BY <2>0, <2>1, <3>2, <4>2
      <4>4. b[i0] = u[m + i0 - 1]
        BY <2>1, <4>2, <4>3
      <4> QED
        BY <4>2, <4>4
    <3> QED
      BY <3>1, <3>2, <3>3, <3>4
  <2>4. ASSUME NEW i0 \in DOMAIN v PROVE \E l \in DOMAIN u : l # j /\ v[i0] = u[l]
    <3>1. CASE i0 <= Len(a)
      <4>1. v[i0] = a[i0] /\ i0 \in 1 .. Len(a) /\ i0 \in DOMAIN u /\ i0 # j
        BY <2>0, <2>2, <2>3, <3>1
      <4> QED
        BY <2>3, <4>1
    <3>2. CASE i0 > Len(a)
      <4>1. i0 - Len(a) \in 1 .. Len(b) /\ v[i0] = b[i0 - Len(a)]
        BY <2>0, <2>2, <2>3, <3>2
      <4>2. b[i0 - Len(a)] = u[j + (i0 - Len(a))]
        BY <2>3, <4>1
      <4>3. j + (i0 - Len(a)) \in DOMAIN u /\ j + (i0 - Len(a)) # j
        BY <2>0, <2>3, <4>1
      <4> QED
        BY <4>1, <4>2, <4>3, Zenon
    <3>3. i0 \in Int /\ Len(a) \in Int
      BY <2>1, <2>2
    <3> QED
      BY <3>1, <3>2, <3>3
  <2>5. v \in Seq(Entry)
    BY <2>2
  <2> QED
    BY <2>4, <2>5
<1>2. w = [us EXCEPT ![k] = v]
  BY <1>0, <1>1 DEF Without
<1>3. w \in Seq(Seq(Entry)) /\ DOMAIN w = DOMAIN us /\ w[k] = v /\ \A l \in DOMAIN us : l # k => w[l] = us[l]
  BY <1>2
<1>4. ASSUME NEW e \in AllEntries(w)
      PROVE  \E l \in DOMAIN us : \E i0 \in DOMAIN us[l] : e = us[l][i0] /\ (l # k \/ i0 # j)
  <2>1. PICK l \in DOMAIN w : \E i0 \in DOMAIN w[l] : e = w[l][i0]
    BY <1>3, AllEntriesFacts
  <2>2. PICK i0 \in DOMAIN w[l] : e = w[l][i0]
    BY <2>1
  <2>3. CASE l = k
    <3>1. i0 \in DOMAIN v /\ e = v[i0]
      BY <1>3, <2>2, <2>3
    <3>2. PICK l0 \in DOMAIN u : l0 # j /\ v[i0] = u[l0]
      BY <1>1, <3>1
    <3> QED
      BY <1>0, <3>1, <3>2
  <2>4. CASE l # k
    BY <1>3, <2>2, <2>4, Zenon
  <2> QED
    BY <2>3, <2>4
<1> QED
  BY <1>3, <1>4, Zenon

(* An update of one entry, after all the others.                           *)
LEMMA DoubledFacts ==
  ASSUME NEW us \in Seq(Seq(Entry)), NEW k \in DOMAIN us, NEW j \in DOMAIN us[k]
  PROVE  /\ Doubled(us, k, j) \in Seq(Seq(Entry))
         /\ Len(Doubled(us, k, j)) = Len(us) + 1
         /\ Doubled(us, k, j)[Len(us) + 1] = << us[k][j] >>
         /\ us[k][j] \in FirstUpdates(Doubled(us, k, j), Len(us))
         /\ AllEntries(Doubled(us, k, j)) = AllEntries(us)
<1> PICK w : w = Doubled(us, k, j)
  OBVIOUS
<1> PICK N \in Nat : N = Len(us)
  OBVIOUS
<1>0. PICK e \in Entry : e = us[k][j]
  <2>1. us[k] \in Seq(Entry)
    OBVIOUS
  <2>2. us[k][j] \in Entry
    BY <2>1
  <2> QED
    BY <2>2
<1>1. w = Append(us, << e >>) /\ << e >> \in Seq(Entry)
  BY <1>0 DEF Doubled
<1>2. /\ w \in Seq(Seq(Entry)) /\ Len(w) = N + 1 /\ w[N + 1] = << e >>
      /\ \A l \in 1 .. N : w[l] = us[l]
  BY <1>1
<1>3. /\ us[k] \in Seq(Entry) /\ DOMAIN us[k] = 1 .. Len(us[k]) /\ DOMAIN us = 1 .. N
      /\ DOMAIN w = 1 .. N + 1
  BY <1>2
<1>4. e \in FirstUpdates(w, N)
  <2>1. N + 1 \in 1 .. Len(w) /\ (N + 1) - 1 = N
    BY <1>2
  <2>2. \A d : d \in FirstUpdates(w, N) <=>
          \E l \in 1 .. N : \E i0 \in 1 .. Len(w[l]) : d = w[l][i0]
    <3>1. \A d : d \in FirstUpdates(w, (N + 1) - 1) <=>
            \E l \in 1 .. (N + 1) - 1 : \E i0 \in 1 .. Len(w[l]) : d = w[l][i0]
      BY <1>2, <2>1, FirstUpdatesFacts
    <3> QED
      BY <2>1, <3>1
  <2>3. k \in 1 .. N /\ j \in 1 .. Len(w[k]) /\ e = w[k][j]
    BY <1>0, <1>2, <1>3
  <2> QED
    BY <2>2, <2>3
<1>a. \A d : d \in AllEntries(us) <=> \E l \in DOMAIN us : \E i0 \in DOMAIN us[l] : d = us[l][i0]
  BY AllEntriesFacts
<1>b. \A d : d \in AllEntries(w) <=> \E l \in DOMAIN w : \E i0 \in DOMAIN w[l] : d = w[l][i0]
  BY <1>2, AllEntriesFacts
<1>5. \A d : d \in AllEntries(w) <=> d \in AllEntries(us)
  <2>1. ASSUME NEW d, d \in AllEntries(us) PROVE d \in AllEntries(w)
    <3>1. PICK l \in DOMAIN us : \E i0 \in DOMAIN us[l] : d = us[l][i0]
      BY <1>a, <2>1
    <3>2. l \in DOMAIN w /\ w[l] = us[l]
      BY <1>2, <1>3
    <3>3. \E i0 \in DOMAIN w[l] : d = w[l][i0]
      BY <3>1, <3>2
    <3> QED
      BY <1>b, <3>2, <3>3, Zenon
  <2>2. ASSUME NEW d, d \in AllEntries(w) PROVE d \in AllEntries(us)
    <3>1. PICK l \in DOMAIN w : \E i0 \in DOMAIN w[l] : d = w[l][i0]
      BY <1>b, <2>2
    <3>2. CASE l = N + 1
      <4>1. d = e
        BY <1>2, <3>1, <3>2
      <4> QED
        BY <1>0, <1>a, <4>1, Zenon
    <3>3. CASE l # N + 1
      <4>0. l \in 1 .. N
        <5>1. l \in 1 .. N + 1
          BY <1>3
        <5> QED
          BY <3>3, <5>1
      <4>1. l \in DOMAIN us /\ w[l] = us[l]
        BY <1>2, <1>3, <4>0, Zenon
      <4>2. \E i0 \in DOMAIN us[l] : d = us[l][i0]
        BY <3>1, <4>1
      <4> QED
        BY <1>a, <4>1, <4>2, Zenon
    <3> QED
      BY <3>2, <3>3
  <2> QED
    BY <2>1, <2>2
<1>6. AllEntries(w) = AllEntries(us)
  BY <1>5
<1> QED
  BY <1>0, <1>2, <1>4, <1>6
=============================================================================
