-------------------------- MODULE Manifest_proofs --------------------------
(***************************************************************************)
(* What holds of Manifest for any number of files, phones and listings,    *)
(* however often the process restarts and the user interferes.             *)
(***************************************************************************)
EXTENDS Manifest, TLAPS

USE FilesAssumption DEF FilesAssumption

-----------------------------------------------------------------------------
(* Types.                                                                   *)

LEMMA LocalPathType ==
    ASSUME RowType, NEW i \in Items PROVE LocalPath(i) \in Paths
<1>1. row[i].date \in Buckets
  BY DEF RowType
<1>2. Folder[i] \in Marks /\ Plain \in Marks
  BY DEF Marks
<1> QED BY <1>1, <1>2 DEF LocalPath, Paths

LEMMA SetStatusType ==
    ASSUME RowType, NEW S, NEW s \in Statuses, SetStatus(S, s)
    PROVE RowType'
<1>1. ASSUME NEW i \in Items
      PROVE row'[i] \in [status : Statuses, date : Buckets,
                         pair : Items \union {NoItem},
                         local : Paths \union {NoPath}]
  <2>1. row[i] \in [status : Statuses, date : Buckets,
                    pair : Items \union {NoItem},
                    local : Paths \union {NoPath}]
    BY DEF RowType
  <2>2. CASE i \in S
    BY <2>1, <2>2 DEF SetStatus
  <2>3. CASE i \notin S
    BY <2>1, <2>3 DEF SetStatus
  <2> QED BY <2>2, <2>3
<1>2. row' = [i \in Items |-> row'[i]]
  BY DEF SetStatus
<1> QED BY <1>1, <1>2 DEF RowType

LEMMA PartnerType ==
    ASSUME RowType, NEW i \in Items PROVE Partner(i) \in Items \union {NoItem}
<1>1. row[i].pair \in Items \union {NoItem}
  BY DEF RowType
<1>2. CASE \E j \in Items : Linked(i, j)
  BY <1>2 DEF Partner
<1>3. CASE ~\E j \in Items : Linked(i, j)
  BY <1>1, <1>3 DEF Partner
<1> QED BY <1>2, <1>3

LEMMA InitType == Init => TypeOK
<1> SUFFICES ASSUME Init PROVE TypeOK
  OBVIOUS
<1>1. RowType
  BY DEF Init, RowType, NoRow, Statuses, Buckets
<1>2. reads \in BOOLEAN
  BY Zenon DEF Init
<1>3. /\ listing \in [step : {"none", "upsert", "pair", "requeue"},
                     dev : Devices \union {NoDevice}, seen : SUBSET Items,
                     dated : BOOLEAN]
      /\ listing.step = "none"
  BY DEF Init, NoListing
<1> QED BY <1>1, <1>2, <1>3 DEF Init, TypeOK

\* What a listing that raises leaves behind.
LEMMA RaisesSpends ==
    ASSUME TypeOK, ListRaises
    PROVE  /\ spent' \in [listings : Nat, troubles : Nat, torn : SUBSET Devices]
           /\ spent.torn \subseteq spent'.torn
           /\ listing.step = "pair" => listing.dev \in spent'.torn
<1> DEFINE torn == IF listing.step = "pair" THEN spent.torn \union {listing.dev}
                                            ELSE spent.torn
           s == [spent EXCEPT !.troubles = spent.troubles + 1, !.torn = torn]
<1>1. spent \in [listings : Nat, troubles : Nat, torn : SUBSET Devices]
  BY DEF TypeOK
<1>2. /\ torn \in SUBSET Devices /\ spent.torn \subseteq torn
      /\ listing.step = "pair" => listing.dev \in torn
  BY <1>1 DEF TypeOK, ListRaises
<1>3. spent' = s
  BY DEF ListRaises
<1>4. spent.troubles + 1 \in Nat
  BY <1>1
<1> HIDE DEF torn
<1>5. /\ s \in [listings : Nat, troubles : Nat, torn : SUBSET Devices]
      /\ s.torn = torn
  BY <1>1, <1>2, <1>4
<1> QED BY <1>2, <1>3, <1>5

LEMMA ListingType ==
    ASSUME TypeOK, Listing PROVE TypeOK'
<1> USE DEF TypeOK
<1>1. CASE ListWalk
  BY <1>1 DEF ListWalk, RowType
<1>2. CASE ListUpsert
  <2>1. ASSUME NEW i \in Items
        PROVE Listed(i) \in [status : Statuses, date : Buckets,
                             pair : Items \union {NoItem},
                             local : Paths \union {NoPath}]
    <3>1. row[i] \in [status : Statuses, date : Buckets,
                      pair : Items \union {NoItem},
                      local : Paths \union {NoPath}]
      BY DEF RowType
    <3>2. Month[i] \in Buckets /\ "pending" \in Statuses
      BY DEF Buckets, Statuses
    <3>3. CASE row[i].date = Unknown /\ listing.dated
      BY <3>1, <3>2, <3>3 DEF Listed
    <3>4. CASE ~(row[i].date = Unknown /\ listing.dated)
      BY <3>1, <3>2, <3>4 DEF Listed
    <3> QED BY <3>3, <3>4
  <2>2. ASSUME NEW i \in Items
        PROVE row'[i] \in [status : Statuses, date : Buckets,
                           pair : Items \union {NoItem},
                           local : Paths \union {NoPath}]
    BY <1>2, <2>1 DEF ListUpsert, RowType
  <2>3. RowType'
    BY <1>2, <2>2 DEF ListUpsert, RowType
  <2> QED BY <1>2, <2>3 DEF ListUpsert
<1>3. CASE ListPair
  <2>1. ASSUME NEW i \in Items
        PROVE row'[i] \in [status : Statuses, date : Buckets,
                           pair : Items \union {NoItem},
                           local : Paths \union {NoPath}]
    <3>1. Partner(i) \in Items \union {NoItem}
      BY PartnerType
    <3>2. row'[i] = [row[i] EXCEPT !.pair = Partner(i)]
      BY <1>3 DEF ListPair
    <3> QED BY <3>1, <3>2 DEF RowType
  <2>2. RowType'
    BY <1>3, <2>1 DEF ListPair, RowType
  <2> QED BY <1>3, <2>2 DEF ListPair
<1>4. CASE ListRequeue
  <2>1. RowType'
    BY <1>4, SetStatusType DEF ListRequeue, Statuses
  <2>2. listing.dev \in Devices
    BY <1>4 DEF ListRequeue
  <2>3. listed' \subseteq Devices
    BY <1>4, <2>2 DEF ListRequeue
  <2> QED BY <1>4, <2>1, <2>3 DEF ListRequeue, NoListing
<1>5. CASE ListRaises
  BY <1>5, RaisesSpends DEF ListRaises, RowType, NoListing
<1> QED BY <1>1, <1>2, <1>3, <1>4, <1>5 DEF Listing

LEMMA RunType ==
    ASSUME TypeOK, Run \/ \E i \in Items : Delete(i) PROVE TypeOK'
<1> USE DEF TypeOK
<1>1. CASE Start
  <2>1. RowType'
    BY <1>1, SetStatusType DEF Start, Statuses
  <2>2. here \in Devices
    BY <1>1 DEF Start
  <2> QED BY <1>1, <2>1, <2>2 DEF Start
<1>2. ASSUME NEW i \in Items, Claim(i) PROVE TypeOK'
  <2>1. LocalPath(i) \in Paths
    BY LocalPathType
  <2>2. ASSUME NEW j \in Items
        PROVE row'[j] \in [status : Statuses, date : Buckets,
                           pair : Items \union {NoItem},
                           local : Paths \union {NoPath}]
    <3>1. row[j] \in [status : Statuses, date : Buckets,
                      pair : Items \union {NoItem},
                      local : Paths \union {NoPath}]
      BY DEF RowType
    <3>2. CASE j = i
      BY <1>2, <2>1, <3>1, <3>2 DEF Claim, Statuses, RowType
    <3>3. CASE j # i
      BY <1>2, <3>1, <3>3 DEF Claim, RowType
    <3> QED BY <3>2, <3>3
  <2>3. row' = [j \in Items |-> row'[j]]
    BY <1>2 DEF Claim, RowType
  <2>4. RowType'
    BY <2>2, <2>3 DEF RowType
  <2> QED BY <1>2, <2>4 DEF Claim
<1>3. CASE Finish
  <2>1. RowType'
    BY <1>3, SetStatusType DEF Finish, Statuses
  <2>2. disk' \in [Paths -> Items \union {NoItem}]
    BY <1>3 DEF Finish
  <2> QED BY <1>3, <2>1, <2>2 DEF Finish
<1>4. CASE Fail
  <2>1. RowType'
    BY <1>4, SetStatusType DEF Fail, Statuses
  <2>2. spent' \in [listings : Nat, troubles : Nat, torn : SUBSET Devices]
    BY <1>4 DEF Fail
  <2> QED BY <1>4, <2>1, <2>2 DEF Fail
<1>5. CASE Drain
  <2>1. RowType'
    BY <1>5 DEF Drain, RowType, Statuses
  <2> QED BY <1>5, <2>1 DEF Drain, On
<1>6. ASSUME NEW i \in Items, Delete(i) PROVE TypeOK'
  <2>1. RowType'
    BY <1>6, SetStatusType DEF Delete, Statuses
  <2> QED BY <1>6, <2>1 DEF Delete
<1> QED BY <1>1, <1>2, <1>3, <1>4, <1>5, <1>6 DEF Run

LEMMA EnvironmentType ==
    ASSUME TypeOK, Environment PROVE TypeOK'
<1> USE DEF TypeOK
<1>1. ASSUME NEW d \in Devices, Connect(d) PROVE TypeOK'
  BY <1>1 DEF Connect, RowType
<1>2. CASE Unplug
  <2>1. RowType'
    BY <1>2, SetStatusType DEF Unplug, Statuses
  <2>2. spent' \in [listings : Nat, troubles : Nat, torn : SUBSET Devices]
    BY <1>2 DEF Unplug
  <2> QED BY <1>2, <2>1, <2>2 DEF Unplug
<1>3. CASE Restart
  <2>1. reads' \in BOOLEAN
    BY <1>3, Zenon DEF Restart
  <2>2. RowType'
    BY <1>3 DEF Restart, RowType
  <2>3. spent' \in [listings : Nat, troubles : Nat, torn : SUBSET Devices]
    BY <1>3 DEF Restart, Trouble
  <2>4. listing' = NoListing
    BY <1>3 DEF Restart
  <2>5. /\ listing' \in [step : {"none", "upsert", "pair", "requeue"},
                         dev : Devices \union {NoDevice}, seen : SUBSET Items,
                         dated : BOOLEAN]
        /\ listing'.step = "none"
    BY <2>4 DEF NoListing
  <2> QED BY <1>3, <2>1, <2>2, <2>3, <2>5 DEF Restart
<1>4. ASSUME NEW i \in Items, Shoot(i) PROVE TypeOK'
  BY <1>4 DEF Shoot, RowType
<1>5. ASSUME NEW i \in Items, Trash(i) PROVE TypeOK'
  BY <1>5 DEF Trash, Trouble, RowType
<1>6. ASSUME NEW p \in Paths, Remove(p) PROVE TypeOK'
  BY <1>6 DEF Remove, Trouble, RowType
<1> QED BY <1>1, <1>2, <1>3, <1>4, <1>5, <1>6 DEF Environment

LEMMA StutterType ==
    ASSUME TypeOK, UNCHANGED vars PROVE TypeOK'
BY DEF TypeOK, RowType, vars

\* Every variable keeps its type.
THEOREM TypeCorrect == Spec => []TypeOK
<1>1. TypeOK /\ [Next]_vars => TypeOK'
  BY ListingType, RunType, EnvironmentType, StutterType DEF Next
<1> QED BY <1>1, InitType, PTL DEF Spec

-----------------------------------------------------------------------------
(* Live Photos: links are mutual and well-matched.                          *)

\* Only ListPair writes links.
LEMMA LinksKept ==
    ASSUME TypeOK, [Next]_vars, ~ListPair
    PROVE  \A i \in Items : row'[i].pair = row[i].pair
<1> USE DEF TypeOK, RowType
<1>1. ASSUME NEW S, NEW s, SetStatus(S, s)
      PROVE \A i \in Items : row'[i].pair = row[i].pair
  BY <1>1 DEF SetStatus
<1>2. CASE Listing
  <2>1. CASE ListUpsert
    <3>1. \A i \in Items : Listed(i).pair = row[i].pair
      BY DEF Listed
    <3> QED BY <2>1, <3>1 DEF ListUpsert
  <2>2. CASE ListRequeue
    BY <2>2, <1>1 DEF ListRequeue
  <2>3. CASE ListWalk \/ ListRaises
    BY <2>3 DEF ListWalk, ListRaises
  <2> QED BY <1>2, <2>1, <2>2, <2>3 DEF Listing
<1>3. CASE Run
  <2>1. CASE Start \/ Finish \/ Fail
    BY <2>1, <1>1 DEF Start, Finish, Fail
  <2>2. ASSUME NEW j \in Items, Claim(j)
        PROVE \A i \in Items : row'[i].pair = row[i].pair
    BY <2>2 DEF Claim
  <2>3. CASE Drain
    BY <2>3 DEF Drain
  <2> QED BY <1>3, <2>1, <2>2, <2>3 DEF Run
<1>4. ASSUME NEW j \in Items, Delete(j)
      PROVE \A i \in Items : row'[i].pair = row[i].pair
  BY <1>4, <1>1 DEF Delete
<1>5. CASE Environment
  <2>1. CASE Unplug
    BY <2>1, <1>1 DEF Unplug
  <2>2. CASE ~Unplug
    BY <1>5, <2>2 DEF Environment, Connect, Restart, Shoot, Trash, Remove
  <2> QED BY <2>1, <2>2
<1>6. CASE UNCHANGED vars
  BY <1>6 DEF vars
<1> QED BY <1>2, <1>3, <1>4, <1>5, <1>6 DEF Next

\* A link joins two rows and nothing else: it can be read from either side.
LEMMA LinkedIsMutual ==
    ASSUME NEW i \in Items, NEW j \in Items, Linked(i, j)
    PROVE  /\ Linked(j, i)
           /\ \A k \in Items : Linked(i, k) => k = j
           /\ row[i].pair = NoItem /\ row[j].pair = NoItem
           /\ Device[i] = Device[j] /\ Stem[i] = Stem[j]
           /\ \/ Ext[i] \in Images /\ Ext[j] \in Motions
              \/ Ext[j] \in Images /\ Ext[i] \in Motions
BY NamesAssumption DEF Linked, Only, Loose

LEMMA PairKept ==
    ASSUME TypeOK, PairsAreMutual, ListPair PROVE PairsAreMutual'
<1> USE DEF TypeOK, RowType
<1> SUFFICES ASSUME NEW i \in Items, NEW j \in Items, row'[i].pair = j
             PROVE /\ row'[j].pair = i
                   /\ Device[i] = Device[j] /\ Stem[i] = Stem[j]
                   /\ {i, j} \intersect {k \in Items : Ext[k] \in Images} # {}
                   /\ {i, j} \intersect {k \in Items : Ext[k] \in Motions} # {}
  BY DEF PairsAreMutual
<1>1. \A k \in Items : row'[k].pair = Partner(k)
  BY DEF ListPair
<1>2. CASE \E k \in Items : Linked(i, k)
  <2>1. Linked(i, j)
    BY <1>1, <1>2 DEF Partner
  <2>2. Linked(j, i) /\ \A k \in Items : Linked(j, k) => k = i
    BY <2>1, LinkedIsMutual
  <2>3. Partner(j) = i
    BY <2>2 DEF Partner
  <2> QED BY <1>1, <2>1, <2>3, LinkedIsMutual
<1>3. CASE ~\E k \in Items : Linked(i, k)
  <2>1. row[i].pair = j
    BY <1>1, <1>3 DEF Partner
  <2>2. row[j].pair = i
    BY <2>1 DEF PairsAreMutual
  <2>3. ~\E k \in Items : Linked(j, k)
    BY <2>2, LinkedIsMutual
  <2>4. row'[j].pair = i
    BY <1>1, <2>2, <2>3 DEF Partner
  <2> QED BY <2>1, <2>4 DEF PairsAreMutual
<1> QED BY <1>2, <1>3

\* Links of Live Photos are mutual and join an image and a motion of the same
\* name and phone (pair_live_photos).
THEOREM PairsMutual == Spec => []PairsAreMutual
<1>1. Init => PairsAreMutual
  BY DEF Init, NoRow, PairsAreMutual
<1>2. TypeOK /\ PairsAreMutual /\ [Next]_vars => PairsAreMutual'
  <2> SUFFICES ASSUME TypeOK, PairsAreMutual, [Next]_vars
               PROVE  PairsAreMutual'
    OBVIOUS
  <2>1. CASE ListPair
    BY <2>1, PairKept
  <2>2. CASE ~ListPair
    BY <2>2, LinksKept DEF PairsAreMutual
  <2> QED BY <2>1, <2>2
<1> QED BY <1>1, <1>2, TypeCorrect, PTL DEF Spec

-----------------------------------------------------------------------------
(* Copies: the inductive invariant behind CopiesAreTheirOwn.                *)

\* No file of another phone has an item's name.
OwnNames == \A i, j \in Items : SameName(i, j) => Device[i] = Device[j]

Done == {"copied", "verified", "deleted"}
Placed(i) == row[i].local # NoPath
Dated(i) == row[i].date # Unknown

\* A date, once read, is the item's month, and dates are read for a phone's
\* files together or not at all: only a file that has left its phone can be
\* without one when another has one.
OwnDates == \A i \in Items : row[i].date \in {Month[i], Unknown}
DatesAreRead == \A i \in Items : Dated(i) => reads
DatedTogether == \A i, j \in Items :
    (/\ Device[i] = Device[j] /\ Dated(i) /\ Known(j) /\ j \in phone)
    => Dated(j)
ListingReads == listing.step # "none" => listing.dated = reads
SeesThePhone == listing.step = "upsert" =>
    /\ \A i \in listing.seen : Device[i] = listing.dev
    /\ \A i \in phone : Known(i) /\ Device[i] = listing.dev => i \in listing.seen

\* A row has a path from the moment it is claimed, and the path is its own.
UnknownRows == \A i \in Items : ~Known(i) => ~Placed(i) /\ ~Dated(i)
OwnPaths == \A i \in Items : Placed(i) =>
    /\ row[i].local.stem = Stem[i] /\ row[i].local.ext = Ext[i]
    /\ row[i].local.mark \in {Plain, Folder[i]}
    /\ row[i].local.bucket \in {Unknown, row[i].date}
JobPlaced == job # NoItem => Placed(job)
JobKnown == job # NoItem => Known(job)
DonePlaced == \A i \in Items : row[i].status \in Done => Placed(i)

\* Two rows share a path only if one of them can no longer be copied.
OnePathEach == \A i, j \in Items :
    (i # j /\ Placed(i) /\ row[i].local = row[j].local)
    => \E k \in {i, j} : k \notin phone /\ row[k].status \notin Done

IInv ==
    /\ OwnNames
    /\ OwnDates /\ DatesAreRead /\ DatedTogether
    /\ ListingReads /\ SeesThePhone
    /\ UnknownRows /\ OwnPaths /\ JobPlaced /\ DonePlaced
    /\ OnePathEach /\ CopiesAreTheirOwn

LEMMA InitCopies == OwnNames /\ Init => IInv
BY DEF Init, NoRow, NoListing, IInv, OwnDates, DatesAreRead, DatedTogether,
       ListingReads, SeesThePhone, UnknownRows, OwnPaths, JobPlaced,
       DonePlaced, OnePathEach, CopiesAreTheirOwn, Known, Placed, Dated, Done

\* What every step but ListUpsert and Claim leaves of the rows.
RowsKept == \A i \in Items :
    /\ row'[i].date = row[i].date /\ row'[i].local = row[i].local
    /\ Known(i)' <=> Known(i)

LEMMA StatusKeeps ==
    ASSUME TypeOK, NEW S, NEW s, s # "none", SetStatus(S, s),
           \A i \in S \intersect Items : Known(i)
    PROVE  RowsKept
<1> SUFFICES ASSUME NEW i \in Items
             PROVE /\ row'[i].date = row[i].date /\ row'[i].local = row[i].local
                   /\ Known(i)' <=> Known(i)
  BY DEF RowsKept
<1>1. row[i] \in [status : Statuses, date : Buckets,
                  pair : Items \union {NoItem}, local : Paths \union {NoPath}]
  BY DEF TypeOK, RowType
<1>2. CASE i \in S
  <2>1. row'[i] = [row[i] EXCEPT !.status = s]
    BY <1>2 DEF SetStatus
  <2>2. row'[i].date = row[i].date /\ row'[i].local = row[i].local
        /\ row'[i].status = s
    BY <1>1, <2>1
  <2>3. Known(i) /\ row'[i].status # "none"
    BY <1>2, <2>2
  <2> QED BY <2>2, <2>3 DEF Known
<1>3. CASE i \notin S
  BY <1>3 DEF SetStatus, Known
<1> QED BY <1>2, <1>3

LEMMA MostKeepRows ==
    ASSUME TypeOK, JobKnown, [Next]_vars, ~ListUpsert,
           \A i \in Items : ~Claim(i)
    PROVE  RowsKept
<1> USE DEF TypeOK
<1>2. \A i \in {job} \intersect Items : Known(i)
  BY DEF JobKnown
<1>3. \A d, T : "none" \notin T => \A i \in On(d, T) : Known(i)
  BY DEF On, Known
<1>4. row' = row => RowsKept
  BY DEF RowsKept, Known
<1>5. CASE Listing
  <2>1. CASE ListPair
    <3> SUFFICES ASSUME NEW i \in Items
                 PROVE /\ row'[i].date = row[i].date
                       /\ row'[i].local = row[i].local
                       /\ Known(i)' <=> Known(i)
      BY DEF RowsKept
    <3>1. row[i] \in [status : Statuses, date : Buckets,
                      pair : Items \union {NoItem},
                      local : Paths \union {NoPath}]
      BY DEF RowType
    <3>2. row'[i] = [row[i] EXCEPT !.pair = Partner(i)]
      BY <2>1 DEF ListPair
    <3>3. /\ row'[i].date = row[i].date /\ row'[i].local = row[i].local
          /\ row'[i].status = row[i].status
      BY <3>1, <3>2
    <3> QED BY <3>3 DEF Known
  <2>2. CASE ListRequeue
    <3> DEFINE Lost == {i \in On(listing.dev, {"copied", "verified"}) : ~Matches(i)}
    <3>1. \A i \in Lost \intersect Items : Known(i)
      BY <1>3
    <3>2. SetStatus(Lost, "pending")
      BY <2>2 DEF ListRequeue
    <3> QED BY <3>1, <3>2, StatusKeeps
  <2>3. CASE ListWalk \/ ListRaises
    BY <1>4, <2>3 DEF ListWalk, ListRaises
  <2> QED BY <1>5, <2>1, <2>2, <2>3 DEF Listing
<1>6. CASE Run
  <2>1. CASE Start
    BY <2>1, <1>3, StatusKeeps DEF Start
  <2>2. CASE Finish
    BY <2>2, <1>2, StatusKeeps DEF Finish
  <2>3. CASE Fail
    BY <2>3, <1>2, StatusKeeps DEF Fail
  <2>4. CASE Drain
    <3> SUFFICES ASSUME NEW i \in Items
                 PROVE /\ row'[i].date = row[i].date
                       /\ row'[i].local = row[i].local
                       /\ Known(i)' <=> Known(i)
      BY DEF RowsKept
    <3>1. row[i] \in [status : Statuses, date : Buckets,
                      pair : Items \union {NoItem},
                      local : Paths \union {NoPath}]
      BY DEF RowType
    <3>2. CASE i \in On(here, {"copied"})
      <4> DEFINE s == IF Matches(i) THEN "verified" ELSE "failed"
      <4>1. row'[i] = [row[i] EXCEPT !.status = s]
        BY <2>4, <3>2 DEF Drain
      <4>2. s # "none" /\ Known(i)
        BY <3>2, <1>3
      <4> HIDE DEF s
      <4> QED BY <3>1, <4>1, <4>2 DEF Known
    <3>3. CASE i \notin On(here, {"copied"})
      BY <2>4, <3>3 DEF Drain, Known
    <3> QED BY <3>2, <3>3
  <2> QED BY <1>6, <2>1, <2>2, <2>3, <2>4 DEF Run
<1>7. ASSUME NEW i \in Items, Delete(i) PROVE RowsKept
  <2>1. \A j \in Group(i) : Known(j)
    BY <1>7 DEF Delete, Known
  <2> QED BY <1>7, <2>1, StatusKeeps DEF Delete
<1>8. CASE Environment
  <2>1. CASE Unplug
    BY <2>1, <1>2, StatusKeeps DEF Unplug
  <2>2. CASE ~Unplug
    BY <1>4, <1>8, <2>2 DEF Environment, Connect, Restart, Shoot, Trash, Remove
  <2> QED BY <2>1, <2>2
<1>9. CASE UNCHANGED vars
  BY <1>4, <1>9 DEF vars
<1> QED BY <1>5, <1>6, <1>7, <1>8, <1>9 DEF Next

\* A row is done only once its own copy has been finished.
LEMMA NewlyDone ==
    ASSUME TypeOK, [Next]_vars, NEW i \in Items, row'[i].status \in Done
    PROVE  row[i].status \in Done \/ (Finish /\ i = job)
<1> USE DEF TypeOK
<1>1. row[i] \in [status : Statuses, date : Buckets,
                  pair : Items \union {NoItem}, local : Paths \union {NoPath}]
  BY DEF RowType
<1>2. ASSUME NEW S, NEW s, SetStatus(S, s), s \notin Done
      PROVE row[i].status \in Done
  <2>1. CASE i \in S
    BY <1>1, <1>2, <2>1 DEF SetStatus
  <2>2. CASE i \notin S
    BY <1>2, <2>2 DEF SetStatus
  <2> QED BY <2>1, <2>2
<1>3. CASE Listing
  <2>1. CASE ListUpsert
    <3>1. Listed(i).status = IF row[i].status = "none" THEN "pending"
                             ELSE row[i].status
      BY <1>1 DEF Listed
    <3>2. row'[i].status \in {"pending", row[i].status}
      BY <2>1, <3>1 DEF ListUpsert
    <3> QED BY <3>2 DEF Done
  <2>2. CASE ListPair
    <3>1. row'[i].status = row[i].status
      BY <1>1, <2>2 DEF ListPair
    <3> QED BY <3>1
  <2>3. CASE ListRequeue
    BY <2>3, <1>2 DEF ListRequeue, Done
  <2>4. CASE ListWalk \/ ListRaises
    BY <2>4 DEF ListWalk, ListRaises
  <2> QED BY <1>3, <2>1, <2>2, <2>3, <2>4 DEF Listing
<1>4. CASE Run
  <2>1. CASE Start
    BY <2>1, <1>2 DEF Start, Done
  <2>2. ASSUME NEW j \in Items, Claim(j) PROVE row[i].status \in Done
    <3>1. i = j => row'[i].status = "in_progress"
      BY <1>1, <2>2 DEF Claim, RowType
    <3>2. i # j
      BY <3>1 DEF Done
    <3> QED BY <2>2, <3>2 DEF Claim, RowType
  <2>3. CASE Finish
    <3>1. i # job => row'[i] = row[i]
      BY <2>3 DEF Finish, SetStatus
    <3> QED BY <2>3, <3>1
  <2>4. CASE Fail
    BY <2>4, <1>2 DEF Fail, Done
  <2>5. CASE Drain
    <3>1. CASE i \in On(here, {"copied"})
      BY <3>1 DEF On, Done
    <3>2. CASE i \notin On(here, {"copied"})
      BY <2>5, <3>2 DEF Drain
    <3> QED BY <3>1, <3>2
  <2> QED BY <1>4, <2>1, <2>2, <2>3, <2>4, <2>5 DEF Run
<1>5. ASSUME NEW j \in Items, Delete(j) PROVE row[i].status \in Done
  <2>1. CASE i \in Group(j)
    BY <1>5, <2>1 DEF Delete, Done
  <2>2. CASE i \notin Group(j)
    BY <1>5, <2>2 DEF Delete, SetStatus
  <2> QED BY <2>1, <2>2
<1>6. CASE Environment
  <2>1. CASE Unplug
    BY <2>1, <1>2 DEF Unplug, Done
  <2>2. CASE ~Unplug
    BY <1>6, <2>2 DEF Environment, Connect, Restart, Shoot, Trash, Remove
  <2> QED BY <2>1, <2>2
<1>7. CASE UNCHANGED vars
  BY <1>7 DEF vars
<1> QED BY <1>3, <1>4, <1>5, <1>6, <1>7 DEF Next

\* What no step does to the phones, the version and the listing under way.
LEMMA Surroundings ==
    ASSUME TypeOK, [Next]_vars
    PROVE  /\ \A i \in phone' : i \in phone \/ ~Known(i)
           /\ reads => reads'
           /\ \/ listing'.step = "none"
              \/ /\ listing'.dated = reads' /\ listing'.dev = here
                 /\ listing'.seen = {i \in phone' : Device[i] = here}
              \/ listing' = listing /\ reads' = reads
              \/ /\ listing.step # "none" /\ listing'.step # "upsert"
                 /\ listing'.dated = listing.dated /\ reads' = reads
<1> USE DEF TypeOK
<1>1. CASE Listing
  BY <1>1 DEF Listing, ListWalk, ListUpsert, ListPair, ListRequeue, ListRaises,
              NoListing
<1>2. CASE Run
  BY <1>2 DEF Run, Start, Claim, Finish, Fail, Drain
<1>3. ASSUME NEW i \in Items, Delete(i) PROVE phone' \subseteq phone
             /\ listing' = listing /\ reads' = reads
  BY <1>3 DEF Delete
<1>4. CASE Environment
  <2>1. CASE Restart
    <3>1. reads => reads'
      BY <2>1, Zenon DEF Restart
    <3> QED BY <2>1, <3>1 DEF Restart, NoListing
  <2>2. CASE ~Restart
    BY <1>4, <2>2 DEF Environment, Connect, Unplug, Shoot, Trash, Remove
  <2> QED BY <2>1, <2>2
<1>5. CASE UNCHANGED vars
  BY <1>5 DEF vars
<1> QED BY <1>1, <1>2, <1>3, <1>4, <1>5 DEF Next

LEMMA ListingKept ==
    ASSUME TypeOK, TypeOK', IInv, [Next]_vars, RowsKept
    PROVE  ListingReads' /\ SeesThePhone'
<1> USE DEF IInv, ListingReads, SeesThePhone, RowsKept
<1>1. CASE listing'.step = "none"
  BY <1>1
<1>2. CASE /\ listing'.dated = reads' /\ listing'.dev = here
           /\ listing'.seen = {i \in phone' : Device[i] = here}
  BY <1>2
<1>3. CASE listing' = listing /\ reads' = reads
  <2>1. ListingReads'
    BY <1>3
  <2>2. ASSUME listing.step = "upsert", NEW i \in phone', Known(i)',
               Device[i] = listing.dev
        PROVE i \in listing.seen
    <3>1. i \in Items
      BY <2>2 DEF TypeOK
    <3>2. i \in phone /\ Known(i)
      BY <2>2, <3>1, Surroundings
    <3> QED BY <2>2, <3>2
  <2> QED BY <1>3, <2>1, <2>2
<1>4. CASE /\ listing.step # "none" /\ listing'.step # "upsert"
           /\ listing'.dated = listing.dated /\ reads' = reads
  BY <1>4
<1> QED BY <1>1, <1>2, <1>3, <1>4, Surroundings

LEMMA DatesKept ==
    ASSUME TypeOK, IInv, [Next]_vars, RowsKept
    PROVE  OwnDates' /\ DatesAreRead' /\ DatedTogether' /\ UnknownRows' /\ OwnPaths'
<1>1. OwnDates'
  BY DEF IInv, OwnDates, RowsKept
<1>2. DatesAreRead'
  BY Surroundings DEF IInv, DatesAreRead, Dated, RowsKept
<1>3. DatedTogether'
  <2> SUFFICES ASSUME NEW i \in Items, NEW j \in Items,
                      Device[i] = Device[j], Dated(i)', Known(j)', j \in phone'
               PROVE Dated(j)'
    BY DEF DatedTogether
  <2>1. Dated(i) /\ Known(j) /\ (Dated(j) => Dated(j)')
    BY DEF RowsKept, Dated
  <2>2. j \in phone
    BY <2>1, Surroundings
  <2> QED BY <2>1, <2>2 DEF IInv, DatedTogether
<1>4. UnknownRows'
  BY DEF IInv, UnknownRows, Placed, Dated, RowsKept
<1>5. OwnPaths'
  BY DEF IInv, OwnPaths, Placed, RowsKept
<1> QED BY <1>1, <1>2, <1>3, <1>4, <1>5

\* Where copies go, and what they hold, outside of ListUpsert and Claim.
LEMMA JobKept ==
    ASSUME TypeOK, [Next]_vars, \A i \in Items : ~Claim(i)
    PROVE  job' \in {job, NoItem}
BY DEF Next, Listing, ListWalk, ListUpsert, ListPair, ListRequeue, ListRaises,
       Run, Start, Finish, Fail, Drain, Delete, Environment, Connect, Unplug,
       Restart, Shoot, Trash, Remove, vars

LEMMA DiskKept ==
    ASSUME TypeOK, [Next]_vars
    PROVE  \/ disk' = disk
           \/ Finish
           \/ \E p \in Paths : Remove(p)
BY DEF Next, Listing, ListWalk, ListUpsert, ListPair, ListRequeue, ListRaises,
       Run, Start, Claim, Fail, Drain, Delete, Environment, Connect, Unplug,
       Restart, Shoot, Trash, vars

LEMMA CopiesKept ==
    ASSUME TypeOK, TypeOK', IInv, [Next]_vars, RowsKept,
           \A i \in Items : ~Claim(i)
    PROVE  JobPlaced' /\ DonePlaced' /\ OnePathEach' /\ CopiesAreTheirOwn'
<1> \A i \in Items : Placed(i)' <=> Placed(i)
  BY DEF RowsKept, Placed
<1>1. JobPlaced'
  BY JobKept DEF IInv, JobPlaced, TypeOK
<1>2. ASSUME Finish PROVE job \in Items /\ Placed(job) /\ job \in phone
  BY <1>2 DEF Finish, IInv, JobPlaced, TypeOK
<1>3. DonePlaced'
  <2> SUFFICES ASSUME NEW i \in Items, row'[i].status \in Done
               PROVE Placed(i)
    BY DEF DonePlaced
  <2> QED BY <1>2, NewlyDone DEF IInv, DonePlaced
<1>4. OnePathEach'
  <2> SUFFICES ASSUME NEW i \in Items, NEW j \in Items, i # j, Placed(i)',
                      row'[i].local = row'[j].local
               PROVE \E k \in {i, j} : k \notin phone' /\ row'[k].status \notin Done
    BY DEF OnePathEach
  <2>1. Placed(i) /\ row[i].local = row[j].local /\ Placed(j)
    BY DEF RowsKept, Placed
  <2>2. PICK k \in {i, j} : k \notin phone /\ row[k].status \notin Done
    BY <2>1 DEF IInv, OnePathEach
  <2>3. Known(k)
    BY <2>1 DEF IInv, UnknownRows
  <2>4. k \notin phone'
    BY <2>2, <2>3, Surroundings
  <2>5. row'[k].status \notin Done
    BY <1>2, <2>2, NewlyDone
  <2> QED BY <2>4, <2>5
<1>5. CopiesAreTheirOwn'
  <2> SUFFICES ASSUME NEW i \in Items, row'[i].status \in Done
               PROVE disk'[row'[i].local] \in {i, NoItem}
    BY DEF CopiesAreTheirOwn, Done
  <2>1. row'[i].local = row[i].local
    BY DEF RowsKept
  <2>2. row[i].status \in Done => disk[row[i].local] \in {i, NoItem}
    BY DEF IInv, CopiesAreTheirOwn, Done
  <2>3. row[i].local \in Paths
    <3>1. Placed(i)
      BY <1>2, NewlyDone DEF IInv, DonePlaced
    <3> QED BY <3>1 DEF Placed, TypeOK, RowType
  <2>4. CASE Finish
    <3>1. disk' = [disk EXCEPT ![row[job].local] = job]
      BY <2>4 DEF Finish
    <3>2. CASE i = job
      BY <2>1, <2>3, <3>1, <3>2 DEF TypeOK
    <3>3. CASE i # job
      <4>1. row[i].status \in Done
        BY <3>3, NewlyDone
      <4>2. row[i].local # row[job].local
        <5> SUFFICES ASSUME row[i].local = row[job].local PROVE FALSE
          OBVIOUS
        <5>1. Placed(i) /\ job \in Items
          BY <4>1, <1>2, <2>4 DEF IInv, DonePlaced
        <5>2. PICK k \in {i, job} : k \notin phone /\ row[k].status \notin Done
          BY <3>3, <5>1 DEF IInv, OnePathEach
        <5> QED BY <1>2, <2>4, <4>1, <5>2
      <4> QED BY <2>1, <2>2, <2>3, <3>1, <4>1, <4>2 DEF TypeOK
    <3> QED BY <3>2, <3>3
  <2>5. ASSUME NEW p \in Paths, Remove(p)
        PROVE disk'[row'[i].local] \in {i, NoItem}
    <3>1. disk' = [disk EXCEPT ![p] = NoItem] /\ row[i].status \in Done
      BY <2>5 DEF Remove
    <3> QED BY <2>1, <2>2, <2>3, <3>1 DEF TypeOK
  <2>6. CASE disk' = disk /\ ~Finish
    BY <2>1, <2>2, <2>6, NewlyDone
  <2> QED BY <2>4, <2>5, <2>6, DiskKept
<1> QED BY <1>1, <1>3, <1>4, <1>5

\* ListUpsert dates what it saw, all of it or none.
LEMMA UpsertRows ==
    ASSUME TypeOK, IInv, ListUpsert, NEW i \in Items
    PROVE  /\ row'[i].local = row[i].local
           /\ Known(i)' <=> Known(i) \/ i \in listing.seen
           /\ row'[i].date = IF i \in listing.seen /\ ~Dated(i) /\ listing.dated
                             THEN Month[i] ELSE row[i].date
<1>1. row[i] \in [status : Statuses, date : Buckets,
                  pair : Items \union {NoItem}, local : Paths \union {NoPath}]
  BY DEF TypeOK, RowType
<1>2. CASE i \in listing.seen
  <2>1. row'[i] = Listed(i)
    BY <1>2 DEF ListUpsert
  <2>2. /\ Listed(i).local = row[i].local /\ Listed(i).status # "none"
        /\ Listed(i).date = IF row[i].date = Unknown /\ listing.dated
                            THEN Month[i] ELSE row[i].date
    BY <1>1 DEF Listed
  <2> QED BY <1>2, <2>1, <2>2 DEF Known, Dated
<1>3. CASE i \notin listing.seen
  BY <1>3 DEF ListUpsert, Known
<1> QED BY <1>2, <1>3

LEMMA UpsertCopies ==
    ASSUME TypeOK, TypeOK', IInv, ListUpsert PROVE IInv'
<1> USE DEF IInv
<1>0. /\ phone' = phone /\ disk' = disk /\ job' = job /\ reads' = reads
      /\ listing.step = "upsert" /\ listing'.step = "pair"
      /\ listing'.dated = listing.dated
  BY DEF ListUpsert, TypeOK
<1>1. listing.dated = reads
  BY <1>0 DEF ListingReads
<1>2. OwnNames'
  BY DEF OwnNames, SameName
<1>3. OwnDates'
  BY UpsertRows DEF OwnDates
<1>4. DatesAreRead'
  <2> SUFFICES ASSUME NEW i \in Items, Dated(i)' PROVE reads
    BY <1>0 DEF DatesAreRead
  <2>1. Dated(i) \/ listing.dated
    BY UpsertRows DEF Dated
  <2> QED BY <1>1, <2>1 DEF DatesAreRead
<1>5. DatedTogether'
  <2> SUFFICES ASSUME NEW i \in Items, NEW j \in Items, Device[i] = Device[j],
                      Dated(i)', Known(j)', j \in phone, ~Dated(j)'
               PROVE FALSE
    BY <1>0 DEF DatedTogether
  <2>1. Month[j] # Unknown
    BY NamesAssumption
  <2>2. ~Dated(j) /\ ~(j \in listing.seen /\ listing.dated)
    BY <2>1, UpsertRows DEF Dated
  <2>3. CASE Dated(i)
    <3>1. reads
      BY <2>3 DEF DatesAreRead
    <3>2. Known(j)
      BY <1>1, <2>2, <3>1, UpsertRows
    <3> QED BY <2>2, <2>3, <3>2 DEF DatedTogether
  <2>4. CASE ~Dated(i)
    <3>1. i \in listing.seen /\ listing.dated
      BY <2>4, UpsertRows DEF Dated
    <3>2. Known(j)
      BY <2>2, <3>1, UpsertRows
    <3>3. j \in listing.seen
      BY <1>0, <3>1, <3>2 DEF SeesThePhone
    <3> QED BY <2>2, <3>1, <3>3
  <2> QED BY <2>3, <2>4
<1>6. ListingReads' /\ SeesThePhone'
  BY <1>0, <1>1 DEF ListingReads, SeesThePhone
<1>7. UnknownRows'
  <2> SUFFICES ASSUME NEW i \in Items, ~Known(i)'
               PROVE ~Placed(i)' /\ ~Dated(i)'
    BY DEF UnknownRows
  <2>1. ~Known(i) /\ i \notin listing.seen
    BY UpsertRows
  <2>2. row'[i].local = row[i].local /\ row'[i].date = row[i].date
    BY <2>1, UpsertRows
  <2> QED BY <2>1, <2>2 DEF UnknownRows, Placed, Dated
<1>8. OwnPaths'
  <2> SUFFICES ASSUME NEW i \in Items, Placed(i)'
               PROVE /\ Known(i)'
                     /\ row'[i].local.stem = Stem[i] /\ row'[i].local.ext = Ext[i]
                     /\ row'[i].local.mark \in {Plain, Folder[i]}
                     /\ row'[i].local.bucket \in {Unknown, row'[i].date}
    BY DEF OwnPaths
  <2>1. row'[i].local = row[i].local /\ Placed(i)
    BY UpsertRows DEF Placed
  <2>2. row'[i].date = row[i].date \/ row[i].date = Unknown
    BY UpsertRows DEF Dated
  <2>3. Known(i) /\ Known(i)'
    BY <2>1, UpsertRows DEF UnknownRows
  <2> QED BY <2>1, <2>2, <2>3 DEF OwnPaths
<1>9. \A i \in Items : row'[i].status \in Done => row[i].status \in Done
  <2> SUFFICES ASSUME NEW i \in Items, row'[i].status \in Done
               PROVE row[i].status \in Done
    OBVIOUS
  <2>1. ~Finish
    BY DEF Finish, ListUpsert, TypeOK
  <2> QED BY <2>1, NewlyDone DEF Next, Listing
<1>10. \A i \in Items : row'[i].local = row[i].local /\ (Placed(i)' <=> Placed(i))
  BY UpsertRows DEF Placed
<1>11. JobPlaced' /\ DonePlaced'
  BY <1>0, <1>9, <1>10 DEF JobPlaced, DonePlaced, TypeOK
<1>12. OnePathEach'
  BY <1>0, <1>9, <1>10 DEF OnePathEach
<1>13. CopiesAreTheirOwn'
  BY <1>0, <1>9, <1>10 DEF CopiesAreTheirOwn, Done
<1> QED BY <1>2, <1>3, <1>4, <1>5, <1>6, <1>7, <1>8, <1>11, <1>12, <1>13

\* Two rows of one name get the same path only when one has lost its date.
LEMMA ClaimApart ==
    ASSUME TypeOK, IInv, NEW i \in Items, NEW j \in Items \ {i}, Placed(j),
           Known(i), LocalPath(i) = row[j].local
    PROVE  i \notin phone
<1> USE DEF IInv
<1>1. /\ row[j].local.stem = Stem[i] /\ row[j].local.ext = Ext[i]
      /\ row[j].local.bucket = row[i].date
      /\ row[j].local.mark = IF Collides(i) THEN Folder[i] ELSE Plain
  BY DEF LocalPath
<1>2. SameName(i, j) /\ Known(j) /\ Device[i] = Device[j]
  <2>1. row[j].local.stem = Stem[j] /\ row[j].local.ext = Ext[j] /\ Known(j)
    BY DEF OwnPaths, UnknownRows
  <2>2. SameName(i, j)
    BY <1>1, <2>1 DEF SameName
  <2> QED BY <2>1, <2>2 DEF OwnNames
<1>3. ~Collides(i)
  <2> SUFFICES ASSUME Collides(i) PROVE FALSE
    OBVIOUS
  <2>1. Folder[i] = Folder[j]
    BY <1>1, NamesAssumption DEF OwnPaths
  <2> QED BY <1>2, <2>1, PathsAssumption DEF SameName
<1>4. row[j].date # row[i].date
  BY <1>2, <1>3 DEF Collides, SameName
<1>5. ~Dated(i) /\ Dated(j)
  BY <1>1, <1>4 DEF OwnPaths, Dated
<1> QED BY <1>2, <1>5 DEF DatedTogether

LEMMA ClaimCopies ==
    ASSUME TypeOK, TypeOK', IInv, NEW i \in Items, Claim(i) PROVE IInv'
<1> USE DEF IInv
<1>1. /\ phone' = phone /\ disk' = disk /\ reads' = reads
      /\ listing' = listing /\ job' = i
  BY DEF Claim
<1>2. \A j \in Items \ {i} : row'[j] = row[j]
  BY DEF Claim, TypeOK, RowType
<1>3. /\ row'[i].status = "in_progress" /\ row'[i].date = row[i].date
      /\ row'[i].local = LocalPath(i) /\ Known(i)
  <2>1. row[i] \in [status : Statuses, date : Buckets,
                    pair : Items \union {NoItem},
                    local : Paths \union {NoPath}]
    BY DEF TypeOK, RowType
  <2>2. row'[i] = [row[i] EXCEPT !.status = "in_progress",
                                 !.local = LocalPath(i)]
    BY DEF Claim, TypeOK, RowType
  <2>3. Known(i)
    BY DEF Claim, On, Known
  <2>4. /\ row'[i].status = "in_progress" /\ row'[i].date = row[i].date
        /\ row'[i].local = LocalPath(i)
    BY <2>1, <2>2
  <2> QED BY <2>3, <2>4
<1>4. LocalPath(i) \in Paths /\ LocalPath(i) # NoPath
  BY LocalPathType, NamesAssumption DEF TypeOK
<1>5. \A j \in Items : row'[j].date = row[j].date /\ (Known(j)' <=> Known(j))
  BY <1>2, <1>3 DEF Known
<1>6. OwnNames' /\ OwnDates' /\ DatesAreRead' /\ DatedTogether'
  BY <1>1, <1>5 DEF OwnNames, SameName, OwnDates, DatesAreRead, DatedTogether,
                    Dated
<1>7. ListingReads' /\ SeesThePhone'
  BY <1>1, <1>5 DEF ListingReads, SeesThePhone, TypeOK
<1>8. UnknownRows'
  BY <1>2, <1>3, <1>5 DEF UnknownRows, Placed, Dated
<1>9. OwnPaths'
  <2>1. /\ LocalPath(i).stem = Stem[i] /\ LocalPath(i).ext = Ext[i]
        /\ LocalPath(i).mark \in {Plain, Folder[i]}
        /\ LocalPath(i).bucket = row[i].date
    BY DEF LocalPath
  <2> QED BY <1>2, <1>3, <1>5, <2>1 DEF OwnPaths, Placed
<1>10. JobPlaced'
  BY <1>1, <1>3, <1>4 DEF JobPlaced, Placed
<1>11. DonePlaced'
  BY <1>2, <1>3 DEF DonePlaced, Placed, Done
<1>12. OnePathEach'
  <2> SUFFICES ASSUME NEW a \in Items, NEW b \in Items, a # b, Placed(a)',
                      row'[a].local = row'[b].local
               PROVE \E k \in {a, b} : k \notin phone /\ row'[k].status \notin Done
    BY <1>1 DEF OnePathEach
  <2>1. CASE a = i \/ b = i
    <3>1. PICK j \in {a, b} : j # i /\ row[j].local = LocalPath(i) /\ Placed(j)
      BY <1>2, <1>3, <1>4, <2>1 DEF Placed
    <3>2. i \notin phone
      BY <1>3, <3>1, ClaimApart
    <3> QED BY <1>3, <2>1, <3>2 DEF Done
  <2>2. CASE a # i /\ b # i
    BY <1>2, <2>2 DEF OnePathEach, Placed
  <2> QED BY <2>1, <2>2
<1>13. CopiesAreTheirOwn'
  BY <1>1, <1>2, <1>3 DEF CopiesAreTheirOwn
<1> QED BY <1>6, <1>7, <1>8, <1>9, <1>10, <1>11, <1>12, <1>13

LEMMA CopiesStep ==
    ASSUME TypeOK, TypeOK', IInv, [Next]_vars PROVE IInv'
<1>1. CASE ListUpsert
  BY <1>1, UpsertCopies
<1>2. ASSUME NEW i \in Items, Claim(i) PROVE IInv'
  BY <1>2, ClaimCopies
<1>3. CASE ~ListUpsert /\ \A i \in Items : ~Claim(i)
  <2>1. RowsKept
    <3>1. JobKnown
      BY DEF TypeOK, IInv, JobPlaced, UnknownRows, JobKnown
    <3> QED BY <1>3, <3>1, MostKeepRows
  <2>2. OwnNames'
    BY DEF IInv, OwnNames, SameName
  <2> QED BY <1>3, <2>1, <2>2, ListingKept, DatesKept, CopiesKept DEF IInv
<1> QED BY <1>1, <1>2, <1>3

\* If no two phones have a file of the same name, no copy ever overwrites
\* another, whatever the order of listings, copies, upgrades and restarts
\* (_local_relative_path, pull_file).
THEOREM OwnCopies == OwnNames /\ Spec => []CopiesAreTheirOwn
<1>1. TypeOK /\ TypeOK' /\ IInv /\ [Next]_vars => IInv'
  BY CopiesStep
<1>2. IInv => CopiesAreTheirOwn
  BY DEF IInv
<1> QED BY <1>1, <1>2, InitCopies, TypeCorrect, PTL DEF Spec

-----------------------------------------------------------------------------
(* Live Photos: no deletion takes one half, because what a deletion takes    *)
(* was offered by an engine, an engine follows a listing that came to its    *)
(* end, and such a listing has linked what it and earlier ones made rows of. *)

\* A listing of the phone is about to link its rows; or none came to its end
\* since the backend was started.
Due(d) == listing.step = "pair" /\ listing.dev = d
Unlisted(d) == /\ d \notin engines \union listed
               /\ ~(listing.step = "requeue" /\ listing.dev = d)

HalvesLinked == \A i, j \in Items :
    Halves(i, j) /\ Alone(i, j) /\ Known(i) /\ Known(j) =>
        \/ row[i].pair = j \/ Due(Device[i]) \/ Unlisted(Device[i])
        \/ Device[i] \in spent.torn
LinksKnown == \A i, j \in Items : row[i].pair = j => Known(i) /\ Known(j)
SeesItsPhone ==
    listing.step = "upsert" => \A i \in listing.seen : Device[i] = listing.dev
OfferedByEngine ==
    /\ active => here \in engines
    /\ \A i \in offered : Device[i] \in engines

HalvesInv == /\ HalvesLinked /\ LinksKnown /\ PairsAreMutual
             /\ SeesItsPhone /\ OfferedByEngine /\ JobKnown

LEMMA InitHalves == Init => HalvesInv
BY DEF Init, NoRow, NoListing, HalvesInv, HalvesLinked, LinksKnown,
       PairsAreMutual, SeesItsPhone, OfferedByEngine, JobKnown, Known

LEMMA KnownKept ==
    ASSUME TypeOK, JobKnown, [Next]_vars, ~ListUpsert, NEW i \in Items
    PROVE  Known(i)' <=> Known(i)
<1>1. ASSUME NEW k \in Items, Claim(k) PROVE Known(i)' <=> Known(i)
  <2>1. row'[i].status = IF i = k THEN "in_progress" ELSE row[i].status
    BY <1>1 DEF Claim, TypeOK, RowType
  <2>2. Known(k)
    BY <1>1 DEF Claim, On, Known
  <2> QED BY <2>1, <2>2 DEF Known
<1>2. CASE \A k \in Items : ~Claim(k)
  BY <1>2, MostKeepRows DEF RowsKept
<1> QED BY <1>1, <1>2

\* That a listing raised between its commits is remembered.
LEMMA TornStays ==
    ASSUME TypeOK, [Next]_vars PROVE spent.torn \subseteq spent'.torn
<1>1. CASE ListRaises
  BY <1>1, RaisesSpends
<1>2. CASE ~ListRaises
  BY <1>2 DEF TypeOK, Next, Listing, ListWalk, ListUpsert, ListPair,
     ListRequeue, Run, Start, Claim, Finish, Fail, Drain, Delete, Environment,
     Connect, Unplug, Restart, Trouble, Shoot, Trash, Remove, vars
<1> QED BY <1>1, <1>2

\* A row stays one.
LEMMA RowsStay ==
    ASSUME TypeOK, JobKnown, [Next]_vars, NEW i \in Items, Known(i)
    PROVE  Known(i)'
<1>1. CASE ListUpsert
  <2>1. row'[i] \in {row[i], Listed(i)}
    BY <1>1 DEF ListUpsert
  <2>2. Listed(i).status = row[i].status
    BY DEF Listed, Known, TypeOK, RowType
  <2> QED BY <2>1, <2>2 DEF Known
<1> QED BY <1>1, KnownKept

\* Only the end of a listing makes a phone a listed one.
LEMMA StaysUnlisted ==
    ASSUME TypeOK, [Next]_vars, ~ListPair, NEW d \in Devices
    PROVE  /\ Unlisted(d) => Unlisted(d)'
           /\ Due(d) => Due(d)' \/ Unlisted(d)' \/ d \in spent'.torn
<1> USE DEF TypeOK, Unlisted, Due
<1>1. CASE Listing
  <2>1. CASE ListRaises
    BY <2>1, RaisesSpends DEF ListRaises, NoListing
  <2>2. CASE ~ListRaises
    BY <1>1, <2>2 DEF Listing, ListWalk, ListUpsert, ListRequeue, NoListing
  <2> QED BY <2>1, <2>2
<1>2. CASE Run
  BY <1>2 DEF Run, Start, Claim, Finish, Fail, Drain
<1>3. ASSUME NEW i \in Items, Delete(i) PROVE UNCHANGED <<listing, listed, engines>>
  BY <1>3 DEF Delete
<1>4. CASE Environment
  <2>1. CASE Restart
    BY <2>1 DEF Restart, NoListing
  <2>2. CASE ~Restart
    <3>1. /\ UNCHANGED <<listing, engines>>
          /\ \/ listed' = listed
             \/ \E e \in Devices : listed' = listed \ {e}
      BY <1>4, <2>2, Zenon
         DEF Environment, Connect, Unplug, Shoot, Trash, Remove
    <3> QED BY <3>1
  <2> QED BY <2>1, <2>2
<1>5. CASE UNCHANGED vars
  BY <1>5 DEF vars
<1> QED BY <1>1, <1>2, <1>3, <1>4, <1>5 DEF Next

LEMMA LinkedKept ==
    ASSUME TypeOK, HalvesInv, [Next]_vars, ~ListPair
    PROVE  HalvesLinked'
<1> SUFFICES ASSUME NEW i \in Items, NEW j \in Items,
                    Halves(i, j), Alone(i, j)', Known(i)', Known(j)'
             PROVE  \/ row'[i].pair = j \/ Due(Device[i])' \/ Unlisted(Device[i])'
                    \/ Device[i] \in spent'.torn
  BY DEF HalvesLinked, Halves
<1>1. row'[i].pair = row[i].pair
  BY LinksKept
<1>2. Device[i] \in Devices
  OBVIOUS
<1>3. CASE Alone(i, j) /\ Known(i) /\ Known(j)
  BY <1>1, <1>2, <1>3, StaysUnlisted, TornStays DEF HalvesInv, HalvesLinked
<1>4. CASE ~(Alone(i, j) /\ Known(i) /\ Known(j))
  <2>1. ListUpsert
    BY <1>4, KnownKept DEF HalvesInv, Alone
  <2>2. \A k \in Items : Known(k) => Known(k)'
    BY RowsStay DEF HalvesInv
  <2>3. ~Known(i) \/ ~Known(j)
    BY <1>4, <2>2 DEF Alone
  <2>4. i \in listing.seen \/ j \in listing.seen
    BY <2>1, <2>3 DEF ListUpsert, Known
  <2>5. Device[i] = listing.dev
    BY <2>1, <2>4 DEF HalvesInv, SeesItsPhone, ListUpsert, Halves
  <2> QED BY <2>1, <2>5 DEF ListUpsert, Due, TypeOK
<1> QED BY <1>3, <1>4

\* pair_live_photos links two halves that no third row has the stem of.
LEMMA HalvesGetLinked ==
    ASSUME TypeOK, HalvesInv, ListPair, NEW i \in Items, NEW j \in Items,
           Halves(i, j), Alone(i, j), Known(i), Known(j),
           row[i].pair = j \/ Due(Device[i])
    PROVE  row'[i].pair = j
<1>1. row'[i].pair = Partner(i)
  BY DEF ListPair, TypeOK, RowType
<1>2. ASSUME NEW k \in Items, row[i].pair = k PROVE k = j
  BY <1>2, NamesAssumption
     DEF HalvesInv, LinksKnown, PairsAreMutual, Halves, Alone
<1>3. ASSUME NEW k \in Items, row[j].pair = k PROVE k = i
  BY <1>3, NamesAssumption
     DEF HalvesInv, LinksKnown, PairsAreMutual, Halves, Alone
<1>4. CASE row[i].pair = j
  <2>1. ~\E k \in Items : Linked(i, k)
    BY <1>4, LinkedIsMutual
  <2> QED BY <1>1, <1>4, <2>1 DEF Partner
<1>5. CASE row[i].pair # j
  <2>1. row[i].pair = NoItem /\ row[j].pair = NoItem
    BY <1>2, <1>3, <1>5 DEF HalvesInv, PairsAreMutual, TypeOK, RowType
  <2>2. listing.dev = Device[i]
    BY <1>5 DEF Due
  <2>3. Linked(i, j)
    BY <2>1, <2>2, NamesAssumption DEF Linked, Only, Loose, Halves, Alone
  <2> QED BY <1>1, <2>3, LinkedIsMutual DEF Partner
<1> QED BY <1>4, <1>5

LEMMA LinkedByListing ==
    ASSUME TypeOK, HalvesInv, ListPair
    PROVE  HalvesLinked' /\ LinksKnown'
<1>1. \A i \in Items : row'[i].pair = Partner(i) /\ (Known(i)' <=> Known(i))
  BY DEF ListPair, TypeOK, RowType, Known
<1>2. ASSUME NEW i \in Items, NEW j \in Items, Halves(i, j), Alone(i, j),
             Known(i), Known(j)
      PROVE  row'[i].pair = j \/ Unlisted(Device[i])' \/ Device[i] \in spent'.torn
  <2>1. CASE row[i].pair = j \/ Due(Device[i])
    BY <1>2, <2>1, HalvesGetLinked
  <2>2. CASE Unlisted(Device[i]) /\ ~Due(Device[i])
    BY <2>2 DEF ListPair, Unlisted, Due, TypeOK
  <2>3. CASE Device[i] \in spent.torn
    BY <2>3 DEF ListPair
  <2> QED BY <1>2, <2>1, <2>2, <2>3 DEF HalvesInv, HalvesLinked
<1>3. HalvesLinked'
  BY <1>1, <1>2 DEF HalvesLinked, Halves, Alone
<1>4. ASSUME NEW i \in Items, NEW j \in Items, Partner(i) = j
      PROVE  Known(i) /\ Known(j)
  <2>1. CASE \E k \in Items : Linked(i, k)
    BY <1>4, <2>1 DEF Partner, Linked, Only, Loose
  <2>2. CASE ~\E k \in Items : Linked(i, k)
    BY <1>4, <2>2 DEF Partner, HalvesInv, LinksKnown
  <2> QED BY <2>1, <2>2
<1> QED BY <1>1, <1>3, <1>4 DEF LinksKnown

LEMMA OffersKept ==
    ASSUME TypeOK, HalvesInv, [Next]_vars
    PROVE  SeesItsPhone' /\ OfferedByEngine'
<1> USE DEF TypeOK, HalvesInv, SeesItsPhone, OfferedByEngine
<1>1. CASE Listing
  BY <1>1 DEF Listing, ListWalk, ListUpsert, ListPair, ListRequeue, ListRaises,
              NoListing
<1>2. CASE Run
  <2>1. CASE Drain
    BY <2>1 DEF Drain, On
  <2>2. CASE Start
    BY <2>2 DEF Start
  <2>3. CASE Finish \/ Fail \/ \E i \in Items : Claim(i)
    <3>1. UNCHANGED <<listing, here, active, engines, offered>>
      BY <2>3, Zenon DEF Claim, Finish, Fail
    <3> QED BY <3>1
  <2> QED BY <1>2, <2>1, <2>2, <2>3 DEF Run
<1>3. ASSUME NEW i \in Items, Delete(i)
      PROVE  UNCHANGED <<listing, here, active, engines, offered>>
  BY <1>3 DEF Delete
<1>4. CASE Environment
  <2>1. CASE \E d \in Devices : Connect(d)
    <3>1. PICK d \in Devices : Connect(d)
      BY <2>1
    <3>2. active' <=> d \in engines
      BY <3>1, Zenon DEF Connect
    <3> QED BY <3>1, <3>2 DEF Connect
  <2>2. CASE ~\E d \in Devices : Connect(d)
    <3>1. \/ listing' \in {listing, NoListing} /\ ~active' /\ offered' = {}
          \/ UNCHANGED <<listing, here, active, engines, offered>>
      BY <1>4, <2>2 DEF Environment, Unplug, Restart, Shoot, Trash, Remove
    <3> QED BY <3>1 DEF NoListing
  <2> QED BY <2>1, <2>2
<1>5. CASE UNCHANGED vars
  BY <1>5 DEF vars
<1> QED BY <1>1, <1>2, <1>3, <1>4, <1>5 DEF Next

LEMMA JobStaysKnown ==
    ASSUME TypeOK, TypeOK', JobKnown, [Next]_vars PROVE JobKnown'
<1>1. job' = NoItem \/ job' = job \/ \E i \in Items : Claim(i) /\ job' = i
  BY DEF Next, Listing, ListWalk, ListUpsert, ListPair, ListRequeue, ListRaises,
         Run, Start, Claim, Finish, Fail, Drain, Delete, Environment, Connect,
         Unplug, Restart, Shoot, Trash, Remove, vars
<1>2. \A i \in Items : Known(i) => Known(i)'
  BY RowsStay
<1>3. ASSUME NEW i \in Items, Claim(i) PROVE Known(i)
  BY <1>3 DEF Claim, On, Known
<1> QED BY <1>1, <1>2, <1>3 DEF JobKnown, TypeOK

LEMMA HalvesInductive ==
    ASSUME TypeOK, TypeOK', HalvesInv, [Next]_vars PROVE HalvesInv'
<1>1. HalvesLinked' /\ LinksKnown'
  <2>1. CASE ListPair
    BY <2>1, LinkedByListing
  <2>2. CASE ~ListPair
    <3>1. \A i \in Items : Known(i) => Known(i)'
      BY RowsStay DEF HalvesInv
    <3>2. LinksKnown'
      BY <2>2, <3>1, LinksKept DEF HalvesInv, LinksKnown
    <3> QED BY <2>2, <3>2, LinkedKept
  <2> QED BY <2>1, <2>2
<1>2. PairsAreMutual'
  <2>1. CASE ListPair
    BY <2>1, PairKept DEF HalvesInv
  <2>2. CASE ~ListPair
    BY <2>2, LinksKept DEF HalvesInv, PairsAreMutual
  <2> QED BY <2>1, <2>2
<1>3. JobKnown'
  BY JobStaysKnown DEF HalvesInv
<1> QED BY <1>1, <1>2, <1>3, OffersKept DEF HalvesInv

\* Only a deletion makes a row a deleted one.
LEMMA DeletedByDelete ==
    ASSUME TypeOK, [Next]_vars, NEW i \in Items,
           row'[i].status = "deleted", row[i].status # "deleted"
    PROVE  \E k \in Items : Delete(k) /\ i \in Group(k)
<1> USE DEF TypeOK, RowType
<1>1. ASSUME NEW S, NEW s, SetStatus(S, s) PROVE i \in S /\ s = "deleted"
  BY <1>1 DEF SetStatus
<1>2. CASE Listing
  <2>1. CASE ListUpsert
    <3>1. row'[i] \in {row[i], Listed(i)}
      BY <2>1 DEF ListUpsert
    <3>2. Listed(i).status \in {row[i].status, "pending"}
      BY DEF Listed
    <3> QED BY <3>1, <3>2
  <2>2. CASE ListPair
    BY <2>2 DEF ListPair
  <2>3. CASE ListRequeue
    BY <2>3, <1>1 DEF ListRequeue
  <2>4. CASE ListWalk \/ ListRaises
    BY <2>4 DEF ListWalk, ListRaises
  <2> QED BY <1>2, <2>1, <2>2, <2>3, <2>4 DEF Listing
<1>3. CASE Run
  <2>1. CASE Start \/ Finish \/ Fail
    BY <2>1, <1>1 DEF Start, Finish, Fail
  <2>2. ASSUME NEW k \in Items, Claim(k) PROVE FALSE
    <3>1. row'[i].status \in {row[i].status, "in_progress"}
      BY <2>2 DEF Claim
    <3> QED BY <3>1
  <2>3. CASE Drain
    <3>1. row'[i].status \in {row[i].status, "verified", "failed"}
      BY <2>3 DEF Drain
    <3> QED BY <3>1
  <2> QED BY <1>3, <2>1, <2>2, <2>3 DEF Run
<1>4. ASSUME NEW k \in Items, Delete(k) PROVE i \in Group(k)
  BY <1>4, <1>1 DEF Delete
<1>5. CASE Environment
  <2>1. CASE Unplug
    BY <2>1, <1>1 DEF Unplug
  <2>2. CASE ~Unplug
    BY <1>5, <2>2 DEF Environment, Connect, Restart, Shoot, Trash, Remove
  <2> QED BY <2>1, <2>2
<1>6. CASE UNCHANGED vars
  BY <1>6 DEF vars
<1> QED BY <1>2, <1>3, <1>4, <1>5, <1>6 DEF Next

\* A half that goes takes along the one it is linked to; and it goes only when
\* its phone has an engine.
LEMMA TakesItsHalf ==
    ASSUME TypeOK, HalvesInv, [Next]_vars, NEW i \in Items, NEW j \in Items,
           row[i].pair = j \/ Unlisted(Device[i]),
           row'[i].status = "deleted", row[i].status # "deleted"
    PROVE  row'[j].status = "deleted" /\ row[j].status # "deleted"
<1>1. PICK k \in Items : Delete(k) /\ i \in Group(k)
  BY DeletedByDelete
<1>2. k = i \/ (row[k].pair = i /\ row[i].pair = k /\ Device[k] = Device[i])
  <2>1. i = k \/ row[k].pair = i
    BY <1>1 DEF Group, TypeOK, RowType
  <2>2. CASE row[k].pair = i
    BY <2>2, Zenon DEF HalvesInv, PairsAreMutual
  <2> QED BY <2>1, <2>2
<1>3. row[i].pair = j
  <2>1. Device[k] \in engines
    BY <1>1 DEF Delete, HalvesInv, OfferedByEngine
  <2> QED BY <1>2, <2>1 DEF Unlisted
<1>4. j \in Group(k)
  BY <1>2, <1>3 DEF Group
<1>5. row[j].status = "verified"
  BY <1>1, <1>4 DEF Delete
<1>6. row'[j].status = "deleted"
  BY <1>1, <1>4 DEF Delete, SetStatus, TypeOK, RowType
<1> QED BY <1>5, <1>6

\* The halves of a Live Photo leave the phone in one deletion, whenever each
\* was found, whatever phones are connected and however often the backend is
\* started anew (pair_live_photos, delete_batch).
THEOREM HalvesTogether == Spec => HalvesLeaveTogether
<1>1. TypeOK /\ TypeOK' /\ HalvesInv /\ [Next]_vars => HalvesInv'
  BY HalvesInductive
<1>2. TypeOK /\ HalvesInv /\ [Next]_vars =>
        [\A i, j \in Items :
            (/\ Halves(i, j) /\ Alone(i, j) /\ Known(i) /\ Known(j)
             /\ listing.step # "pair" /\ Device[i] \notin spent.torn)
            => (row'[i].status = "deleted" /\ row[i].status # "deleted"
                <=> row'[j].status = "deleted" /\ row[j].status # "deleted")]_vars
  <2> SUFFICES ASSUME TypeOK, HalvesInv, [Next]_vars,
                      NEW i \in Items, NEW j \in Items,
                      Halves(i, j), Alone(i, j), Known(i), Known(j),
                      listing.step # "pair", Device[i] \notin spent.torn
               PROVE  row'[i].status = "deleted" /\ row[i].status # "deleted"
                      <=> row'[j].status = "deleted" /\ row[j].status # "deleted"
    OBVIOUS
  <2>1. (row[i].pair = j /\ row[j].pair = i) \/ Unlisted(Device[i])
    BY DEF HalvesInv, HalvesLinked, PairsAreMutual, Due
  <2>2. Device[i] = Device[j]
    BY DEF Halves
  <2> QED BY <2>1, <2>2, TakesItsHalf
<1> QED BY <1>1, <1>2, InitHalves, TypeCorrect, PTL DEF Spec, HalvesLeaveTogether

=============================================================================
