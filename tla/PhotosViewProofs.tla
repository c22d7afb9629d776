-------------------------- MODULE PhotosViewProofs --------------------------
(***************************************************************************)
(* What PhotosView promises, for any photos, dates, collection to open and *)
(* number of requests, controls and details asked for.                     *)
(*                                                                         *)
(* First the pure part: what stays of a list, and the merging of rows in   *)
(* fetchedPhotos(), which takes over any list whatever rows there were     *)
(* (MergedProperties).  Then three inductive invariants, one on top of the *)
(* other.  Typed and Exact: the types, and what one removal leaves of the  *)
(* last list.  Queued and Fresh: details that the view keeps, or that come,*)
(* are those of the database or a signal that drops them is on its way.    *)
(* Telling: rows, or the list that comes last, are what the filter asks    *)
(* for but for photos whose removal is on its way, unless a list is going  *)
(* to be asked for.  A task of the database's thread enters the last two   *)
(* by one lemma, PerformServed: what it sends and changes (Served).        *)
(***************************************************************************)
EXTENDS PhotosView, SequenceLemmas

-----------------------------------------------------------------------------
(* What stays of a sequence *)

\* What stays when some places go: elements of the sequence, none repeated that
\* was not, and all that were at the places.
LEMMA KeepProperties ==
    ASSUME NEW T, NEW seq \in Seq(T), NEW places
    PROVE  /\ Keep(seq, places) \in Seq(T)
           /\ IsInjective(seq) => IsInjective(Keep(seq, places))
           /\ Range(Keep(seq, places)) = {seq[i] : i \in places \cap DOMAIN seq}
<1> DEFINE S == places \cap DOMAIN seq
           kept == Ascending(S)
           k == Keep(seq, places)
<1>1. Len(seq) \in Nat /\ DOMAIN seq = 1 .. Len(seq) /\ \A i \in DOMAIN seq : seq[i] \in T
  OBVIOUS
<1>2. S \subseteq Int /\ IsFiniteSet(S)
  <2>1. IsFiniteSet(1 .. Len(seq))
    BY <1>1, FS_Interval
  <2>2. S \subseteq 1 .. Len(seq)
    BY <1>1
  <2> QED  BY <2>1, <2>2, FS_Subset
<1>3. k = [i \in DOMAIN kept |-> seq[kept[i]]]
  BY DEF Keep
<1> HIDE DEF k
<1>4. kept \in Seq(S) /\ IsInjective(kept) /\ Range(kept) = S
  <2> HIDE DEF S
  <2> QED  BY <1>2, AscendingProperties
<1>5. S \subseteq DOMAIN seq
  OBVIOUS
<1> HIDE DEF kept, S
<1>6. Len(kept) \in Nat /\ DOMAIN kept = 1 .. Len(kept) /\ \A i \in DOMAIN kept : kept[i] \in DOMAIN seq
  BY <1>4, <1>5
<1>7. k \in Seq(T)
  <2>1. k \in [1 .. Len(kept) -> T]
    BY <1>1, <1>3, <1>6
  <2> QED  BY <1>6, <2>1, FunctionIsSeq
<1>8. IsInjective(seq) => IsInjective(k)
  BY <1>3, <1>4, <1>6 DEF IsInjective
<1>9. Range(k) = {seq[i] : i \in S}
  <2>1. DOMAIN k = DOMAIN kept /\ \A i \in DOMAIN kept : k[i] = seq[kept[i]]
    BY <1>3
  <2>2. S = {kept[i] : i \in DOMAIN kept}
    BY <1>4 DEF Range
  <2> QED  BY <2>1, <2>2 DEF Range
<1> QED  BY <1>7, <1>8, <1>9 DEF k, S

\* When no place goes, all stays as it is.
LEMMA KeepAll ==
    ASSUME NEW T, NEW seq \in Seq(T)
    PROVE  Keep(seq, DOMAIN seq) = seq
<1> DEFINE n == Len(seq)
<1>1. n \in Nat /\ DOMAIN seq = 1 .. n /\ seq = [i \in 1 .. n |-> seq[i]]
  OBVIOUS
<1>2. DOMAIN seq \cap DOMAIN seq = 1 .. n
  BY <1>1
<1>3. Ascending(1 .. n) = [i \in 1 .. n |-> i]
  BY <1>1, AscendingNumbers
<1> QED  BY <1>1, <1>2, <1>3 DEF Keep

-----------------------------------------------------------------------------
(* fetchedPhotos() takes the list over *)

\* Part of a list of photos: those from place a to place b.
LEMMA PartOfList ==
    ASSUME NEW s \in Lists, NEW a \in Nat \ {0}, NEW b \in Nat, a <= b + 1, b <= Len(s)
    PROVE  /\ SubSeq(s, a, b) \in Lists
           /\ Len(SubSeq(s, a, b)) = b - a + 1 /\ DOMAIN SubSeq(s, a, b) = 1 .. b - a + 1
           /\ \A i \in 1 .. b - a + 1 : SubSeq(s, a, b)[i] = s[a + i - 1]
<1>1. s \in Seq(Photos) /\ Len(s) \in Nat /\ \A i \in 1 .. Len(s) : s[i] \in Photos
  BY DEF Lists
<1>2. \A i \in a .. b : s[i] \in Photos
  BY <1>1
<1>3. /\ SubSeq(s, a, b) \in Seq(Photos)
      /\ Len(SubSeq(s, a, b)) = IF a <= b THEN b - a + 1 ELSE 0
      /\ \A i \in 1 .. b - a + 1 : SubSeq(s, a, b)[i] = s[a + i - 1]
  BY <1>2, SubSeqProperties
<1>4. ~ a <= b => b - a + 1 = 0
  OBVIOUS
<1>5. Len(SubSeq(s, a, b)) = b - a + 1
  BY <1>3, <1>4
<1>6. DOMAIN SubSeq(s, a, b) = 1 .. b - a + 1
  BY <1>3, <1>5
<1> QED  BY <1>3, <1>5, <1>6 DEF Lists

\* L is the length of a list, and a and b are places in it or at its end.
Places(s, L, a, b) == s \in Lists /\ L \in Nat /\ Len(s) = L /\ a \in 1 .. L + 1 /\ b \in a .. L + 1

\* p is the part of s with n photos from place a on.
IsPart(p, s, a, n) ==
    /\ p \in Lists /\ Len(p) = n /\ DOMAIN p = 1 .. n
    /\ \A i \in 1 .. n : p[i] = s[a + i - 1]

\* The photos ahead of a place, those between two places, and those from one on.
LEMMA PartsOfList ==
    ASSUME NEW s, NEW L, NEW a, NEW b, Places(s, L, a, b)
    PROVE  /\ IsPart(SubSeq(s, 1, a - 1), s, 1, a - 1)
           /\ IsPart(SubSeq(s, a, b - 1), s, a, b - a)
           /\ IsPart(SubSeq(s, b, L), s, b, L - b + 1)
<1>0. s \in Lists /\ L \in Nat /\ Len(s) = L /\ a \in 1 .. L + 1 /\ b \in a .. L + 1
  BY DEF Places
<1>1. IsPart(SubSeq(s, 1, a - 1), s, 1, a - 1)
  <2> DEFINE c == a - 1
  <2>1. 1 \in Nat \ {0} /\ c \in Nat /\ 1 <= c + 1 /\ c <= Len(s) /\ c - 1 + 1 = c
    BY <1>0
  <2> HIDE DEF c
  <2>2. /\ SubSeq(s, 1, c) \in Lists /\ Len(SubSeq(s, 1, c)) = c - 1 + 1
        /\ DOMAIN SubSeq(s, 1, c) = 1 .. c - 1 + 1
        /\ \A i \in 1 .. c - 1 + 1 : SubSeq(s, 1, c)[i] = s[1 + i - 1]
    BY <1>0, <2>1, PartOfList
  <2> QED  BY <2>1, <2>2 DEF c, IsPart
<1>2. IsPart(SubSeq(s, a, b - 1), s, a, b - a)
  <2> DEFINE c == b - 1
  <2>1. a \in Nat \ {0} /\ c \in Nat /\ a <= c + 1 /\ c <= Len(s) /\ c - a + 1 = b - a
    BY <1>0
  <2> HIDE DEF c
  <2>2. /\ SubSeq(s, a, c) \in Lists /\ Len(SubSeq(s, a, c)) = c - a + 1
        /\ DOMAIN SubSeq(s, a, c) = 1 .. c - a + 1
        /\ \A i \in 1 .. c - a + 1 : SubSeq(s, a, c)[i] = s[a + i - 1]
    BY <1>0, <2>1, PartOfList
  <2> QED  BY <2>1, <2>2 DEF c, IsPart
<1>3. IsPart(SubSeq(s, b, L), s, b, L - b + 1)
  <2>1. b \in Nat \ {0} /\ b <= L + 1 /\ L <= Len(s)
    BY <1>0
  <2>2. /\ SubSeq(s, b, L) \in Lists /\ Len(SubSeq(s, b, L)) = L - b + 1
        /\ DOMAIN SubSeq(s, b, L) = 1 .. L - b + 1
        /\ \A i \in 1 .. L - b + 1 : SubSeq(s, b, L)[i] = s[b + i - 1]
    BY <1>0, <2>1, PartOfList
  <2> QED  BY <2>2 DEF IsPart
<1> QED  BY <1>1, <1>2, <1>3

\* r is s followed by t.
IsJoin(r, s, t) ==
    /\ r \in Lists /\ Len(r) = Len(s) + Len(t)
    /\ \A i \in 1 .. Len(s) : r[i] = s[i]
    /\ \A i \in 1 .. Len(t) : r[Len(s) + i] = t[i]
    /\ Range(r) = Range(s) \cup Range(t)

\* Two lists of photos are joined.
LEMMA JoinLists ==
    ASSUME NEW s \in Lists, NEW t \in Lists
    PROVE  IsJoin(s \o t, s, t)
<1> DEFINE m == Len(s)
           n == Len(t)
<1>1. s \in Seq(Photos) /\ t \in Seq(Photos) /\ m \in Nat /\ n \in Nat
  BY DEF Lists
<1>2. /\ s \o t \in Seq(Photos) /\ Len(s \o t) = m + n
      /\ \A i \in 1 .. m + n : (s \o t)[i] = IF i <= m THEN s[i] ELSE t[i - m]
  BY <1>1, ConcatProperties
<1>3. Range(s \o t) = Range(s) \cup Range(t)
  BY <1>1, RangeConcatenation
<1> HIDE DEF m, n
<1>4. \A i \in 1 .. m : i \in 1 .. m + n /\ i <= m
  BY <1>1
<1>5. \A i \in 1 .. n : m + i \in 1 .. m + n /\ ~ (m + i <= m) /\ (m + i) - m = i
  BY <1>1
<1>6. \A i \in 1 .. m : (s \o t)[i] = s[i]
  BY <1>2, <1>4
<1>7. \A i \in 1 .. n : (s \o t)[m + i] = t[i]
  BY <1>2, <1>5
<1> QED  BY <1>2, <1>3, <1>6, <1>7 DEF IsJoin, Lists, m, n

\* r is s without what it held from place a up to place b, which is "cut".
IsCut(r, cut, s, L, a, b) ==
    /\ r \in Lists /\ Len(r) = L - (b - a)
    /\ \A i \in 1 .. a - 1 : r[i] = s[i]
    /\ cut \subseteq Photos
    /\ Range(s) \subseteq Range(r) \cup cut

\* Part of a list is taken out: what is ahead of it stays where it was.
LEMMA CutList ==
    ASSUME NEW s, NEW L, NEW a, NEW b, Places(s, L, a, b)
    PROVE  IsCut(SubSeq(s, 1, a - 1) \o SubSeq(s, b, L), ToSet(SubSeq(s, a, b - 1)), s, L, a, b)
<1> DEFINE front == SubSeq(s, 1, a - 1)
           mid == SubSeq(s, a, b - 1)
           back == SubSeq(s, b, L)
           r == front \o back
<1>0. s \in Lists /\ L \in Nat /\ Len(s) = L /\ a \in 1 .. L + 1 /\ b \in a .. L + 1
  BY DEF Places
<1>1. IsPart(front, s, 1, a - 1) /\ IsPart(mid, s, a, b - a) /\ IsPart(back, s, b, L - b + 1)
  BY PartsOfList
<1> HIDE DEF front, mid, back
<1>2. /\ front \in Lists /\ Len(front) = a - 1 /\ DOMAIN front = 1 .. a - 1
      /\ \A i \in 1 .. a - 1 : front[i] = s[1 + i - 1]
  BY <1>1 DEF IsPart
<1>3. /\ mid \in Lists /\ DOMAIN mid = 1 .. b - a
      /\ \A i \in 1 .. b - a : mid[i] = s[a + i - 1]
  BY <1>1 DEF IsPart
<1>4. /\ back \in Lists /\ Len(back) = L - b + 1 /\ DOMAIN back = 1 .. L - b + 1
      /\ \A i \in 1 .. L - b + 1 : back[i] = s[b + i - 1]
  BY <1>1 DEF IsPart
<1>5. IsJoin(r, front, back)
  BY <1>2, <1>4, JoinLists
<1> HIDE DEF r
<1>6. /\ r \in Lists /\ Len(r) = (a - 1) + (L - b + 1)
      /\ \A i \in 1 .. a - 1 : r[i] = front[i]
      /\ Range(r) = Range(front) \cup Range(back)
  BY <1>2, <1>4, <1>5 DEF IsJoin
<1>7. (a - 1) + (L - b + 1) = L - (b - a) /\ \A i \in 1 .. a - 1 : 1 + i - 1 = i
  BY <1>0
<1>8. \A i \in 1 .. a - 1 : front[i] = s[i]
  BY <1>2, <1>7
<1>9. ToSet(mid) = {mid[i] : i \in 1 .. b - a} /\ \A i \in 1 .. b - a : mid[i] \in Photos
  <2>1. mid \in Seq(Photos)
    BY <1>3 DEF Lists
  <2>2. \A i \in DOMAIN mid : mid[i] \in Photos
    BY <2>1
  <2>3. ToSet(mid) = {mid[i] : i \in DOMAIN mid}
    BY DEF ToSet
  <2> QED  BY <1>3, <2>2, <2>3
<1>10. ASSUME NEW i \in 1 .. L  PROVE s[i] \in Range(r) \cup ToSet(mid)
  <2>1. CASE i \in 1 .. a - 1
    BY <1>2, <1>6, <1>8, <2>1 DEF Range
  <2>2. CASE i \in a .. b - 1
    <3>1. i - a + 1 \in 1 .. b - a /\ a + (i - a + 1) - 1 = i
      BY <1>0, <2>2
    <3>2. mid[i - a + 1] = s[i]
      BY <1>3, <3>1
    <3> QED  BY <1>9, <3>1, <3>2
  <2>3. CASE i \in b .. L
    <3>1. i - b + 1 \in 1 .. L - b + 1 /\ b + (i - b + 1) - 1 = i
      BY <1>0, <2>3
    <3>2. back[i - b + 1] = s[i] /\ i - b + 1 \in DOMAIN back
      BY <1>4, <3>1
    <3> QED  BY <1>6, <3>2 DEF Range
  <2> QED  BY <1>0, <2>1, <2>2, <2>3
<1>11. DOMAIN s = 1 .. L
  BY <1>0 DEF Lists
<1>12. Range(s) \subseteq Range(r) \cup ToSet(mid)
  BY <1>10, <1>11 DEF Range
<1>13. ToSet(mid) \subseteq Photos
  BY <1>9
<1>14. Len(r) = L - (b - a) /\ \A i \in 1 .. a - 1 : r[i] = s[i]
  BY <1>6, <1>7, <1>8
<1> QED  BY <1>6, <1>12, <1>13, <1>14 DEF IsCut, r, front, mid, back

\* r is s with what g holds from place c up to place d put at place a.
IsInsertion(r, s, L, a, g, c, d) ==
    /\ r \in Lists /\ Len(r) = L + (d - c)
    /\ \A i \in 1 .. a - 1 : r[i] = s[i]
    /\ \A i \in 1 .. d - c : r[(a - 1) + i] = g[c + i - 1]
    /\ Range(s) \subseteq Range(r)

\* Part of another list comes in: what is ahead of the place stays where it was.
LEMMA InsertIntoList ==
    ASSUME NEW s, NEW L, NEW a, Places(s, L, a, a),
           NEW g, NEW N, NEW c, NEW d, Places(g, N, c, d)
    PROVE  IsInsertion(SubSeq(s, 1, a - 1) \o SubSeq(g, c, d - 1) \o SubSeq(s, a, L), s, L, a, g, c, d)
<1> DEFINE front == SubSeq(s, 1, a - 1)
           mid == SubSeq(g, c, d - 1)
           back == SubSeq(s, a, L)
           half == front \o mid
           r == half \o back
<1>0. /\ s \in Lists /\ L \in Nat /\ Len(s) = L /\ a \in 1 .. L + 1
      /\ g \in Lists /\ N \in Nat /\ Len(g) = N /\ c \in 1 .. N + 1 /\ d \in c .. N + 1
  BY DEF Places
<1>1. IsPart(front, s, 1, a - 1) /\ IsPart(mid, g, c, d - c) /\ IsPart(back, s, a, L - a + 1)
  BY PartsOfList
<1> HIDE DEF front, mid, back
<1>2. /\ front \in Lists /\ Len(front) = a - 1 /\ DOMAIN front = 1 .. a - 1
      /\ \A i \in 1 .. a - 1 : front[i] = s[1 + i - 1]
  BY <1>1 DEF IsPart
<1>3. /\ mid \in Lists /\ Len(mid) = d - c
      /\ \A i \in 1 .. d - c : mid[i] = g[c + i - 1]
  BY <1>1 DEF IsPart
<1>4. /\ back \in Lists /\ Len(back) = L - a + 1 /\ DOMAIN back = 1 .. L - a + 1
      /\ \A i \in 1 .. L - a + 1 : back[i] = s[a + i - 1]
  BY <1>1 DEF IsPart
<1>5. IsJoin(half, front, mid)
  BY <1>2, <1>3, JoinLists
<1> HIDE DEF half
<1>6. /\ half \in Lists /\ Len(half) = (a - 1) + (d - c)
      /\ \A i \in 1 .. a - 1 : half[i] = front[i]
      /\ \A i \in 1 .. d - c : half[(a - 1) + i] = mid[i]
      /\ Range(half) = Range(front) \cup Range(mid)
  BY <1>2, <1>3, <1>5 DEF IsJoin
<1>7. IsJoin(r, half, back)
  BY <1>4, <1>6, JoinLists
<1> HIDE DEF r
<1>8. /\ r \in Lists /\ Len(r) = ((a - 1) + (d - c)) + (L - a + 1)
      /\ \A i \in 1 .. (a - 1) + (d - c) : r[i] = half[i]
      /\ Range(r) = Range(half) \cup Range(back)
  BY <1>4, <1>6, <1>7 DEF IsJoin
<1>9. /\ ((a - 1) + (d - c)) + (L - a + 1) = L + (d - c)
      /\ \A i \in 1 .. a - 1 : i \in 1 .. (a - 1) + (d - c) /\ 1 + i - 1 = i
      /\ \A i \in 1 .. d - c : (a - 1) + i \in 1 .. (a - 1) + (d - c)
  BY <1>0
<1>10. \A i \in 1 .. a - 1 : front[i] = s[i]
  BY <1>2, <1>9
<1>11. \A i \in 1 .. a - 1 : r[i] = s[i]
  BY <1>6, <1>8, <1>9, <1>10
<1>12. \A i \in 1 .. d - c : r[(a - 1) + i] = g[c + i - 1]
  BY <1>3, <1>6, <1>8, <1>9
<1>13. ASSUME NEW i \in 1 .. L  PROVE s[i] \in Range(r)
  <2>1. CASE i \in 1 .. a - 1
    BY <1>2, <1>6, <1>8, <1>10, <2>1 DEF Range
  <2>2. CASE i \in a .. L
    <3>1. i - a + 1 \in 1 .. L - a + 1 /\ a + (i - a + 1) - 1 = i
      BY <1>0, <2>2
    <3>2. back[i - a + 1] = s[i] /\ i - a + 1 \in DOMAIN back
      BY <1>4, <3>1
    <3> QED  BY <1>8, <3>2 DEF Range
  <2> QED  BY <1>0, <2>1, <2>2
<1>14. DOMAIN s = 1 .. L
  BY <1>0 DEF Lists
<1>15. Range(s) \subseteq Range(r)
  BY <1>13, <1>14 DEF Range
<1>16. Len(r) = L + (d - c)
  BY <1>8, <1>9
<1> QED  BY <1>8, <1>11, <1>12, <1>15, <1>16 DEF IsInsertion, r, half, front, mid, back

\* Ahead of place "to" the rows are the same.
SameUpTo(m, n, to) == \A i \in 1 .. to - 1 : m.photos[i] = n.photos[i]

\* The parts of a merge in progress.
LEMMA PartsOfMerge ==
    ASSUME NEW given \in Lists, NEW m \in Merges(given)
    PROVE  /\ m.photos \in Lists /\ m.erased \in SUBSET Photos
           /\ Len(given) \in Nat /\ Len(m.photos) \in Nat
           /\ m.new \in 1 .. Len(given) + 1
           /\ m.old \in 1 .. Len(m.photos) + 1 /\ DOMAIN m.photos = 1 .. Len(m.photos)
           /\ m = [photos |-> m.photos, erased |-> m.erased, old |-> m.old, new |-> m.new]
<1>1. /\ m \in [photos : Lists, erased : SUBSET Photos, old : Nat \ {0}, new : Nat \ {0}]
      /\ m.old <= Len(m.photos) + 1 /\ m.new <= Len(given) + 1
  BY DEF Merges
<1>2. m.photos \in Seq(Photos) /\ given \in Seq(Photos)
  BY <1>1 DEF Lists
<1>3. Len(m.photos) \in Nat /\ DOMAIN m.photos = 1 .. Len(m.photos)
  BY <1>2
<1>4. m.old \in 1 .. Len(m.photos) + 1
  BY <1>1, <1>3
<1>5. Len(given) \in Nat
  BY <1>2
<1>6. m.new \in 1 .. Len(given) + 1
  BY <1>1, <1>5
<1> QED  BY <1>1, <1>3, <1>4, <1>5, <1>6

\* n is a merge with these parts.
IsMerge(n, given, s, e, a, b) ==
    n \in Merges(given) /\ n.photos = s /\ n.erased = e /\ n.old = a /\ n.new = b

\* A merge with given parts.
LEMMA MergeOfParts ==
    ASSUME NEW given \in Lists, NEW s, NEW e, NEW a, NEW b, s \in Lists, e \in SUBSET Photos,
           a \in 1 .. Len(s) + 1, b \in 1 .. Len(given) + 1
    PROVE  IsMerge([photos |-> s, erased |-> e, old |-> a, new |-> b], given, s, e, a, b)
<1> DEFINE n == [photos |-> s, erased |-> e, old |-> a, new |-> b]
<1>1. n.photos = s /\ n.erased = e /\ n.old = a /\ n.new = b
  OBVIOUS
<1>2. Len(s) \in Nat /\ Len(given) \in Nat
  BY DEF Lists
<1>3. a \in Nat \ {0} /\ a <= Len(s) + 1 /\ b \in Nat \ {0} /\ b <= Len(given) + 1
  BY <1>2
<1>4. n \in [photos : Lists, erased : SUBSET Photos, old : Nat \ {0}, new : Nat \ {0}]
  BY <1>3
<1> QED  BY <1>1, <1>3, <1>4 DEF Merges, IsMerge

\* Rows are erased: those ahead of the iterator and those from "to" on stay.
LEMMA EraseRows ==
    ASSUME NEW given \in Lists, NEW m \in Merges(given),
           NEW to \in m.old .. Len(m.photos) + 1, NEW n, n = Erase(m, to)
    PROVE  /\ n \in Merges(given) /\ n.old = m.old /\ n.new = m.new
           /\ Len(n.photos) = Len(m.photos) - (to - m.old)
           /\ SameUpTo(m, n, m.old)
           /\ m.erased \subseteq n.erased
           /\ Range(m.photos) \subseteq Range(n.photos) \cup n.erased
<1> DEFINE s == m.photos
           L == Len(m.photos)
           a == m.old
           taken == ToSet(SubSeq(s, a, to - 1))
           r == SubSeq(s, 1, a - 1) \o SubSeq(s, to, L)
<1>1. /\ s \in Lists /\ m.erased \in SUBSET Photos /\ m.new \in 1 .. Len(given) + 1 /\ L \in Nat /\ L = Len(s)
      /\ a \in 1 .. L + 1 /\ to \in a .. L + 1
      /\ m = [photos |-> s, erased |-> m.erased, old |-> a, new |-> m.new]
  BY PartsOfMerge
<1>2. n = [m EXCEPT !.photos = r, !.erased = m.erased \cup taken]
  BY DEF Erase
<1>3. n = [photos |-> r, erased |-> m.erased \cup taken, old |-> a, new |-> m.new]
  <2> HIDE DEF r, taken
  <2> QED  BY <1>1, <1>2
<1>8. Places(s, L, a, to)
  BY <1>1 DEF Places
<1> HIDE DEF s, L, a
<1>9. IsCut(r, taken, s, L, a, to)
  BY <1>8, CutList
<1> HIDE DEF r, taken
<1>4. /\ r \in Lists /\ Len(r) = L - (to - a)
      /\ \A i \in 1 .. a - 1 : r[i] = s[i]
      /\ taken \subseteq Photos
      /\ Range(s) \subseteq Range(r) \cup taken
  BY <1>9 DEF IsCut
<1>5. a \in 1 .. Len(r) + 1
  BY <1>1, <1>4
<1>6. m.erased \cup taken \in SUBSET Photos
  BY <1>1, <1>4
<1>10. IsMerge(n, given, r, m.erased \cup taken, a, m.new)
  <2> DEFINE e == m.erased \cup taken
             b == m.new
  <2>1. r \in Lists /\ e \in SUBSET Photos /\ a \in 1 .. Len(r) + 1 /\ b \in 1 .. Len(given) + 1
    BY <1>1, <1>4, <1>5, <1>6
  <2>2. n = [photos |-> r, erased |-> e, old |-> a, new |-> b]
    BY <1>3
  <2> HIDE DEF e, b
  <2>3. IsMerge(n, given, r, e, a, b)
    BY <2>1, <2>2, MergeOfParts
  <2> QED  BY <2>3 DEF e, b
<1>7. n \in Merges(given) /\ n.photos = r /\ n.erased = m.erased \cup taken /\ n.old = a /\ n.new = m.new
  BY <1>10 DEF IsMerge
<1> QED  BY <1>4, <1>7 DEF SameUpTo, s, L, a

\* Photos are inserted: the given ones come where the iterator is, which moves on.
LEMMA InsertRows ==
    ASSUME NEW given \in Lists, NEW m \in Merges(given), NEW to \in m.new .. Len(given) + 1,
           NEW n, n = Insert(m, given, to)
    PROVE  /\ n \in Merges(given) /\ n.old = m.old + (to - m.new) /\ n.new = to
           /\ Len(n.photos) = Len(m.photos) + (to - m.new)
           /\ SameUpTo(m, n, m.old)
           /\ \A i \in 1 .. to - m.new : n.photos[(m.old - 1) + i] = given[m.new + i - 1]
           /\ m.erased \subseteq n.erased
           /\ Range(m.photos) \subseteq Range(n.photos) \cup n.erased
<1> DEFINE s == m.photos
           L == Len(m.photos)
           N == Len(given)
           a == m.old
           c == m.new
           r == (SubSeq(s, 1, a - 1) \o SubSeq(given, c, to - 1)) \o SubSeq(s, a, L)
<1>1. /\ s \in Lists /\ m.erased \in SUBSET Photos /\ L \in Nat /\ L = Len(s) /\ c \in 1 .. N + 1 /\ N \in Nat
      /\ a \in 1 .. L + 1 /\ to \in c .. N + 1
      /\ m = [photos |-> s, erased |-> m.erased, old |-> a, new |-> c]
  BY PartsOfMerge
<1>2. N \in Nat
  BY DEF Lists
<1>3. n = [m EXCEPT !.photos = r, !.old = a + to - c, !.new = to]
  BY DEF Insert
<1>4. n = [photos |-> r, erased |-> m.erased, old |-> a + to - c, new |-> to]
  <2> HIDE DEF r
  <2> QED  BY <1>1, <1>3
<1>8. Places(s, L, a, a)
  BY <1>1 DEF Places
<1>9. Places(given, N, c, to)
  BY <1>1, <1>2 DEF Places
<1>12. N = Len(given)
  OBVIOUS
<1> HIDE DEF s, L, a, c, N
<1>10. IsInsertion(r, s, L, a, given, c, to)
  BY <1>8, <1>9, InsertIntoList
<1> HIDE DEF r
<1>5. /\ r \in Lists /\ Len(r) = L + (to - c)
      /\ \A i \in 1 .. a - 1 : r[i] = s[i]
      /\ \A i \in 1 .. to - c : r[(a - 1) + i] = given[c + i - 1]
      /\ Range(s) \subseteq Range(r)
  BY <1>10 DEF IsInsertion
<1>6. /\ a + to - c \in 1 .. Len(r) + 1 /\ to \in 1 .. Len(given) + 1 /\ a + to - c = a + (to - c)
  BY <1>1, <1>2, <1>5, <1>12
<1>11. IsMerge(n, given, r, m.erased, a + to - c, to)
  <2> DEFINE e == m.erased
             b == a + to - c
  <2>1. r \in Lists /\ e \in SUBSET Photos /\ b \in 1 .. Len(r) + 1 /\ to \in 1 .. Len(given) + 1
    BY <1>1, <1>5, <1>6
  <2>2. n = [photos |-> r, erased |-> e, old |-> b, new |-> to]
    BY <1>4
  <2> HIDE DEF e, b
  <2>3. IsMerge(n, given, r, e, b, to)
    BY <2>1, <2>2, MergeOfParts
  <2> QED  BY <2>3 DEF e, b
<1>7. n \in Merges(given) /\ n.photos = r /\ n.erased = m.erased /\ n.old = a + to - c /\ n.new = to
  BY <1>11 DEF IsMerge
<1> QED  BY <1>5, <1>6, <1>7 DEF SameUpTo, s, L, a, c

\* How far a merge is from its end.
Remaining(m, given) == (Len(m.photos) + 1 - m.old) + (Len(given) + 1 - m.new)

Done(m, given) == m.old > Len(m.photos) /\ m.new > Len(given)

\* What was taken over so far is what was given.
Half(m, given) ==
    /\ m.old = m.new
    /\ \A i \in 1 .. m.old - 1 : m.photos[i] = given[i]

\* What becomes of a merge in one turn of the loop.
Follows(n, m, given) ==
    /\ n \in Merges(given)
    /\ Half(m, given) => Half(n, given)
    /\ Remaining(n, given) < Remaining(m, given)
    /\ m.erased \subseteq n.erased
    /\ Range(m.photos) \subseteq Range(n.photos) \cup n.erased

\* It is never negative.
LEMMA RemainingIsNumber ==
    ASSUME NEW given \in Lists, NEW m \in Merges(given)
    PROVE  Remaining(m, given) \in Nat
BY PartsOfMerge DEF Remaining

\* When rows are erased that were not wanted.
LEMMA EraseFollows ==
    ASSUME NEW given \in Lists, NEW m \in Merges(given), NEW to, to \in m.old + 1 .. Len(m.photos) + 1
    PROVE  Follows(Erase(m, to), m, given)
<1> DEFINE n == Erase(m, to)
<1>1. /\ Len(m.photos) \in Nat /\ m.old \in 1 .. Len(m.photos) + 1 /\ Len(given) \in Nat
      /\ m.new \in 1 .. Len(given) + 1
  BY PartsOfMerge
<1>2. to \in m.old .. Len(m.photos) + 1
  BY <1>1
<1>3. /\ n \in Merges(given) /\ n.old = m.old /\ n.new = m.new
      /\ Len(n.photos) = Len(m.photos) - (to - m.old)
      /\ SameUpTo(m, n, m.old)
      /\ m.erased \subseteq n.erased
      /\ Range(m.photos) \subseteq Range(n.photos) \cup n.erased
  BY <1>2, EraseRows
<1> HIDE DEF n
<1>4. Half(m, given) => Half(n, given)
  BY <1>3 DEF Half, SameUpTo
<1>5. Remaining(n, given) < Remaining(m, given)
  <2> DEFINE l == Len(m.photos)
             g == Len(given)
             o == m.old
             w == m.new
  <2>1. /\ l \in Nat /\ g \in Nat /\ o \in 1 .. l + 1 /\ w \in 1 .. g + 1 /\ to \in o + 1 .. l + 1
        /\ n.old = o /\ n.new = w /\ Len(n.photos) = l - (to - o)
    BY <1>1, <1>3
  <2>2. Remaining(m, given) = (l + 1 - o) + (g + 1 - w)
    BY DEF Remaining
  <2> HIDE DEF l, g, o, w
  <2>3. Remaining(n, given) = ((l - (to - o)) + 1 - o) + (g + 1 - w)
    BY <2>1 DEF Remaining, g
  <2> QED  BY <2>1, <2>2, <2>3
<1> QED  BY <1>3, <1>4, <1>5 DEF Follows, n

\* When photos come in that were not there.
LEMMA InsertFollows ==
    ASSUME NEW given \in Lists, NEW m \in Merges(given), NEW to, to \in m.new + 1 .. Len(given) + 1
    PROVE  Follows(Insert(m, given, to), m, given)
<1> DEFINE n == Insert(m, given, to)
<1>1. /\ Len(m.photos) \in Nat /\ m.old \in 1 .. Len(m.photos) + 1 /\ Len(given) \in Nat
      /\ m.new \in 1 .. Len(given) + 1
  BY PartsOfMerge
<1>2. to \in m.new .. Len(given) + 1
  BY <1>1
<1>3. /\ n \in Merges(given) /\ n.old = m.old + (to - m.new) /\ n.new = to
      /\ Len(n.photos) = Len(m.photos) + (to - m.new)
      /\ SameUpTo(m, n, m.old)
      /\ \A i \in 1 .. to - m.new : n.photos[(m.old - 1) + i] = given[m.new + i - 1]
      /\ m.erased \subseteq n.erased
      /\ Range(m.photos) \subseteq Range(n.photos) \cup n.erased
  BY <1>2, InsertRows
<1> HIDE DEF n
<1>4. ASSUME Half(m, given)  PROVE Half(n, given)
  <2>1. m.old = m.new /\ \A i \in 1 .. m.old - 1 : m.photos[i] = given[i]
    BY <1>4 DEF Half
  <2>2. ASSUME NEW i \in 1 .. n.old - 1  PROVE n.photos[i] = given[i]
    <3>1. CASE i \in 1 .. m.old - 1
      BY <1>3, <2>1, <3>1 DEF SameUpTo
    <3>2. CASE i \in m.old .. n.old - 1
      <4>1. /\ i - m.old + 1 \in 1 .. to - m.new /\ (m.old - 1) + (i - m.old + 1) = i
            /\ m.new + (i - m.old + 1) - 1 = i
        <5> DEFINE o == m.old
        <5>1. o \in Nat /\ to \in Nat /\ m.new = o
          BY <1>1, <1>2, <2>1
        <5>2. n.old = o + (to - o)
          BY <1>3, <5>1
        <5>3. i \in o .. n.old - 1
          BY <3>2
        <5> HIDE DEF o
        <5>4. i \in Int /\ o <= i /\ i < to
          BY <5>1, <5>2, <5>3
        <5>5. i - o + 1 \in 1 .. to - o /\ (o - 1) + (i - o + 1) = i /\ o + (i - o + 1) - 1 = i
          BY <5>1, <5>4
        <5> QED  BY <5>1, <5>5 DEF o
      <4>2. n.photos[(m.old - 1) + (i - m.old + 1)] = given[m.new + (i - m.old + 1) - 1]
        BY <1>3, <4>1
      <4> QED  BY <4>1, <4>2
    <3> QED  BY <1>1, <1>2, <1>3, <3>1, <3>2
  <2>3. n.old = n.new
    BY <1>1, <1>2, <1>3, <2>1
  <2> QED  BY <2>2, <2>3 DEF Half
<1>5. Remaining(n, given) < Remaining(m, given)
  <2> DEFINE l == Len(m.photos)
             g == Len(given)
             o == m.old
             w == m.new
  <2>1. /\ l \in Nat /\ g \in Nat /\ o \in 1 .. l + 1 /\ w \in 1 .. g + 1 /\ to \in w + 1 .. g + 1
        /\ n.old = o + (to - w) /\ n.new = to /\ Len(n.photos) = l + (to - w)
    BY <1>1, <1>3
  <2>2. Remaining(m, given) = (l + 1 - o) + (g + 1 - w)
    BY DEF Remaining
  <2> HIDE DEF l, g, o, w
  <2>3. Remaining(n, given) = ((l + (to - w)) + 1 - (o + (to - w))) + (g + 1 - to)
    BY <2>1 DEF Remaining, g
  <2> QED  BY <2>1, <2>2, <2>3
<1> QED  BY <1>3, <1>4, <1>5 DEF Follows, n

\* When a row is the photo wanted.
LEMMA AdvanceFollows ==
    ASSUME NEW given \in Lists, NEW m \in Merges(given), m.old <= Len(m.photos), m.new <= Len(given),
           m.photos[m.old] = given[m.new]
    PROVE  Follows([m EXCEPT !.old = @ + 1, !.new = @ + 1], m, given)
<1> DEFINE n == [m EXCEPT !.old = @ + 1, !.new = @ + 1]
           a == m.old + 1
           b == m.new + 1
           s == m.photos
           e == m.erased
<1>1. /\ Len(s) \in Nat /\ m.old \in 1 .. Len(s) + 1 /\ Len(given) \in Nat
      /\ s \in Lists /\ e \in SUBSET Photos /\ m.new \in 1 .. Len(given) + 1
      /\ m = [photos |-> s, erased |-> e, old |-> m.old, new |-> m.new]
  BY PartsOfMerge
<1>2. n = [photos |-> s, erased |-> e, old |-> a, new |-> b]
  <2> DEFINE c == m.old
             d == m.new
  <2>1. m = [photos |-> s, erased |-> e, old |-> c, new |-> d] /\ n = [m EXCEPT !.old = c + 1, !.new = d + 1]
    BY <1>1
  <2>2. a = c + 1 /\ b = d + 1
    OBVIOUS
  <2> HIDE DEF s, e, c, d, n, a, b
  <2> QED  BY <2>1, <2>2
<1>3. a \in 1 .. Len(s) + 1 /\ b \in 1 .. Len(given) + 1
  BY <1>1
<1> HIDE DEF n
<1>4. n \in Merges(given) /\ n.photos = s /\ n.erased = e /\ n.old = a /\ n.new = b
  <2> HIDE DEF s, e, a, b
  <2>1. IsMerge(n, given, s, e, a, b)
    BY <1>1, <1>2, <1>3, MergeOfParts
  <2> QED  BY <2>1 DEF IsMerge
<1>5. ASSUME Half(m, given)  PROVE Half(n, given)
  <2>1. m.old = m.new /\ \A i \in 1 .. m.old - 1 : m.photos[i] = given[i]
    BY <1>5 DEF Half
  <2>2. ASSUME NEW i \in 1 .. n.old - 1  PROVE n.photos[i] = given[i]
    <3>1. i \in 1 .. m.old - 1 \/ i = m.old
      BY <1>1, <1>4
    <3> QED  BY <1>4, <2>1, <3>1
  <2> QED  BY <1>4, <2>1, <2>2 DEF Half
<1>6. Remaining(n, given) < Remaining(m, given)
  BY <1>1, <1>4 DEF Remaining
<1> QED  BY <1>4, <1>5, <1>6 DEF Follows, n

\* Every turn of the loop brings the merge nearer to its end.
LEMMA StepFollows ==
    ASSUME NEW given \in Lists, NEW m \in Merges(given), ~ Done(m, given)
    PROVE  Follows(MergeStep(m, given), m, given)
<1> DEFINE rest == m.old .. Len(m.photos)
           found == {i \in rest : m.new <= Len(given) /\ m.photos[i] = given[m.new]}
           known == {j \in m.new + 1 .. Len(given) : \E i \in rest : m.photos[i] = given[j]}
<1>2. /\ Len(m.photos) \in Nat /\ m.old \in 1 .. Len(m.photos) + 1
      /\ Len(given) \in Nat /\ m.new \in 1 .. Len(given) + 1
  BY PartsOfMerge
<1>3. MergeStep(m, given) =
        IF m.old > Len(m.photos) THEN Insert(m, given, Len(given) + 1)
        ELSE IF m.new > Len(given) THEN Erase(m, Len(m.photos) + 1)
        ELSE IF m.photos[m.old] = given[m.new] THEN [m EXCEPT !.old = @ + 1, !.new = @ + 1]
        ELSE IF found # {} THEN Erase(m, CHOOSE i \in found : TRUE)
        ELSE IF known # {} THEN Insert(m, given, CHOOSE j \in known : \A k \in known : j <= k)
        ELSE Insert(Erase(m, Len(m.photos) + 1), given, Len(given) + 1)
  BY DEF MergeStep
<1>4. CASE m.old > Len(m.photos)
  <2>1. Len(given) + 1 \in m.new + 1 .. Len(given) + 1
    BY <1>2, <1>4 DEF Done
  <2>2. MergeStep(m, given) = Insert(m, given, Len(given) + 1)
    BY <1>3, <1>4
  <2> QED  BY <2>1, <2>2, InsertFollows
<1>5. CASE m.old <= Len(m.photos) /\ m.new > Len(given)
  <2>1. Len(m.photos) + 1 \in m.old + 1 .. Len(m.photos) + 1
    BY <1>2, <1>5
  <2>2. MergeStep(m, given) = Erase(m, Len(m.photos) + 1)
    BY <1>2, <1>3, <1>5
  <2> QED  BY <2>1, <2>2, EraseFollows
<1>6. CASE m.old <= Len(m.photos) /\ m.new <= Len(given) /\ m.photos[m.old] = given[m.new]
  <2>1. MergeStep(m, given) = [m EXCEPT !.old = @ + 1, !.new = @ + 1]
    BY <1>2, <1>3, <1>6
  <2> QED  BY <1>6, <2>1, AdvanceFollows
<1>7. CASE m.old <= Len(m.photos) /\ m.new <= Len(given) /\ m.photos[m.old] # given[m.new] /\ found # {}
  <2> DEFINE to == CHOOSE i \in found : TRUE
  <2>1. MergeStep(m, given) = Erase(m, to)
    <3> HIDE DEF found, known
    <3>1. ~ (m.old > Len(m.photos)) /\ ~ (m.new > Len(given))
      BY <1>2, <1>7
    <3> QED  BY <1>3, <1>7, <3>1
  <2>2. to \in found
    BY <1>7
  <2> HIDE DEF to
  <2>3. to \in m.old .. Len(m.photos) /\ m.photos[to] = given[m.new]
    BY <2>2
  <2>4. to \in m.old + 1 .. Len(m.photos) + 1
    BY <1>2, <1>7, <2>3
  <2> QED  BY <2>1, <2>4, EraseFollows
<1>8. CASE /\ m.old <= Len(m.photos) /\ m.new <= Len(given) /\ m.photos[m.old] # given[m.new]
           /\ found = {} /\ known # {}
  <2> DEFINE to == CHOOSE j \in known : \A k \in known : j <= k
  <2>1. MergeStep(m, given) = Insert(m, given, to)
    <3> HIDE DEF known, to, found
    <3> QED  BY <1>2, <1>3, <1>8 DEF to
  <2>2. \E j \in known : \A k \in known : j <= k
    <3>1. known \subseteq Nat
      BY <1>2
    <3> HIDE DEF known
    <3> QED  BY <1>8, <3>1, LeastNumber
  <2>3. to \in known
    <3> HIDE DEF known
    <3> QED  BY <2>2
  <2> HIDE DEF to
  <2>4. to \in m.new + 1 .. Len(given) + 1
    BY <1>2, <2>3
  <2> QED  BY <2>1, <2>4, InsertFollows
<1>9. CASE /\ m.old <= Len(m.photos) /\ m.new <= Len(given) /\ m.photos[m.old] # given[m.new]
           /\ found = {} /\ known = {}
  <2> DEFINE n == Erase(m, Len(m.photos) + 1)
             r == Insert(n, given, Len(given) + 1)
  <2>1. MergeStep(m, given) = r
    <3> HIDE DEF known, found
    <3> QED  BY <1>2, <1>3, <1>9
  <2>2. Len(m.photos) + 1 \in m.old + 1 .. Len(m.photos) + 1
    BY <1>2, <1>9
  <2>3. Follows(n, m, given)
    BY <2>2, EraseFollows
  <2>4. n.new = m.new
    <3>1. Len(m.photos) + 1 \in m.old .. Len(m.photos) + 1
      BY <1>2
    <3> QED  BY <3>1, EraseRows
  <2> HIDE DEF n
  <2>5. n \in Merges(given)
    BY <2>3 DEF Follows
  <2>6. Len(given) + 1 \in n.new + 1 .. Len(given) + 1
    BY <1>2, <1>9, <2>4
  <2>7. Follows(r, n, given)
    BY <2>5, <2>6, InsertFollows
  <2> HIDE DEF r
  <2>8. Remaining(m, given) \in Nat /\ Remaining(n, given) \in Nat /\ Remaining(r, given) \in Nat
    BY <2>5, <2>7, RemainingIsNumber DEF Follows
  <2>9. Follows(r, m, given)
    BY <2>3, <2>7, <2>8 DEF Follows
  <2> QED  BY <2>1, <2>9
<1> QED  BY <1>2, <1>4, <1>5, <1>6, <1>7, <1>8, <1>9

\* A loop goes from a state to the next until it is at an end.
IsLoop(f, D, E, step) == f = [m \in D |-> IF m \in E THEN m ELSE f[step[m]]]

\* There is a function that says where a loop ends, whether it does or not.
LEMMA LoopExists ==
    ASSUME NEW D, NEW E, NEW step, \A m \in D : m \notin E => step[m] \in D
    PROVE  \E f : IsLoop(f, D, E, step)
<1> DEFINE Closed(R) == \A m \in D : /\ m \in E => <<m, m>> \in R
                                     /\ m \notin E => \A e \in D : <<step[m], e>> \in R => <<m, e>> \in R
           L == {x \in D \X D : \A R \in SUBSET (D \X D) : Closed(R) => x \in R}
           pick(m) == CHOOSE e : e \in D /\ <<m, e>> \in L
           f == [m \in D |-> pick(m)]
<1>1. L \in SUBSET (D \X D) /\ \A R \in SUBSET (D \X D) : Closed(R) => L \subseteq R
  OBVIOUS
<1>2. Closed(L)
  <2>1. ASSUME NEW m \in D, m \in E  PROVE <<m, m>> \in L
    BY <2>1
  <2>2. ASSUME NEW m \in D, m \notin E, NEW e \in D, <<step[m], e>> \in L  PROVE <<m, e>> \in L
    BY <2>2
  <2> QED  BY <2>1, <2>2
<1> HIDE DEF L
<1>3. ASSUME NEW m \in D, m \in E, NEW e \in D, <<m, e>> \in L  PROVE e = m
  <2> SUFFICES ASSUME e # m  PROVE FALSE
    OBVIOUS
  <2> DEFINE R == L \ {<<m, e>>}
  <2>1. R \in SUBSET (D \X D)
    BY <1>1
  <2>2. Closed(R)
    BY <1>2, <1>3
  <2> HIDE DEF Closed
  <2>3. L \subseteq R
    BY <1>1, <2>1, <2>2
  <2> QED  BY <1>3, <2>3
<1>4. ASSUME NEW m \in D, m \notin E, NEW e \in D, <<m, e>> \in L  PROVE <<step[m], e>> \in L
  <2> SUFFICES ASSUME <<step[m], e>> \notin L  PROVE FALSE
    OBVIOUS
  <2> DEFINE R == L \ {<<m, e>>}
  <2>1. R \in SUBSET (D \X D)
    BY <1>1
  <2>2. Closed(R)
    BY <1>2, <1>4
  <2> HIDE DEF Closed
  <2>3. L \subseteq R
    BY <1>1, <2>1, <2>2
  <2> QED  BY <1>4, <2>3
<1>5. ASSUME NEW m \in D, m \in E  PROVE pick(m) = m
  <2>1. \A e : e \in D /\ <<m, e>> \in L <=> e = m
    BY <1>2, <1>3, <1>5
  <2> QED  BY <2>1
<1>6. ASSUME NEW m \in D, m \notin E  PROVE step[m] \in D /\ pick(m) = pick(step[m])
  <2>1. step[m] \in D
    BY <1>6
  <2>2. \A e : e \in D /\ <<m, e>> \in L <=> e \in D /\ <<step[m], e>> \in L
    BY <1>2, <1>4, <1>6, <2>1
  <2> QED  BY <2>1, <2>2
<1> HIDE DEF pick
<1>7. \A m \in D : f[m] = pick(m)
  OBVIOUS
<1>8. \A m \in D : pick(m) = IF m \in E THEN m ELSE f[step[m]]
  BY <1>5, <1>6, <1>7
<1>9. IsLoop(f, D, E, step)
  BY <1>8 DEF IsLoop
<1> QED  BY <1>9

\* What the loop makes of a merge.
Finishes(r, m, given) ==
    /\ r \in Merges(given) /\ Done(r, given)
    /\ Half(m, given) => Half(r, given)
    /\ m.erased \subseteq r.erased
    /\ Range(m.photos) \subseteq Range(r.photos) \cup r.erased

\* The loop ends, with the list that was given: the rows that are not in it were erased.
LEMMA MergedProperties ==
    ASSUME NEW given \in Lists, NEW was, was.photos \in Lists
    PROVE  /\ Merged(was, given).photos = given
           /\ Range(was.photos) \ Range(given) \subseteq Merged(was, given).erased
           /\ Merged(was, given).erased \subseteq Photos
<1> DEFINE D == Merges(given)
           E == {m \in D : Done(m, given)}
           step == [m \in D |-> MergeStep(m, given)]
           start == [photos |-> was.photos, erased |-> {}, old |-> 1, new |-> 1]
           loop == CHOOSE f : f = [m \in D |-> IF m.old > Len(m.photos) /\ m.new > Len(given) THEN m
                                               ELSE f[MergeStep(m, given)]]
<1>1. \A m \in D : m \notin E => step[m] \in D
  BY StepFollows DEF Follows
<1>2. ASSUME NEW f, IsLoop(f, D, E, step)
      PROVE  f = [m \in D |-> IF m.old > Len(m.photos) /\ m.new > Len(given) THEN m ELSE f[MergeStep(m, given)]]
  <2>1. f = [m \in D |-> IF m \in E THEN m ELSE f[step[m]]]
    <3> HIDE DEF D, E, step
    <3> QED  BY <1>2 DEF IsLoop
  <2>2. \A m \in D : (m \in E <=> m.old > Len(m.photos) /\ m.new > Len(given)) /\ step[m] = MergeStep(m, given)
    <3> HIDE DEF D
    <3> QED  BY DEF Done
  <2> HIDE DEF D, E, step
  <2> QED  BY <2>1, <2>2
<1>3. \E f : f = [m \in D |-> IF m.old > Len(m.photos) /\ m.new > Len(given) THEN m ELSE f[MergeStep(m, given)]]
  <2>1. \E f : IsLoop(f, D, E, step)
    <3> HIDE DEF D, E, step
    <3> QED  BY <1>1, LoopExists
  <2> HIDE DEF D, E, step
  <2> QED  BY <1>2, <2>1
<1>4. loop = [m \in D |-> IF m.old > Len(m.photos) /\ m.new > Len(given) THEN m ELSE loop[MergeStep(m, given)]]
  <2> HIDE DEF D
  <2> QED  BY <1>3
<1>5. Merged(was, given) = loop[start]
  BY DEF Merged
<1> HIDE DEF loop
<1>6. \A m \in D : loop[m] = IF Done(m, given) THEN m ELSE loop[MergeStep(m, given)]
  <2> HIDE DEF D
  <2> QED  BY <1>4 DEF Done
<1>7. \A m \in D : Finishes(loop[m], m, given)
  <2> DEFINE Bad == {m \in D : ~ Finishes(loop[m], m, given)}
             sizes == {Remaining(m, given) : m \in Bad}
  <2> SUFFICES ASSUME Bad # {}  PROVE FALSE
    OBVIOUS
  <2>1. sizes \subseteq Nat /\ sizes # {}
    BY RemainingIsNumber
  <2>2. PICK k \in sizes : \A n \in sizes : k <= n
    <3> HIDE DEF sizes
    <3> QED  BY <2>1, LeastNumber
  <2>3. PICK m \in Bad : k = Remaining(m, given)
    OBVIOUS
  <2>4. m \in D /\ ~ Finishes(loop[m], m, given)
    OBVIOUS
  <2>5. CASE Done(m, given)
    BY <1>6, <2>4, <2>5 DEF Finishes
  <2>6. CASE ~ Done(m, given)
    <3> DEFINE n == MergeStep(m, given)
    <3>1. Follows(n, m, given) /\ loop[m] = loop[n]
      BY <1>6, <2>4, <2>6, StepFollows
    <3> HIDE DEF n
    <3>2. n \in D /\ Remaining(n, given) < Remaining(m, given)
      BY <3>1 DEF Follows
    <3>3. Remaining(n, given) \in Nat /\ Remaining(m, given) \in Nat
      BY <2>4, <3>2, RemainingIsNumber
    <3>4. n \notin Bad
      <4> SUFFICES ASSUME n \in Bad  PROVE FALSE
        OBVIOUS
      <4>1. Remaining(n, given) \in sizes
        OBVIOUS
      <4>2. k <= Remaining(n, given)
        <5> HIDE DEF sizes
        <5> QED  BY <2>2, <4>1
      <4> QED  BY <2>3, <3>2, <3>3, <4>2
    <3>5. Finishes(loop[n], n, given)
      BY <3>2, <3>4
    <3> HIDE DEF Bad, sizes, D
    <3>6. Finishes(loop[m], m, given)
      BY <3>1, <3>5 DEF Finishes, Follows
    <3> QED  BY <2>4, <3>6
  <2> QED  BY <2>5, <2>6
<1>8. IsMerge(start, given, was.photos, {}, 1, 1)
  <2> DEFINE s == was.photos
  <2>1. s \in Lists /\ {} \in SUBSET Photos /\ 1 \in 1 .. Len(s) + 1 /\ 1 \in 1 .. Len(given) + 1
    BY DEF Lists
  <2> HIDE DEF s
  <2>2. IsMerge([photos |-> s, erased |-> {}, old |-> 1, new |-> 1], given, s, {}, 1, 1)
    BY <2>1, MergeOfParts
  <2> QED  BY <2>2 DEF s
<1> HIDE DEF start
<1>9. start \in D /\ start.photos = was.photos /\ start.old = 1 /\ start.new = 1
  BY <1>8 DEF IsMerge
<1>10. Half(start, given)
  BY <1>9 DEF Half
<1> DEFINE r == Merged(was, given)
<1>11. Finishes(r, start, given)
  BY <1>5, <1>7, <1>9
<1> HIDE DEF r
<1>12. /\ r \in Merges(given) /\ Done(r, given) /\ Half(r, given)
       /\ Range(was.photos) \subseteq Range(r.photos) \cup r.erased
  BY <1>9, <1>10, <1>11 DEF Finishes
<1>13. /\ r.photos \in Lists /\ r.erased \in SUBSET Photos
       /\ Len(given) \in Nat /\ Len(r.photos) \in Nat
       /\ r.new \in 1 .. Len(given) + 1 /\ r.old \in 1 .. Len(r.photos) + 1
  BY <1>12, PartsOfMerge
<1>14. r.old = Len(r.photos) + 1 /\ r.new = Len(given) + 1
  BY <1>12, <1>13 DEF Done
<1>15. Len(r.photos) = Len(given) /\ \A i \in 1 .. Len(given) : r.photos[i] = given[i]
  <2>1. r.old = r.new /\ \A i \in 1 .. r.old - 1 : r.photos[i] = given[i]
    BY <1>12 DEF Half
  <2>2. Len(r.photos) = Len(given) /\ r.old - 1 = Len(given)
    BY <1>13, <1>14, <2>1
  <2> QED  BY <2>1, <2>2
<1>16. r.photos = given
  BY <1>13, <1>15 DEF Lists
<1> QED  BY <1>12, <1>13, <1>16 DEF r

-----------------------------------------------------------------------------
(* What the handlers of the model make of it *)

\* A model has rows, an index and data, and nothing else.
IsModel(m) == m = [photos |-> m.photos, rows |-> m.rows, data |-> m.data]

\* A model with its parts.
LEMMA ModelOfParts ==
    ASSUME NEW photos, NEW rows, NEW data
    PROVE  LET m == [photos |-> photos, rows |-> rows, data |-> data]
           IN  IsModel(m) /\ m.photos = photos /\ m.rows = rows /\ m.data = data
BY DEF IsModel

\* The elements of a sequence, as the community modules and the proofs name them.
LEMMA ToSetIsRange == \A s : ToSet(s) = Range(s)
BY DEF ToSet, Range

\* n is m with other rows, another index or other data.
Becomes(n, photos, rows, data) == IsModel(n) /\ n.photos = photos /\ n.rows = rows /\ n.data = data

\* Data of some photos goes.
LEMMA WithoutProperties ==
    ASSUME NEW m, IsModel(m), NEW ids
    PROVE  Becomes(Without(m, ids), m.photos, m.rows, Restrict(m.data, DOMAIN m.data \ ids))
<1> DEFINE a == m.photos
           b == m.rows
           c == m.data
           d == Restrict(m.data, DOMAIN m.data \ ids)
           n == Without(m, ids)
<1>1. m = [photos |-> a, rows |-> b, data |-> c]
  BY DEF IsModel
<1>2. n = [m EXCEPT !.data = d]
  BY DEF Without
<1> HIDE DEF a, b, c, d, n
<1>3. n = [photos |-> a, rows |-> b, data |-> d]
  BY <1>1, <1>2
<1>4. Becomes(n, a, b, d)
  BY <1>3 DEF Becomes, IsModel
<1> QED  BY <1>4 DEF a, b, d, n

\* Rows of removed photos go, and the data of the photos in those rows.
LEMMA RemovePhotosProperties ==
    ASSUME NEW m, IsModel(m), NEW ids
    PROVE  LET rows == RowsOfIds(m, ids)
           IN  Becomes(RemovePhotos(m, ids), Keep(m.photos, DOMAIN m.photos \ rows), m.rows,
                       Restrict(m.data, DOMAIN m.data \ {m.photos[r] : r \in rows \cap DOMAIN m.photos}))
<1> DEFINE rows == RowsOfIds(m, ids)
           out == {m.photos[r] : r \in rows \cap DOMAIN m.photos}
           w == Without(m, out)
           a == m.photos
           b == m.rows
           d == Restrict(m.data, DOMAIN m.data \ out)
           k == Keep(m.photos, DOMAIN m.photos \ rows)
           n == RemovePhotos(m, ids)
<1> HIDE DEF out
<1>1. Becomes(w, a, b, d)
  BY WithoutProperties
<1>2. n = [w EXCEPT !.photos = Keep(w.photos, DOMAIN w.photos \ rows)]
  BY DEF RemovePhotos, out
<1> HIDE DEF w, n, a, b, d
<1>3. w = [photos |-> a, rows |-> b, data |-> d]
  BY <1>1 DEF Becomes, IsModel
<1>4. Keep(w.photos, DOMAIN w.photos \ rows) = k
  BY <1>3 DEF a
<1> HIDE DEF k
<1>5. n = [photos |-> k, rows |-> b, data |-> d]
  BY <1>2, <1>3, <1>4
<1>6. Becomes(n, k, b, d)
  BY <1>5 DEF Becomes, IsModel
<1> QED  BY <1>6 DEF k, n, b, d, out

\* The data of a photo is asked for.
LEMMA PhotoDataProperties ==
    ASSUME NEW m, IsModel(m), NEW p, Asks(m, p)
    PROVE  LET n == PhotoData(m, p)
           IN  /\ IsModel(n) /\ n.photos = m.photos /\ n.rows = m.rows
               /\ DOMAIN n.data = DOMAIN m.data \cup {p}
               /\ \A q \in DOMAIN m.data : q # p /\ n.data[q] = m.data[q]
               /\ n.data[p] = Unknown
<1> DEFINE a == m.photos
           b == m.rows
           c == m.data
           d == [q \in DOMAIN c \cup {p} |-> IF q \in DOMAIN c THEN c[q] ELSE Unknown]
           n == PhotoData(m, p)
<1>1. m = [photos |-> a, rows |-> b, data |-> c]
  BY DEF IsModel
<1>2. n = [m EXCEPT !.data = d]
  BY DEF PhotoData
<1>3. p \notin DOMAIN c
  BY DEF Asks
<1> HIDE DEF a, b, c, n
<1>4. DOMAIN d = DOMAIN c \cup {p} /\ (\A q \in DOMAIN c : q # p /\ d[q] = c[q]) /\ d[p] = Unknown
  BY <1>3
<1> HIDE DEF d
<1>5. n = [photos |-> a, rows |-> b, data |-> d]
  BY <1>1, <1>2
<1>6. Becomes(n, a, b, d)
  BY <1>5 DEF Becomes, IsModel
<1>7. IsModel(n) /\ n.photos = a /\ n.rows = b /\ n.data = d
  BY <1>6 DEF Becomes
<1> QED  BY <1>4, <1>7 DEF a, b, c, n

\* The data of a photo comes.
LEMMA FetchedPropertiesProperties ==
    ASSUME NEW m, IsModel(m), NEW p, NEW details
    PROVE  LET n == FetchedPhotoProperties(m, p, details)
           IN  /\ IsModel(n) /\ n.photos = m.photos /\ n.rows = m.rows
               /\ p \notin DOMAIN m.rows => n.data = m.data
               /\ p \in DOMAIN m.rows => /\ DOMAIN n.data = DOMAIN m.data \cup {p}
                                         /\ \A q \in DOMAIN m.data : q # p => n.data[q] = m.data[q]
                                         /\ n.data[p] = details
<1>1. CASE p \notin DOMAIN m.rows
  BY <1>1 DEF FetchedPhotoProperties
<1>2. CASE p \in DOMAIN m.rows
  <2> DEFINE a == m.photos
             b == m.rows
             c == m.data
             d == [q \in DOMAIN c \cup {p} |-> IF q = p THEN details ELSE c[q]]
             n == FetchedPhotoProperties(m, p, details)
  <2>1. m = [photos |-> a, rows |-> b, data |-> c]
    BY DEF IsModel
  <2>2. n = [m EXCEPT !.data = d]
    BY <1>2 DEF FetchedPhotoProperties
  <2> HIDE DEF a, b, c, n
  <2>4. DOMAIN d = DOMAIN c \cup {p} /\ (\A q \in DOMAIN c : q # p => d[q] = c[q]) /\ d[p] = details
    OBVIOUS
  <2> HIDE DEF d
  <2>5. n = [photos |-> a, rows |-> b, data |-> d]
    BY <2>1, <2>2
  <2>6. Becomes(n, a, b, d)
    BY <2>5 DEF Becomes, IsModel
  <2>7. IsModel(n) /\ n.photos = a /\ n.rows = b /\ n.data = d
    BY <2>6 DEF Becomes
  <2>8. p \in DOMAIN b
    BY <1>2 DEF b
  <2>9. /\ IsModel(n) /\ n.photos = a /\ n.rows = b
        /\ DOMAIN n.data = DOMAIN c \cup {p}
        /\ \A q \in DOMAIN c : q # p => n.data[q] = c[q]
        /\ n.data[p] = details
    BY <2>4, <2>7
  <2> QED  BY <1>2, <2>9 DEF a, b, c, n
<1> QED  BY <1>1, <1>2

\* A list comes: its photos are the rows, the index is exact, the data is some of
\* what there was, and none is kept of a row that the list does not have.
LEMMA FetchedPhotosProperties ==
    ASSUME NEW m, IsModel(m), m.photos \in Seq(Photos), NEW given, given \in Seq(Photos)
    PROVE  LET n == FetchedPhotos(m, given)
           IN  /\ IsModel(n) /\ n.photos = given
               /\ DOMAIN n.rows = Range(given)
               /\ \A p \in DOMAIN n.rows : n.rows[p] \in DOMAIN given /\ given[n.rows[p]] = p
               /\ DOMAIN n.data \subseteq DOMAIN m.data
               /\ DOMAIN n.data \cap Range(m.photos) \subseteq Range(given)
               /\ \A p \in DOMAIN n.data : n.data[p] = m.data[p]
<1> DEFINE merged == Merged(m, given)
           w == Without(m, merged.erased)
           a == m.photos
           b == m.rows
           d == Restrict(m.data, DOMAIN m.data \ merged.erased)
           r == [p \in ToSet(merged.photos) |-> RowOf(merged.photos, p)]
           n == FetchedPhotos(m, given)
<1>1. merged.photos = given /\ Range(m.photos) \ Range(given) \subseteq merged.erased
  BY MergedProperties DEF Lists
<1>2. n = [w EXCEPT !.photos = merged.photos, !.rows = r]
  BY DEF FetchedPhotos
<1> HIDE DEF merged
<1>3. Becomes(w, a, b, d)
  BY WithoutProperties
<1>4. DOMAIN r = Range(given) /\ \A p \in DOMAIN r : r[p] \in DOMAIN given /\ given[r[p]] = p
  <2>1. r = [p \in Range(given) |-> RowOf(given, p)]
    BY <1>1, ToSetIsRange
  <2>2. \A p \in Range(given) : \E i \in DOMAIN given : given[i] = p
    BY DEF Range
  <2>3. \A p \in Range(given) : RowOf(given, p) \in DOMAIN given /\ given[RowOf(given, p)] = p
    BY <2>2 DEF RowOf
  <2> QED  BY <2>1, <2>3
<1>5. /\ DOMAIN d = DOMAIN m.data \ merged.erased
      /\ \A p \in DOMAIN d : d[p] = m.data[p]
  BY DEF Restrict
<1> HIDE DEF n, w, a, b, d, r
<1>6. w = [photos |-> a, rows |-> b, data |-> d]
  BY <1>3 DEF Becomes, IsModel
<1>7. n = [photos |-> given, rows |-> r, data |-> d]
  BY <1>1, <1>2, <1>6
<1>8. Becomes(n, given, r, d)
  BY <1>7 DEF Becomes, IsModel
<1>9. IsModel(n) /\ n.photos = given /\ n.rows = r /\ n.data = d
  BY <1>8 DEF Becomes
<1> QED  BY <1>1, <1>4, <1>5, <1>9 DEF n

\* A list of different photos has as many elements as places.
LEMMA CardinalityOfList ==
    ASSUME NEW T, NEW s \in Seq(T), IsInjective(s)
    PROVE  Cardinality(Range(s)) = Len(s)
<1> DEFINE n == Len(s)
<1>1. n \in Nat /\ s \in [1 .. n -> Range(s)]
  <2>1. Len(s) \in Nat /\ DOMAIN s = 1 .. Len(s) /\ s = [i \in 1 .. Len(s) |-> s[i]]
    OBVIOUS
  <2>2. \A i \in 1 .. Len(s) : s[i] \in Range(s)
    BY <2>1 DEF Range
  <2> QED  BY <2>1, <2>2
<1>2. IsFiniteSet(1 .. n) /\ Cardinality(1 .. n) = n
  BY <1>1, FS_Interval
<1>3. s \in Bijection(1 .. n, Range(s))
  <2>1. s \in Injection(1 .. n, Range(s))
    BY <1>1 DEF Injection
  <2>2. \A p \in Range(s) : \E i \in 1 .. n : s[i] = p
    BY <1>1 DEF Range
  <2> QED  BY <1>1, <2>1, <2>2 DEF Bijection, Surjection
<1> HIDE DEF n
<1>4. Cardinality(Range(s)) = n
  <2>1. ExistsBijection(1 .. n, Range(s))
    BY <1>3 DEF ExistsBijection
  <2> QED  BY <1>2, <2>1, FS_Bijection
<1> QED  BY <1>4 DEF n

-----------------------------------------------------------------------------
(* Types *)

\* What waits for the database's thread.
TaskSet ==
    [kind : {"list", "dates", "review", "scan"}]
    \cup [kind : {"details", "mark", "ungroup"}, photo : Photos]
    \cup [kind : {"edit"}, photo : Photos, date : NoDate .. MaxDate]
    \cup [kind : {"group"}, photos : SUBSET Photos]
    \cup [kind : {"create", "join"}, photo : Photos, photos : SUBSET Photos]
    \cup [kind : {"remove"}, ids : SUBSET Photos]

DifferentPhotos == {s \in Seq(Photos) : IsInjective(s)}
Facts == [known : {TRUE}, date : NoDate .. MaxDate, group : Photos \cup {NoGroup}]

\* What waits for the GUI's loop.
EventSet ==
    [kind : {"list"}, photos : DifferentPhotos]
    \cup [kind : {"details"}, photo : Photos, details : Facts]
    \cup [kind : {"dates"}, dates : Seq(NoDate .. MaxDate)]
    \cup [kind : {"filters"}]
    \cup [kind : {"added", "modified", "removed"}, ids : SUBSET Photos]

CollectionTyped == Stored \subseteq Photos /\ collection \in [Stored -> Records]

QueuesTyped == tasks \in Seq(TaskSet) /\ events \in Seq(EventSet)

ModelTyped ==
    /\ IsModel(model)
    /\ model.photos \in DifferentPhotos
    /\ Range(model.photos) \subseteq DOMAIN model.rows
    /\ DOMAIN model.data \subseteq Photos

\* The range of time is within the dates there are.
ControlSet ==
    {c \in [dates : Seq(NoDate .. MaxDate), from : Int, to : Int,
            expression : NoDate .. MaxDate, stagedOnly : BOOLEAN] :
        c.dates # <<>> => /\ c.from \in 0 .. Len(c.dates) - 1
                          /\ c.to \in 0 .. Len(c.dates) - 1
                          /\ c.from <= c.to}

FilterSet == [from : NoDate .. MaxDate, to : NoDate .. MaxDate,
              expression : NoDate .. MaxDate, stagedOnly : BOOLEAN]

ControlsTyped == controls \in ControlSet /\ filter \in FilterSet

LeftTyped == left \in [requests : Nat, controls : Nat, shown : Nat]

FlagsTyped == opened \in BOOLEAN /\ crashed \in BOOLEAN

Typed == /\ CollectionTyped /\ QueuesTyped /\ ModelTyped
         /\ ControlsTyped /\ LeftTyped /\ FlagsTyped

\* What a task holds besides its kind.
LEMMA TaskFields ==
    ASSUME NEW t \in TaskSet
    PROVE  /\ t.kind \in {"details", "mark", "ungroup", "edit", "create", "join"} => t.photo \in Photos
           /\ t.kind = "edit" => t.date \in NoDate .. MaxDate
           /\ t.kind \in {"group", "create", "join"} => t.photos \in SUBSET Photos
           /\ t.kind = "remove" => t.ids \in SUBSET Photos
           /\ t.kind = "create" => t = [kind |-> "create", photo |-> t.photo, photos |-> t.photos]
BY DEF TaskSet

\* Tasks that are made.
LEMMA TasksMade ==
    /\ \A k \in {"list", "dates", "review", "scan"} : Task(k) \in TaskSet /\ Task(k).kind = k
    /\ \A p \in Photos : \A k \in {"details", "mark", "ungroup"} : [kind |-> k, photo |-> p] \in TaskSet
    /\ \A p \in Photos : \A d \in NoDate .. MaxDate : [kind |-> "edit", photo |-> p, date |-> d] \in TaskSet
    /\ \A S \in SUBSET Photos : [kind |-> "group", photos |-> S] \in TaskSet
    /\ \A p \in Photos : \A S \in SUBSET Photos : \A k \in {"create", "join"} :
          [kind |-> k, photo |-> p, photos |-> S] \in TaskSet
    /\ \A S \in SUBSET Photos : [kind |-> "remove", ids |-> S] \in TaskSet
BY DEF TaskSet, Task

\* What an event holds besides its kind.
LEMMA EventFields ==
    ASSUME NEW e \in EventSet
    PROVE  /\ e.kind = "list" => e.photos \in DifferentPhotos
           /\ e.kind = "details" => e.photo \in Photos /\ e.details \in Facts
           /\ e.kind = "dates" => e.dates \in Seq(NoDate .. MaxDate)
           /\ e.kind \in {"added", "modified", "removed"} => e.ids \in SUBSET Photos
BY DEF EventSet

\* Events that are made.
LEMMA EventsMade ==
    /\ \A s \in DifferentPhotos : [kind |-> "list", photos |-> s] \in EventSet
    /\ \A p \in Photos : \A d \in Facts : [kind |-> "details", photo |-> p, details |-> d] \in EventSet
    /\ \A s \in Seq(NoDate .. MaxDate) : [kind |-> "dates", dates |-> s] \in EventSet
    /\ [kind |-> "filters"] \in EventSet
    /\ \A S \in SUBSET Photos : \A k \in {"added", "modified", "removed"} : Signal(k, S) \in EventSet
BY DEF EventSet, Signal

\* Blank, and records with a field changed.
LEMMA RecordsMade ==
    /\ NoDate \in NoDate .. MaxDate
    /\ Blank \in Records /\ [Blank EXCEPT !.staged = TRUE] \in Records
    /\ \A r \in Records : /\ [r EXCEPT !.staged = FALSE] \in Records
                          /\ [r EXCEPT !.broken = TRUE] \in Records
                          /\ \A d \in NoDate .. MaxDate : [r EXCEPT !.date = d] \in Records
                          /\ \A g \in Photos \cup {NoGroup} : [r EXCEPT !.group = g] \in Records
                          /\ [r EXCEPT !.broken = FALSE, !.group = NoGroup] \in Records
<1>1. NoDate \in NoDate .. MaxDate
  BY ViewAssumption DEF NoDate
<1>2. Blank \in Records
  BY <1>1 DEF Blank, Records
<1>3. [Blank EXCEPT !.staged = TRUE] \in Records
  BY <1>2 DEF Records
<1> QED  BY <1>1, <1>2, <1>3 DEF Records

\* What is done with the two queues.
LEMMA QueueProperties ==
    ASSUME NEW T, NEW q, q \in Seq(T)
    PROVE  /\ q # <<>> => Head(q) \in T /\ Tail(q) \in Seq(T)
           /\ \A x \in T : Append(q, x) \in Seq(T) /\ q \o <<x>> \in Seq(T)
           /\ \A x \in T : q # <<>> => <<x>> \o Tail(q) \in Seq(T)
           /\ \A x, y \in T : q \o <<x, y>> \in Seq(T)
           /\ q \o <<>> = q
OBVIOUS

\* The list a filter gives: the photos that match it, each once.
LEMMA OnPhotosProperties ==
    ASSUME CollectionTyped, NEW f
    PROVE  /\ OnPhotos(f) \in DifferentPhotos
           /\ Range(OnPhotos(f)) = {p \in Stored : Matches(collection[p], f)}
<1> DEFINE S == {p \in Stored : Matches(collection[p], f)}
           before == {pair \in Stored \X Stored : Earlier(pair[1], pair[2])}
<1>1. S \subseteq Stored /\ Stored \subseteq Photos
  BY DEF CollectionTyped
<1>2. IsFiniteSet(S)
  <2>1. IsFiniteSet(1 .. MaxPhoto)
    BY ViewAssumption, FS_Interval
  <2>2. S \subseteq 1 .. MaxPhoto
    BY <1>1 DEF Photos
  <2> HIDE DEF S
  <2> QED  BY <2>1, <2>2, FS_Subset
<1>3. \A x, y : <<x, y>> \in before <=> x \in Stored /\ y \in Stored /\ Earlier(x, y)
  OBVIOUS
<1>4. \A x \in Stored : x \in Int /\ collection[x].date \in Int
  BY ViewAssumption DEF CollectionTyped, Records, Photos, NoDate
<1>5. OnPhotos(f) = InOrder(S, before)
  BY DEF OnPhotos
<1> HIDE DEF S, before
<1>6. Orders(before, S)
  <2>1. \A x \in S : <<x, x>> \notin before
    BY <1>1, <1>3, <1>4 DEF Earlier
  <2>2. \A x, y \in S : x # y => <<x, y>> \in before \/ <<y, x>> \in before
    BY <1>1, <1>3, <1>4 DEF Earlier
  <2>3. \A x, y, z \in S : <<x, y>> \in before /\ <<y, z>> \in before => <<x, z>> \in before
    BY <1>1, <1>3, <1>4 DEF Earlier
  <2> QED  BY <2>1, <2>2, <2>3 DEF Orders
<1>7. /\ OnPhotos(f) \in Seq(S) /\ IsInjective(OnPhotos(f)) /\ Range(OnPhotos(f)) = S
  BY <1>2, <1>5, <1>6, InOrderProperties
<1>8. OnPhotos(f) \in Seq(Photos)
  <2>1. S \subseteq Photos
    BY <1>1
  <2> QED  BY <1>7, <2>1, SeqMonotonic
<1> QED  BY <1>7, <1>8 DEF DifferentPhotos, S

\* The dates of the photos.
LEMMA DatesTyped ==
    ASSUME CollectionTyped
    PROVE  Dates \in Seq(NoDate .. MaxDate)
<1> DEFINE S == {collection[p].date : p \in Stored}
<1>1. S \subseteq NoDate .. MaxDate
  BY DEF CollectionTyped, Records
<1>2. IsFiniteSet(NoDate .. MaxDate)
  BY ViewAssumption, FS_Interval DEF NoDate
<1>3. Dates = Ascending(S)
  BY DEF Dates
<1> HIDE DEF S
<1>4. IsFiniteSet(S) /\ S \subseteq Int
  <2>1. S \subseteq Int
    BY <1>1, ViewAssumption DEF NoDate
  <2> QED  BY <1>1, <1>2, <2>1, FS_Subset
<1>5. Ascending(S) \in Seq(S)
  BY <1>4, AscendingProperties
<1> QED  BY <1>1, <1>3, <1>5, SeqMonotonic

\* The details of a photo.
LEMMA DetailsTyped ==
    ASSUME CollectionTyped, NEW p
    PROVE  Details(p) \in Facts
<1>1. CASE p \in Stored
  <2>1. collection[p] \in Records
    BY <1>1 DEF CollectionTyped
  <2>2. collection[p].date \in NoDate .. MaxDate /\ collection[p].group \in Photos \cup {NoGroup}
    BY <2>1 DEF Records
  <2> QED  BY <1>1, <2>2 DEF Details, Facts
<1>2. CASE p \notin Stored
  BY <1>2, RecordsMade DEF Details, Facts
<1> QED  BY <1>1, <1>2

\* A photo is added with a record.
LEMMA AddTyped ==
    ASSUME CollectionTyped, NEW r \in Records, Add(r)
    PROVE  CollectionTyped' /\ NextId \in Photos /\ events' = events \o <<Signal("added", {NextId})>>
<1> DEFINE n == NextId
           c == [p \in Stored \cup {n} |-> IF p = n THEN r ELSE collection[p]]
<1>1. n \in Photos /\ collection' = c /\ events' = events \o <<Signal("added", {n})>>
  BY DEF Add, Sends
<1> HIDE DEF n
<1>2. DOMAIN c = Stored \cup {n} /\ \A p \in Stored \cup {n} : c[p] \in Records
  BY DEF CollectionTyped
<1>3. Stored' = Stored \cup {n}
  BY <1>1, <1>2 DEF Stored
<1>4. Stored' \subseteq Photos
  BY <1>1, <1>3 DEF CollectionTyped
<1>5. collection' \in [Stored' -> Records]
  BY <1>1, <1>2, <1>3
<1> QED  BY <1>1, <1>4, <1>5 DEF CollectionTyped, n

\* Tasks of the database's thread keep the collection and the queues typed.
LEMMA PerformTyped ==
    ASSUME CollectionTyped, QueuesTyped, Perform
    PROVE  CollectionTyped' /\ QueuesTyped'
<1> DEFINE t == Head(tasks)
<1>1. tasks # <<>> /\ tasks \in Seq(TaskSet) /\ events \in Seq(EventSet)
  BY DEF Perform, QueuesTyped
<1>2. t \in TaskSet /\ Tail(tasks) \in Seq(TaskSet)
  BY <1>1, QueueProperties
<1>3. ASSUME collection' = collection  PROVE CollectionTyped'
  BY <1>3 DEF CollectionTyped, Stored
<1>4. ASSUME NEW c \in [Stored -> Records], collection' = c  PROVE CollectionTyped'
  <2>1. Stored' = Stored
    BY <1>4 DEF Stored
  <2> QED  BY <1>4, <2>1 DEF CollectionTyped
<1>5. /\ \A x \in EventSet : events \o <<x>> \in Seq(EventSet)
      /\ \A x \in TaskSet : <<x>> \o Tail(tasks) \in Seq(TaskSet)
      /\ events \o <<>> \in Seq(EventSet)
  BY <1>1, QueueProperties
<1>6. Stored \subseteq Photos /\ \A p \in Stored : collection[p] \in Records
  BY DEF CollectionTyped
<1>7. CASE FetchMatchingPhotos
  <2>1. [kind |-> "list", photos |-> OnPhotos(filter)] \in EventSet
    BY OnPhotosProperties, EventsMade
  <2> QED  BY <1>2, <1>3, <1>5, <1>7, <2>1 DEF FetchMatchingPhotos, Ends, Sends, QueuesTyped
<1>8. CASE FetchPhotoProperties
  <2>1. t.kind = "details"
    BY <1>8 DEF FetchPhotoProperties
  <2>2. t.photo \in Photos
    BY <1>2, <2>1, TaskFields
  <2>3. [kind |-> "details", photo |-> t.photo, details |-> Details(t.photo)] \in EventSet
    BY <2>2, DetailsTyped, EventsMade
  <2> QED  BY <1>2, <1>3, <1>5, <1>8, <2>3 DEF FetchPhotoProperties, Ends, Sends, QueuesTyped, dbVars
<1>9. CASE GetTimeRangeForFilters
  <2>1. [kind |-> "dates", dates |-> Dates] \in EventSet
    BY DatesTyped, EventsMade
  <2> QED  BY <1>2, <1>3, <1>5, <1>9, <2>1 DEF GetTimeRangeForFilters, Ends, Sends, QueuesTyped, dbVars
<1>10. CASE MarkPhotosAsReviewed
  <2> DEFINE c == [p \in Stored |-> IF p \in Stored THEN [collection[p] EXCEPT !.staged = FALSE] ELSE collection[p]]
  <2>1. collection' = c
    BY <1>10 DEF MarkPhotosAsReviewed, Changed
  <2>2. c \in [Stored -> Records]
    BY <1>6, RecordsMade
  <2> HIDE DEF c
  <2>3. CollectionTyped'
    BY <1>4, <2>1, <2>2
  <2> QED  BY <1>2, <1>5, <1>10, <2>3, EventsMade DEF MarkPhotosAsReviewed, Ends, Sends, QueuesTyped
<1>11. CASE Scan
  <2>1. Add([Blank EXCEPT !.staged = TRUE]) /\ tasks' = Tail(tasks)
    BY <1>11 DEF Scan, Ends
  <2>2. CollectionTyped' /\ NextId \in Photos /\ events' = events \o <<Signal("added", {NextId})>>
    BY <2>1, RecordsMade, AddTyped
  <2>3. Signal("added", {NextId}) \in EventSet
    BY <2>2, EventsMade
  <2> QED  BY <1>2, <1>5, <2>1, <2>2, <2>3 DEF QueuesTyped
<1>12. CASE Edit
  <2>1. t.kind = "edit" /\ tasks' = Tail(tasks)
    BY <1>12 DEF Edit, Ends
  <2>2. t.photo \in Photos /\ t.date \in NoDate .. MaxDate
    BY <1>2, <2>1, TaskFields
  <2>3. CASE t.photo \in Stored
    <3> DEFINE c == [p \in Stored |-> IF p \in {t.photo} THEN [collection[p] EXCEPT !.date = t.date] ELSE collection[p]]
    <3>1. collection' = c /\ events' = events \o <<Signal("modified", {t.photo})>>
      BY <1>12, <2>3 DEF Edit, Changed, Sends
    <3>2. c \in [Stored -> Records]
      BY <1>6, <2>2, RecordsMade
    <3> HIDE DEF c
    <3>3. CollectionTyped'
      BY <1>4, <3>1, <3>2
    <3>4. Signal("modified", {t.photo}) \in EventSet
      BY <2>2, EventsMade
    <3> QED  BY <1>2, <1>5, <2>1, <3>1, <3>3, <3>4 DEF QueuesTyped
  <2>4. CASE t.photo \notin Stored
    <3>1. collection' = collection /\ events' = events
      BY <1>12, <2>4 DEF Edit
    <3> QED  BY <1>1, <1>2, <1>3, <2>1, <3>1 DEF QueuesTyped
  <2> QED  BY <2>3, <2>4
<1>13. CASE MarkBroken
  <2> DEFINE c == [p \in Stored |-> IF p \in {t.photo} THEN [collection[p] EXCEPT !.broken = TRUE] ELSE collection[p]]
  <2>1. collection' = c /\ tasks' = Tail(tasks) /\ events' = events
    BY <1>13 DEF MarkBroken, Changed, Ends
  <2>2. c \in [Stored -> Records]
    BY <1>6, RecordsMade
  <2> HIDE DEF c
  <2>3. CollectionTyped'
    BY <1>4, <2>1, <2>2
  <2> QED  BY <1>1, <1>2, <2>1, <2>3 DEF QueuesTyped
<1>14. CASE GroupRepresentative
  <2> DEFINE first == CHOOSE p \in t.photos : \A q \in t.photos : p <= q
             copied == IF first \in Stored THEN collection[first] ELSE Blank
             r == [copied EXCEPT !.broken = FALSE, !.group = NoGroup]
             x == [kind |-> "create", photo |-> NextId, photos |-> t.photos]
  <2>1. t.kind = "group" /\ Add(r) /\ tasks' = <<x>> \o Tail(tasks)
    BY <1>14 DEF GroupRepresentative
  <2>2. copied \in Records
    BY <1>6, RecordsMade
  <2> HIDE DEF copied
  <2>3. r \in Records
    BY <2>2, RecordsMade
  <2> HIDE DEF r
  <2>4. CollectionTyped' /\ NextId \in Photos /\ events' = events \o <<Signal("added", {NextId})>>
    BY <2>1, <2>3, AddTyped
  <2>5. Signal("added", {NextId}) \in EventSet
    BY <2>4, EventsMade
  <2>6. t.photos \in SUBSET Photos
    BY <1>2, <2>1, TaskFields
  <2>7. x \in TaskSet
    BY <2>4, <2>6, TasksMade
  <2> HIDE DEF x
  <2> QED  BY <1>5, <2>1, <2>4, <2>5, <2>7 DEF QueuesTyped
<1>15. CASE GroupCreate
  <2> DEFINE x == [t EXCEPT !.kind = "join"]
  <2>1. t.kind = "create" /\ tasks' = <<x>> \o Tail(tasks) /\ collection' = collection
        /\ events' = events \o <<Signal("modified", {t.photo})>>
    BY <1>15 DEF GroupCreate, Sends, dbVars
  <2>2. t.photo \in Photos /\ t.photos \in SUBSET Photos /\ t = [kind |-> "create", photo |-> t.photo, photos |-> t.photos]
    BY <1>2, <2>1, TaskFields
  <2>3. x \in TaskSet
    <3> DEFINE p == t.photo
               S == t.photos
    <3>1. t = [kind |-> "create", photo |-> p, photos |-> S] /\ p \in Photos /\ S \in SUBSET Photos
      BY <2>2
    <3> HIDE DEF p, S, t
    <3>2. x = [kind |-> "join", photo |-> p, photos |-> S]
      BY <3>1
    <3> QED  BY <3>1, <3>2, TasksMade
  <2>4. Signal("modified", {t.photo}) \in EventSet
    BY <2>2, EventsMade
  <2> HIDE DEF x
  <2> QED  BY <1>3, <1>5, <2>1, <2>3, <2>4 DEF QueuesTyped
<1>16. CASE GroupJoin
  <2>1. t.kind = "join" /\ tasks' = Tail(tasks)
    BY <1>16 DEF GroupJoin, Ends
  <2>2. t.photo \in Photos /\ t.photos \in SUBSET Photos
    BY <1>2, <2>1, TaskFields
  <2>3. CASE t.photos \subseteq Stored
    <3> DEFINE c == [p \in Stored |-> IF p \in t.photos THEN [collection[p] EXCEPT !.group = t.photo] ELSE collection[p]]
    <3>1. collection' = c /\ events' = events \o <<Signal("modified", t.photos)>>
      BY <1>16, <2>3 DEF GroupJoin, Changed, Sends
    <3>2. c \in [Stored -> Records]
      BY <1>6, <2>2, RecordsMade
    <3> HIDE DEF c
    <3>3. CollectionTyped'
      BY <1>4, <3>1, <3>2
    <3>4. Signal("modified", t.photos) \in EventSet
      BY <2>2, EventsMade
    <3> QED  BY <1>2, <1>5, <2>1, <3>1, <3>3, <3>4 DEF QueuesTyped
  <2>4. CASE ~ (t.photos \subseteq Stored)
    <3>1. collection' = collection /\ events' = events
      BY <1>16, <2>4 DEF GroupJoin
    <3> QED  BY <1>1, <1>2, <1>3, <2>1, <3>1 DEF QueuesTyped
  <2> QED  BY <2>3, <2>4
<1>17. CASE UngroupDissolve
  <2> DEFINE members == MembersOf(t.photo)
             c == [p \in Stored |-> IF p \in members THEN [collection[p] EXCEPT !.group = NoGroup] ELSE collection[p]]
             x == [kind |-> "remove", ids |-> IF members = {} THEN {} ELSE {t.photo} \cap Stored]
  <2>1. /\ t.kind = "ungroup" /\ collection' = c /\ tasks' = <<x>> \o Tail(tasks)
        /\ events' = events \o (IF members = {} THEN <<>> ELSE <<Signal("modified", members \cup {t.photo})>>)
    BY <1>17 DEF UngroupDissolve, Changed, Sends
  <2>2. t.photo \in Photos /\ members \subseteq Photos
    BY <1>2, <1>6, <2>1, TaskFields DEF MembersOf
  <2> HIDE DEF members
  <2>3. c \in [Stored -> Records]
    BY <1>6, RecordsMade
  <2> HIDE DEF c
  <2>4. CollectionTyped'
    BY <1>4, <2>1, <2>3
  <2>5. x \in TaskSet
    <3>1. (IF members = {} THEN {} ELSE {t.photo} \cap Stored) \in SUBSET Photos
      BY <1>6
    <3> QED  BY <3>1, TasksMade
  <2> HIDE DEF x
  <2>6. Signal("modified", members \cup {t.photo}) \in EventSet
    BY <2>2, EventsMade
  <2>7. events' \in Seq(EventSet)
    BY <1>5, <2>1, <2>6
  <2> QED  BY <1>5, <2>1, <2>4, <2>5, <2>7 DEF QueuesTyped
<1>18. CASE UngroupRemove
  <2> DEFINE removed == {p \in t.ids : collection[p].group = NoGroup}
  <2>1. t.kind = "remove" /\ tasks' = Tail(tasks) /\ collection' = Restrict(collection, Stored \ removed)
        /\ events' = events \o <<Signal("removed", t.ids)>>
    BY <1>18 DEF UngroupRemove, Ends, Sends
  <2>2. t.ids \in SUBSET Photos
    BY <1>2, <2>1, TaskFields
  <2>3. Signal("removed", t.ids) \in EventSet
    BY <2>2, EventsMade
  <2> HIDE DEF removed
  <2>4. CollectionTyped'
    <3> DEFINE c == [p \in Stored \ removed |-> collection[p]]
    <3>1. collection' = c
      BY <2>1 DEF Restrict
    <3>2. DOMAIN c = Stored \ removed /\ \A p \in Stored \ removed : c[p] \in Records
      BY <1>6
    <3> HIDE DEF c
    <3>3. Stored' = Stored \ removed
      BY <3>1, <3>2 DEF Stored
    <3>4. collection' \in [Stored' -> Records]
      <4>1. c = [p \in DOMAIN c |-> c[p]]
        BY DEF c
      <4> QED  BY <3>1, <3>2, <3>3, <4>1
    <3> QED  BY <1>6, <3>3, <3>4 DEF CollectionTyped
  <2> QED  BY <1>2, <1>5, <2>1, <2>3, <2>4 DEF QueuesTyped
<1> QED  BY <1>7, <1>8, <1>9, <1>10, <1>11, <1>12, <1>13, <1>14, <1>15, <1>16, <1>17, <1>18 DEF Perform

\* The filter made of the controls.
LEMMA FilterMade ==
    ASSUME NEW c \in ControlSet
    PROVE  AllFilters(c) \in FilterSet
<1>1. /\ c.dates \in Seq(NoDate .. MaxDate) /\ c.from \in Int /\ c.to \in Int
      /\ c.expression \in NoDate .. MaxDate /\ c.stagedOnly \in BOOLEAN
      /\ c.dates # <<>> => /\ c.from \in 0 .. Len(c.dates) - 1
                           /\ c.to \in 0 .. Len(c.dates) - 1
  BY DEF ControlSet
<1>2. NoDate \in NoDate .. MaxDate /\ MaxDate \in NoDate .. MaxDate
  BY ViewAssumption DEF NoDate
<1> DEFINE from == IF c.dates = <<>> THEN NoDate ELSE c.dates[c.from + 1]
           to == IF c.dates = <<>> THEN MaxDate ELSE c.dates[c.to + 1]
<1>3. from \in NoDate .. MaxDate /\ to \in NoDate .. MaxDate
  <2>1. CASE c.dates = <<>>
    BY <1>2, <2>1
  <2>2. CASE c.dates # <<>>
    <3> DEFINE s == c.dates
               a == c.from + 1
               b == c.to + 1
               D == NoDate .. MaxDate
    <3>1. s \in Seq(D) /\ a \in 1 .. Len(s) /\ b \in 1 .. Len(s)
      BY <1>1, <2>2
    <3> HIDE DEF s, a, b, D
    <3>2. s[a] \in D /\ s[b] \in D
      BY <3>1
    <3> QED  BY <2>2, <3>2 DEF s, a, b, D
  <2> QED  BY <2>1, <2>2
<1>4. AllFilters(c) = [from |-> from, to |-> to, expression |-> c.expression, stagedOnly |-> c.stagedOnly]
  BY DEF AllFilters
<1> HIDE DEF from, to
<1> QED  BY <1>1, <1>3, <1>4 DEF FilterSet

\* The filter of the model follows the controls, and photos are asked for.
LEMMA UpdateModelFiltersTyped ==
    ASSUME QueuesTyped, controls' \in ControlSet, UpdateModelFilters
    PROVE  filter' \in FilterSet /\ tasks' \in Seq(TaskSet)
<1>1. filter' \in FilterSet
  BY FilterMade DEF UpdateModelFilters
<1>2. tasks' = Append(tasks, Task("list")) \/ tasks' = tasks
  BY DEF UpdateModelFilters, UpdatePhotos, Exec
<1>3. Task("list") \in TaskSet
  BY TasksMade
<1> QED  BY <1>1, <1>2, <1>3, QueueProperties DEF QueuesTyped

\* Controls with fields changed.
LEMMA ControlsMade ==
    ASSUME NEW c \in ControlSet
    PROVE  /\ \A from, to \in 0 .. Len(c.dates) - 1 : from <= to => [c EXCEPT !.from = from, !.to = to] \in ControlSet
           /\ \A b \in BOOLEAN : [c EXCEPT !.stagedOnly = b] \in ControlSet
           /\ \A e \in NoDate .. MaxDate : [c EXCEPT !.expression = e] \in ControlSet
           /\ \A s \in Seq(NoDate .. MaxDate) :
                 [c EXCEPT !.dates = s, !.from = 0, !.to = IF s = <<>> THEN 0 ELSE Len(s) - 1] \in ControlSet
           /\ (~ c.stagedOnly) \in BOOLEAN
<1>1. c \in [dates : Seq(NoDate .. MaxDate), from : Int, to : Int,
             expression : NoDate .. MaxDate, stagedOnly : BOOLEAN]
  BY DEF ControlSet
<1>2. Len(c.dates) \in Nat
  BY <1>1
<1>3. ASSUME NEW from \in 0 .. Len(c.dates) - 1, NEW to \in 0 .. Len(c.dates) - 1, from <= to
      PROVE  [c EXCEPT !.from = from, !.to = to] \in ControlSet
  <2>1. from \in Int /\ to \in Int
    BY <1>2
  <2> QED  BY <1>1, <1>3, <2>1 DEF ControlSet
<1>4. ASSUME NEW b \in BOOLEAN  PROVE [c EXCEPT !.stagedOnly = b] \in ControlSet
  BY <1>1 DEF ControlSet
<1>5. ASSUME NEW e \in NoDate .. MaxDate  PROVE [c EXCEPT !.expression = e] \in ControlSet
  BY <1>1 DEF ControlSet
<1>6. ASSUME NEW s \in Seq(NoDate .. MaxDate)
      PROVE  [c EXCEPT !.dates = s, !.from = 0, !.to = IF s = <<>> THEN 0 ELSE Len(s) - 1] \in ControlSet
  <2> DEFINE to == IF s = <<>> THEN 0 ELSE Len(s) - 1
             d == [c EXCEPT !.dates = s, !.from = 0, !.to = to]
  <2>1. to \in Int /\ (s # <<>> => to \in 0 .. Len(s) - 1 /\ 0 \in 0 .. Len(s) - 1 /\ 0 <= to)
    OBVIOUS
  <2> HIDE DEF to
  <2>2. d \in [dates : Seq(NoDate .. MaxDate), from : Int, to : Int,
               expression : NoDate .. MaxDate, stagedOnly : BOOLEAN]
    <3> DEFINE D == NoDate .. MaxDate
               T == Seq(D)
    <3>1. c \in [dates : T, from : Int, to : Int, expression : D, stagedOnly : BOOLEAN] /\ s \in T
      BY <1>1
    <3> HIDE DEF D, T
    <3>2. d = [dates |-> s, from |-> 0, to |-> to, expression |-> c.expression, stagedOnly |-> c.stagedOnly]
      <4> DEFINE x == c.dates
                 y == c.from
                 z == c.to
                 v == c.expression
                 w == c.stagedOnly
      <4>1. c = [dates |-> x, from |-> y, to |-> z, expression |-> v, stagedOnly |-> w]
        BY <3>1
      <4>2. d = [c EXCEPT !.dates = s, !.from = 0, !.to = to]
        OBVIOUS
      <4> HIDE DEF x, y, z, v, w, d
      <4>3. d = [dates |-> s, from |-> 0, to |-> to, expression |-> v, stagedOnly |-> w]
        BY <4>1, <4>2
      <4> QED  BY <4>3 DEF v, w
    <3>3. to \in Int /\ 0 \in Int /\ c.expression \in D /\ c.stagedOnly \in BOOLEAN
      BY <2>1, <3>1
    <3> HIDE DEF d
    <3>4. d \in [dates : T, from : Int, to : Int, expression : D, stagedOnly : BOOLEAN]
      BY <3>1, <3>2, <3>3
    <3> QED  BY <3>4 DEF D, T, d
  <2>3. d.dates = s /\ d.from = 0 /\ d.to = to
    BY <1>1
  <2> HIDE DEF d
  <2>4. d \in ControlSet
    BY <2>1, <2>2, <2>3 DEF ControlSet
  <2> QED  BY <2>4 DEF d, to
<1>7. (~ c.stagedOnly) \in BOOLEAN
  OBVIOUS
<1> QED  BY <1>3, <1>4, <1>5, <1>6, <1>7

\* The empty model is typed.
LEMMA EmptyModelTyped ==
    /\ IsModel(EmptyModel) /\ EmptyModel.photos = <<>> /\ EmptyModel.photos \in DifferentPhotos
    /\ Range(EmptyModel.photos) = {} /\ DOMAIN EmptyModel.data = {} /\ DOMAIN EmptyModel.rows = {}
<1>1. EmptyModel.photos = <<>> /\ EmptyModel.data = <<>> /\ EmptyModel.rows = <<>> /\ IsModel(EmptyModel)
  BY DEF EmptyModel, IsModel
<1>2. <<>> \in Seq(Photos) /\ IsInjective(<<>>) /\ Range(<<>>) = {} /\ DOMAIN <<>> = {}
  BY DEF IsInjective, Range
<1> QED  BY <1>1, <1>2 DEF DifferentPhotos

\* The model the program starts with, and every state after it, is typed.
LEMMA TypedInit == Init => Typed
<1> SUFFICES ASSUME Init  PROVE Typed
  OBVIOUS
<1>1. CollectionTyped
  <2>1. DOMAIN collection \subseteq Photos /\ collection \in [DOMAIN collection -> Records]
    BY CollectionsAssumption DEF Init
  <2> QED  BY <2>1 DEF CollectionTyped, Stored
<1>2. QueuesTyped
  <2>1. Task("list") \in TaskSet /\ Task("dates") \in TaskSet
    BY TasksMade
  <2>2. <<Task("list"), Task("dates")>> \in Seq(TaskSet)
    <3> DEFINE l == Task("list")
               d == Task("dates")
    <3> HIDE DEF l, d
    <3>1. <<l, d>> \in Seq(TaskSet)
      BY <2>1 DEF l, d
    <3> QED  BY <3>1 DEF l, d
  <2> QED  BY <2>2 DEF Init, QueuesTyped
<1>3. ModelTyped
  BY EmptyModelTyped DEF Init, ModelTyped
<1>4. ControlsTyped
  <2>1. NoDate \in NoDate .. MaxDate /\ MaxDate \in NoDate .. MaxDate
    BY ViewAssumption DEF NoDate
  <2>2. controls \in ControlSet
    BY <2>1 DEF Init, ControlSet
  <2>3. filter \in FilterSet
    BY <2>1 DEF Init, FilterSet, NoFilter
  <2> QED  BY <2>2, <2>3 DEF ControlsTyped
<1>5. LeftTyped
  BY ViewAssumption DEF Init, LeftTyped
<1>6. FlagsTyped
  BY DEF Init, FlagsTyped
<1> QED  BY <1>1, <1>2, <1>3, <1>4, <1>5, <1>6 DEF Typed

\* Every photo the view shows is one of the bound.
LEMMA ShownArePhotos ==
    ASSUME ModelTyped
    PROVE  Shown = Range(model.photos) /\ Shown \subseteq Photos
<1>1. model.photos \in Seq(Photos)
  BY DEF ModelTyped, DifferentPhotos
<1>2. Range(model.photos) \subseteq Photos
  BY <1>1 DEF Range
<1> QED  BY <1>2, ToSetIsRange DEF Shown

\* The model without removed photos.
LEMMA RemovalTyped ==
    ASSUME ModelTyped, NEW ids, model' = RemovePhotos(model, ids)
    PROVE  ModelTyped'
<1> DEFINE k == Keep(model.photos, DOMAIN model.photos \ RowsOfIds(model, ids))
           d == Restrict(model.data, DOMAIN model.data
                                     \ {model.photos[r] : r \in RowsOfIds(model, ids) \cap DOMAIN model.photos})
<1>1. Becomes(model', k, model.rows, d)
  BY RemovePhotosProperties DEF ModelTyped
<1>2. k \in Seq(Photos) /\ IsInjective(k) /\ Range(k) \subseteq Range(model.photos)
  <2> DEFINE s == model.photos
             places == DOMAIN model.photos \ RowsOfIds(model, ids)
  <2>1. s \in Seq(Photos) /\ IsInjective(s)
    BY DEF ModelTyped, DifferentPhotos
  <2> HIDE DEF s, places
  <2>2. /\ Keep(s, places) \in Seq(Photos) /\ IsInjective(Keep(s, places))
        /\ Range(Keep(s, places)) = {s[i] : i \in places \cap DOMAIN s}
    BY <2>1, KeepProperties
  <2>3. Range(Keep(s, places)) \subseteq Range(s)
    BY <2>2 DEF Range
  <2> QED  BY <2>2, <2>3 DEF s, places
<1>3. DOMAIN d \subseteq DOMAIN model.data
  BY DEF Restrict
<1> HIDE DEF k, d
<1>4. IsModel(model') /\ model'.photos = k /\ model'.rows = model.rows /\ model'.data = d
  BY <1>1 DEF Becomes
<1> QED  BY <1>2, <1>3, <1>4 DEF ModelTyped, DifferentPhotos

\* What the user does keeps the state typed.
LEMMA ControlTyped ==
    ASSUME Typed, Control \/ SearchTimeout
    PROVE  Typed'
<1>1. /\ CollectionTyped /\ QueuesTyped /\ ModelTyped /\ controls \in ControlSet /\ filter \in FilterSet
      /\ LeftTyped /\ FlagsTyped
  BY DEF Typed, ControlsTyped
<1>2. CollectionTyped' /\ events' = events /\ crashed' = crashed
  <2>1. dbVars' = dbVars /\ events' = events /\ crashed' = crashed
    BY DEF Control, SearchTimeout
  <2> QED  BY <1>1, <2>1 DEF dbVars, CollectionTyped, Stored
<1>3. LeftTyped'
  <2>1. CASE SearchTimeout
    BY <1>1, <2>1 DEF SearchTimeout, LeftTyped
  <2>2. CASE Control
    BY <1>1, <2>2 DEF Control, LeftTyped
  <2> QED  BY <2>1, <2>2
<1>4. ASSUME controls' \in ControlSet, UpdateModelFilters
      PROVE  filter' \in FilterSet /\ QueuesTyped'
  BY <1>1, <1>2, <1>4, UpdateModelFiltersTyped DEF QueuesTyped
<1>5. ASSUME UNCHANGED <<opened, model>>  PROVE ModelTyped' /\ FlagsTyped'
  BY <1>1, <1>2, <1>5 DEF ModelTyped, FlagsTyped
<1>6. CASE SetTimeView /\ UNCHANGED <<opened, model>>
  <2>1. PICK from, to \in 0 .. Len(controls.dates) - 1 :
           from <= to /\ controls' = [controls EXCEPT !.from = from, !.to = to]
    BY <1>6 DEF SetTimeView
  <2>2. controls' \in ControlSet
    BY <1>1, <2>1, ControlsMade
  <2>3. UpdateModelFilters
    BY <1>6 DEF SetTimeView
  <2>4. UNCHANGED <<opened, model>>
    BY <1>6
  <2> QED  BY <1>2, <1>3, <1>4, <1>5, <2>2, <2>3, <2>4 DEF Typed, ControlsTyped
<1>7. CASE SetNewPhotosOnly /\ UNCHANGED <<opened, model>>
  <2>1. controls' = [controls EXCEPT !.stagedOnly = ~ controls.stagedOnly] /\ UpdateModelFilters
    BY <1>7 DEF SetNewPhotosOnly
  <2>2. controls' \in ControlSet
    BY <1>1, <2>1, ControlsMade
  <2>4. UNCHANGED <<opened, model>>
    BY <1>7
  <2> QED  BY <1>2, <1>3, <1>4, <1>5, <2>1, <2>2, <2>4 DEF Typed, ControlsTyped
<1>8. CASE SetSearchExpression /\ UNCHANGED <<opened, model>>
  <2>1. PICK e \in NoDate .. MaxDate : controls' = [controls EXCEPT !.expression = e]
    BY <1>8 DEF SetSearchExpression
  <2>2. controls' \in ControlSet
    BY <1>1, <2>1, ControlsMade
  <2>3. filter' = filter /\ tasks' = tasks
    BY <1>8 DEF SetSearchExpression
  <2>4. UNCHANGED <<opened, model>>
    BY <1>8
  <2> QED  BY <1>1, <1>2, <1>3, <1>5, <2>2, <2>3, <2>4 DEF Typed, ControlsTyped, QueuesTyped
<1>9. CASE MarkNewAsReviewed /\ UNCHANGED <<opened, model>>
  <2>1. tasks' = Append(tasks, Task("review")) /\ controls' = controls /\ filter' = filter
    BY <1>9 DEF MarkNewAsReviewed, Exec
  <2>2. QueuesTyped'
    <3>1. Task("review") \in TaskSet
      BY TasksMade
    <3> QED  BY <1>1, <1>2, <2>1, <3>1, QueueProperties DEF QueuesTyped
  <2>4. UNCHANGED <<opened, model>>
    BY <1>9
  <2> QED  BY <1>1, <1>2, <1>3, <1>5, <2>1, <2>2, <2>4 DEF Typed, ControlsTyped
<1>10. CASE CloseProject
  <2>1. /\ controls' = controls /\ filter' = filter /\ tasks' = tasks
        /\ model' = EmptyModel /\ opened' = FALSE
    BY <1>10 DEF CloseProject
  <2>2. ModelTyped'
    BY <2>1, EmptyModelTyped DEF ModelTyped
  <2>3. FlagsTyped'
    BY <1>1, <1>2, <2>1 DEF FlagsTyped
  <2> QED  BY <1>1, <1>2, <1>3, <2>1, <2>2, <2>3 DEF Typed, ControlsTyped, QueuesTyped
<1>11. CASE SearchTimeout
  <2>1. controls' = controls /\ UpdateModelFilters /\ UNCHANGED <<opened, model>>
    BY <1>11 DEF SearchTimeout
  <2>2. controls' \in ControlSet
    BY <1>1, <2>1
  <2> QED  BY <1>2, <1>3, <1>4, <1>5, <2>1, <2>2 DEF Typed, ControlsTyped
<1> QED  BY <1>6, <1>7, <1>8, <1>9, <1>10, <1>11 DEF Control

\* What the view and the rest of the program ask for keeps the state typed.
LEMMA RequestTyped ==
    ASSUME Typed, ShowRow \/ Request
    PROVE  Typed'
<1>1. /\ CollectionTyped /\ QueuesTyped /\ ModelTyped /\ controls \in ControlSet /\ filter \in FilterSet
      /\ LeftTyped /\ FlagsTyped
  BY DEF Typed, ControlsTyped
<1>2. Shown = Range(model.photos) /\ Shown \subseteq Photos
  BY <1>1, ShownArePhotos
<1>3. UNCHANGED <<collection, events, controls, filter, opened>>
  BY DEF ShowRow, Request, dbVars, viewVars
<1>4. CollectionTyped' /\ ControlsTyped'
  BY <1>1, <1>3 DEF CollectionTyped, Stored, ControlsTyped
<1>5. LeftTyped'
  <2>1. CASE ShowRow
    BY <1>1, <2>1 DEF ShowRow, LeftTyped
  <2>2. CASE Request
    BY <1>1, <2>2 DEF Request, LeftTyped
  <2> QED  BY <2>1, <2>2
<1>6. CASE ShowRow
  <2>1. PICK p \in ToSet(model.photos) :
           /\ Asks(model, p)
           /\ model' = PhotoData(model, p)
           /\ IF opened THEN Exec([kind |-> "details", photo |-> p]) /\ UNCHANGED crashed
                        ELSE crashed' = TRUE /\ UNCHANGED tasks
    BY <1>6 DEF ShowRow
  <2>2. p \in Photos
    BY <1>2 DEF Shown
  <2>3. QueuesTyped'
    <3>1. [kind |-> "details", photo |-> p] \in TaskSet
      BY <2>2, TasksMade
    <3>2. tasks' = Append(tasks, [kind |-> "details", photo |-> p]) \/ tasks' = tasks
      BY <2>1 DEF Exec
    <3> QED  BY <1>1, <1>3, <3>1, <3>2, QueueProperties DEF QueuesTyped
  <2>4. FlagsTyped'
    BY <1>1, <1>3, <2>1 DEF FlagsTyped
  <2>5. /\ IsModel(model') /\ model'.photos = model.photos /\ model'.rows = model.rows
        /\ DOMAIN model'.data = DOMAIN model.data \cup {p}
    BY <1>1, <2>1, PhotoDataProperties DEF ModelTyped
  <2>6. ModelTyped'
    BY <1>1, <2>2, <2>5 DEF ModelTyped
  <2> QED  BY <1>4, <1>5, <2>3, <2>4, <2>6 DEF Typed
<1>7. CASE Request
  <2>1. PICK r \in Requests : tasks' = Append(tasks, r)
    BY <1>7 DEF Request, Exec
  <2>2. r \in TaskSet
    <3>1. \A d \in 1 .. MaxDate : d \in NoDate .. MaxDate
      BY ViewAssumption DEF NoDate
    <3>2. Task("scan") \in TaskSet
      BY TasksMade
    <3>3. \A p \in Shown : \A d \in 1 .. MaxDate : [kind |-> "edit", photo |-> p, date |-> d] \in TaskSet
      BY <1>2, <3>1, TasksMade
    <3>4. \A p \in Shown : [kind |-> "mark", photo |-> p] \in TaskSet /\ [kind |-> "ungroup", photo |-> p] \in TaskSet
      BY <1>2, TasksMade
    <3>5. \A S \in SUBSET Shown : [kind |-> "group", photos |-> S] \in TaskSet
      BY <1>2, TasksMade
    <3>6. CASE r = Task("scan")
      BY <3>2, <3>6
    <3>7. CASE \E p \in Shown : \E d \in 1 .. MaxDate : r = [kind |-> "edit", photo |-> p, date |-> d]
      BY <3>3, <3>7
    <3>8. CASE \E p \in Shown : r = [kind |-> "mark", photo |-> p] \/ r = [kind |-> "ungroup", photo |-> p]
      BY <3>4, <3>8
    <3>9. CASE \E S \in SUBSET Shown : r = [kind |-> "group", photos |-> S]
      BY <3>5, <3>9
    <3> HIDE DEF Shown
    <3> QED  BY <3>6, <3>7, <3>8, <3>9 DEF Requests
  <2>3. QueuesTyped'
    BY <1>1, <1>3, <2>1, <2>2, QueueProperties DEF QueuesTyped
  <2>4. ModelTyped' /\ FlagsTyped'
    BY <1>1, <1>7 DEF Request, viewVars, ModelTyped, FlagsTyped
  <2> QED  BY <1>4, <1>5, <2>3, <2>4 DEF Typed
<1> QED  BY <1>6, <1>7

\* Events keep the state typed.
LEMMA DeliverTyped ==
    ASSUME Typed, Deliver
    PROVE  Typed'
<1> DEFINE e == Head(events)
<1>1. /\ CollectionTyped /\ QueuesTyped /\ ModelTyped /\ controls \in ControlSet /\ filter \in FilterSet
      /\ LeftTyped /\ FlagsTyped
  BY DEF Typed, ControlsTyped
<1>2. e \in EventSet /\ events' \in Seq(EventSet)
  BY <1>1, QueueProperties DEF Deliver, QueuesTyped
<1>3. CollectionTyped' /\ LeftTyped' /\ opened' = opened
  BY <1>1 DEF Deliver, dbVars, CollectionTyped, Stored, LeftTyped
<1>4. Task("list") \in TaskSet /\ Task("dates") \in TaskSet
  BY TasksMade
<1>5. /\ Append(tasks, Task("dates")) \in Seq(TaskSet)
      /\ tasks \o <<Task("list"), Task("dates")>> \in Seq(TaskSet)
  BY <1>1, <1>4, QueueProperties DEF QueuesTyped
<1>6. ASSUME model' = model  PROVE ModelTyped'
  BY <1>1, <1>6 DEF ModelTyped
<1>7. ASSUME UNCHANGED <<controls, filter>>  PROVE ControlsTyped'
  BY <1>1, <1>7 DEF ControlsTyped
<1>8. ASSUME tasks' \in Seq(TaskSet)  PROVE QueuesTyped'
  BY <1>2, <1>8 DEF QueuesTyped
<1>9. ASSUME crashed' \in BOOLEAN  PROVE FlagsTyped'
  BY <1>1, <1>3, <1>9 DEF FlagsTyped
<1>10. tasks \in Seq(TaskSet) /\ crashed \in BOOLEAN
  BY <1>1 DEF QueuesTyped, FlagsTyped
<1>11. CASE PhotosAdded(e)
  <2>1. crashed' \in BOOLEAN /\ tasks' \in Seq(TaskSet)
    BY <1>5, <1>10, <1>11 DEF PhotosAdded, UpdateTimeRange
  <2>2. UNCHANGED <<model, controls, filter>>
    BY <1>11 DEF PhotosAdded
  <2> QED  BY <1>3, <1>6, <1>7, <1>8, <1>9, <2>1, <2>2 DEF Typed
<1>12. CASE PhotosModified(e)
  <2>1. crashed' \in BOOLEAN /\ tasks' \in Seq(TaskSet) /\ UNCHANGED <<controls, filter>>
        /\ model' = Without(model, e.ids)
    BY <1>5, <1>10, <1>12 DEF PhotosModified, UpdateTimeRange, InvalidatePhotos
  <2>2. Becomes(model', model.photos, model.rows, Restrict(model.data, DOMAIN model.data \ e.ids))
    BY <1>1, <2>1, WithoutProperties DEF ModelTyped
  <2>3. /\ IsModel(model') /\ model'.photos = model.photos /\ model'.rows = model.rows
        /\ DOMAIN model'.data \subseteq DOMAIN model.data
    BY <2>2 DEF Becomes, Restrict
  <2>4. ModelTyped'
    BY <1>1, <2>3 DEF ModelTyped
  <2> QED  BY <1>3, <1>7, <1>8, <1>9, <2>1, <2>4 DEF Typed
<1>13. CASE PhotosRemoved(e)
  <2>1. crashed' \in BOOLEAN /\ tasks' \in Seq(TaskSet) /\ UNCHANGED <<controls, filter>>
        /\ model' = RemovePhotos(model, e.ids)
    BY <1>5, <1>10, <1>13 DEF PhotosRemoved
  <2>2. ModelTyped'
    BY <1>1, <2>1, RemovalTyped
  <2> QED  BY <1>3, <1>7, <1>8, <1>9, <2>1, <2>2 DEF Typed
<1>14. CASE ListCame(e)
  <2>1. UNCHANGED <<controls, filter, tasks, crashed>> /\ e.kind = "list" /\ model' = FetchedPhotos(model, e.photos)
    BY <1>14 DEF ListCame
  <2>2. e.photos \in DifferentPhotos
    BY <1>2, <2>1, EventFields
  <2>3. e.photos \in Seq(Photos) /\ model.photos \in Seq(Photos) /\ IsModel(model)
    BY <1>1, <2>2 DEF DifferentPhotos, ModelTyped
  <2>4. /\ IsModel(model') /\ model'.photos = e.photos /\ DOMAIN model'.rows = Range(e.photos)
        /\ DOMAIN model'.data \subseteq DOMAIN model.data
    BY <2>1, <2>3, FetchedPhotosProperties
  <2>5. ModelTyped'
    BY <1>1, <2>2, <2>4 DEF ModelTyped
  <2> QED  BY <1>3, <1>7, <1>8, <1>9, <1>10, <2>1, <2>5 DEF Typed
<1>15. CASE DetailsCame(e)
  <2>1. UNCHANGED <<controls, filter, tasks, crashed>> /\ e.kind = "details"
        /\ model' = FetchedPhotoProperties(model, e.photo, e.details)
    BY <1>15 DEF DetailsCame
  <2>2. e.photo \in Photos
    BY <1>2, <2>1, EventFields
  <2>3. /\ IsModel(model') /\ model'.photos = model.photos /\ model'.rows = model.rows
        /\ e.photo \notin DOMAIN model.rows => model'.data = model.data
        /\ e.photo \in DOMAIN model.rows => DOMAIN model'.data = DOMAIN model.data \cup {e.photo}
    BY <1>1, <2>1, FetchedPropertiesProperties DEF ModelTyped
  <2>4. ModelTyped'
    BY <1>1, <2>2, <2>3 DEF ModelTyped
  <2> QED  BY <1>3, <1>7, <1>8, <1>9, <1>10, <2>1, <2>4 DEF Typed
<1>16. CASE SetAvailableDates(e)
  <2>1. UNCHANGED <<model, filter, tasks, crashed>> /\ e.kind = "dates"
        /\ controls' = IF e.dates = controls.dates THEN controls
                       ELSE [controls EXCEPT !.dates = e.dates, !.from = 0,
                                             !.to = IF e.dates = <<>> THEN 0 ELSE Len(e.dates) - 1]
    BY <1>16 DEF SetAvailableDates
  <2>2. e.dates \in Seq(NoDate .. MaxDate)
    BY <1>2, <2>1, EventFields
  <2>3. controls' \in ControlSet
    BY <1>1, <2>1, <2>2, ControlsMade
  <2>4. ControlsTyped'
    BY <1>1, <2>1, <2>3 DEF ControlsTyped
  <2> QED  BY <1>3, <1>6, <1>8, <1>9, <1>10, <2>1, <2>4 DEF Typed
<1>17. CASE FiltersCame(e)
  <2>1. UNCHANGED <<model, crashed>> /\ controls' = controls /\ UpdateModelFilters
    BY <1>17 DEF FiltersCame
  <2>2. controls' \in ControlSet
    BY <1>1, <2>1
  <2>3. filter' \in FilterSet /\ tasks' \in Seq(TaskSet)
    BY <1>1, <2>1, <2>2, UpdateModelFiltersTyped
  <2> QED  BY <1>3, <1>6, <1>8, <1>9, <1>10, <2>1, <2>2, <2>3 DEF Typed, ControlsTyped
<1> QED  BY <1>11, <1>12, <1>13, <1>14, <1>15, <1>16, <1>17 DEF Deliver

\* Every step keeps the state typed.
LEMMA TypedStep == Typed /\ [Next]_vars => Typed'
<1> SUFFICES ASSUME Typed, [Next]_vars  PROVE Typed'
  OBVIOUS
<1>1. CASE Perform
  <2>1. CollectionTyped' /\ QueuesTyped'
    BY <1>1, PerformTyped DEF Typed
  <2>2. UNCHANGED <<model, controls, filter, left, opened, crashed>>
    BY <1>1 DEF Perform, viewVars
  <2>3. ModelTyped' /\ ControlsTyped' /\ LeftTyped' /\ FlagsTyped'
    BY <2>2 DEF Typed, ModelTyped, ControlsTyped, LeftTyped, FlagsTyped
  <2> QED  BY <2>1, <2>3 DEF Typed
<1>2. CASE UNCHANGED vars
  BY <1>2 DEF vars, dbVars, viewVars, Typed, CollectionTyped, Stored, QueuesTyped, ModelTyped,
              ControlsTyped, LeftTyped, FlagsTyped
<1> QED  BY <1>1, <1>2, ControlTyped, RequestTyped, DeliverTyped DEF Next

\* The state is always typed.
THEOREM AlwaysTyped == Spec => []Typed
BY TypedInit, TypedStep, PTL DEF Spec

\* PhotosView: the collection, the rows, the data and the filter are of the types
\* the code gives them, and every photo shown has a row in the index.
THEOREM TypeCorrect == Spec => []TypeOK
<1>1. Typed => TypeOK
  <2> SUFFICES ASSUME Typed  PROVE TypeOK
    OBVIOUS
  <2>1. Stored \subseteq Photos /\ \A p \in Stored : collection[p] \in Records
    BY DEF Typed, CollectionTyped
  <2>2. model.photos \in Seq(Photos) /\ IsInjective(model.photos) /\ DOMAIN model.data \subseteq Photos
    BY DEF Typed, ModelTyped, DifferentPhotos
  <2>3. Shown \subseteq DOMAIN model.rows
    BY ToSetIsRange DEF Typed, ModelTyped, Shown
  <2>4. filter.from \in NoDate .. MaxDate /\ filter.to \in NoDate .. MaxDate
    BY DEF Typed, ControlsTyped, FilterSet
  <2>5. \A k \in DOMAIN left : left[k] \in Nat
    BY DEF Typed, LeftTyped
  <2> QED  BY <2>1, <2>2, <2>3, <2>4, <2>5 DEF TypeOK
<1> QED  BY <1>1, AlwaysTyped, PTL

\* allFilters() never takes a date from outside of the list, also when dates went.
THEOREM TimeViewStaysWithinDates == Spec => []TimeViewWithinDates
<1>1. Typed => TimeViewWithinDates
  <2> SUFFICES ASSUME Typed, controls.dates # <<>>
               PROVE  controls.from <= controls.to /\ controls.to < Len(controls.dates)
    BY DEF TimeViewWithinDates
  <2>1. controls.to \in 0 .. Len(controls.dates) - 1 /\ controls.from <= controls.to
        /\ controls.dates \in Seq(NoDate .. MaxDate)
    BY DEF Typed, ControlsTyped, ControlSet
  <2>2. Len(controls.dates) \in Nat
    BY <2>1
  <2> QED  BY <2>1, <2>2
<1> QED  BY <1>1, AlwaysTyped, PTL

\* The asserts of fetchedPhotos(): whatever rows the model has when a list comes,
\* it takes the list over, and its index has each photo of it at its row.
THEOREM ListsAreTakenOver == Spec => []ListIsTakenOver
<1>1. Typed => ListIsTakenOver
  <2> SUFFICES ASSUME Typed, events # <<>>, Head(events).kind = "list"
               PROVE  LET m == FetchedPhotos(model, Head(events).photos)
                      IN  /\ m.photos = Head(events).photos
                          /\ \A p \in DOMAIN m.rows : m.photos[m.rows[p]] = p
                          /\ Cardinality(DOMAIN m.rows) = Len(m.photos)
    BY DEF ListIsTakenOver
  <2> DEFINE given == Head(events).photos
             m == FetchedPhotos(model, given)
  <2>1. Head(events) \in EventSet
    BY QueueProperties DEF Typed, QueuesTyped
  <2>2. given \in Seq(Photos) /\ IsInjective(given)
    BY <2>1, EventFields DEF DifferentPhotos
  <2>3. IsModel(model) /\ model.photos \in Seq(Photos)
    BY DEF Typed, ModelTyped, DifferentPhotos
  <2>4. /\ m.photos = given /\ DOMAIN m.rows = Range(given)
        /\ \A p \in DOMAIN m.rows : m.rows[p] \in DOMAIN given /\ given[m.rows[p]] = p
    BY <2>2, <2>3, FetchedPhotosProperties
  <2>5. Cardinality(Range(given)) = Len(given)
    BY <2>2, CardinalityOfList
  <2> HIDE DEF m, given
  <2>6. m.photos = given /\ (\A p \in DOMAIN m.rows : m.photos[m.rows[p]] = p) /\ Cardinality(DOMAIN m.rows) = Len(m.photos)
    BY <2>4, <2>5
  <2> QED  BY <2>6 DEF m, given
<1> QED  BY <1>1, AlwaysTyped, PTL

-----------------------------------------------------------------------------
(* The first removal *)

\* Until a removal is handled, the index has every photo it knows at its row.
IndexExact ==
    gone = <<>> => \A p \in DOMAIN model.rows :
                      model.rows[p] \in DOMAIN model.photos /\ model.photos[model.rows[p]] = p

HistoryTyped == listed \in Seq(Photos) /\ gone \in Seq(SUBSET Photos)

Exact == HistoryTyped /\ IndexExact /\ FirstRemovalIsExact

\* Without removals the rows are those of the list.
LEMMA NothingRemoved ==
    ASSUME HistoryTyped, gone = <<>>
    PROVE  Keep(listed, {i \in DOMAIN listed : listed[i] \notin Removed}) = listed
<1>1. Removed = {}
  BY DEF Removed, ToSet
<1>2. {i \in DOMAIN listed : listed[i] \notin Removed} = DOMAIN listed
  BY <1>1
<1> QED  BY <1>2, KeepAll DEF HistoryTyped

\* A step that leaves the rows, the index and the history alone, and crashes
\* only when the project is closed.
LEMMA ExactFrame ==
    ASSUME Exact, model'.photos = model.photos, model'.rows = model.rows, UNCHANGED <<listed, gone>>,
           opened' => opened, opened => crashed' = crashed
    PROVE  Exact'
<1>1. HistoryTyped'
  BY DEF Exact, HistoryTyped
<1>2. IndexExact'
  BY DEF Exact, IndexExact
<1>3. Removed' = Removed
  BY DEF Removed
<1>4. FirstRemovalIsExact'
  BY <1>3 DEF Exact, FirstRemovalIsExact, RemovesOnlyTheRemoved
<1> QED  BY <1>1, <1>2, <1>4 DEF Exact

\* The program starts with no rows and no list.
LEMMA ExactInit == Init => Exact
<1> SUFFICES ASSUME Init  PROVE Exact
  OBVIOUS
<1>1. listed = <<>> /\ gone = <<>> /\ model = EmptyModel /\ crashed = FALSE
  BY DEF Init
<1>2. HistoryTyped
  BY <1>1 DEF HistoryTyped
<1>3. IndexExact
  BY <1>1, EmptyModelTyped DEF IndexExact
<1>4. Keep(listed, {i \in DOMAIN listed : listed[i] \notin Removed}) = listed
  BY <1>1, <1>2, NothingRemoved
<1>5. FirstRemovalIsExact
  BY <1>1, <1>4, EmptyModelTyped DEF FirstRemovalIsExact, RemovesOnlyTheRemoved
<1> QED  BY <1>2, <1>3, <1>5 DEF Exact

\* Rows of photos that the exact index knows are the rows where they are.
LEMMA ExactRowsOfIds ==
    ASSUME ModelTyped, IndexExact, gone = <<>>, NEW ids
    PROVE  RowsOfIds(model, ids) = {i \in DOMAIN model.photos : model.photos[i] \in ids}
<1>1. \A p \in DOMAIN model.rows : model.rows[p] \in DOMAIN model.photos /\ model.photos[model.rows[p]] = p
  BY DEF IndexExact
<1>2. ASSUME NEW i \in DOMAIN model.photos  PROVE model.photos[i] \in DOMAIN model.rows /\ model.rows[model.photos[i]] = i
  <2>1. model.photos[i] \in DOMAIN model.rows
    BY DEF ModelTyped, Range
  <2>2. model.rows[model.photos[i]] \in DOMAIN model.photos
        /\ model.photos[model.rows[model.photos[i]]] = model.photos[i]
    BY <1>1, <2>1
  <2> QED  BY <2>1, <2>2 DEF ModelTyped, DifferentPhotos, IsInjective
<1>3. ASSUME NEW r \in RowsOfIds(model, ids)  PROVE r \in DOMAIN model.photos /\ model.photos[r] \in ids
  <2>1. PICK p \in ids \cap DOMAIN model.rows : r = model.rows[p]
    BY DEF RowsOfIds
  <2> QED  BY <1>1, <2>1
<1>4. ASSUME NEW i \in DOMAIN model.photos, model.photos[i] \in ids  PROVE i \in RowsOfIds(model, ids)
  BY <1>2, <1>4 DEF RowsOfIds
<1> QED  BY <1>3, <1>4

\* A removal is handled.
LEMMA RemovalExact ==
    ASSUME Typed, Exact, NEW ids, ids \in SUBSET Photos, ~ crashed,
           crashed' = (~ opened \/ RemovesPastTheEnd(model, ids)),
           model' = RemovePhotos(model, ids), opened' = opened, listed' = listed,
           gone' = IF ids = {} THEN gone ELSE Append(gone, ids)
    PROVE  Exact'
<1> DEFINE rows == RowsOfIds(model, ids)
           k == Keep(model.photos, DOMAIN model.photos \ rows)
<1>1. ModelTyped /\ HistoryTyped /\ IndexExact /\ FirstRemovalIsExact
  BY DEF Typed, Exact
<1>2. model'.photos = k /\ model'.rows = model.rows
  BY <1>1, RemovePhotosProperties DEF ModelTyped, Becomes
<1>3. CASE ids = {}
  <2>1. rows = {}
    BY <1>3 DEF RowsOfIds
  <2>2. k = model.photos
    <3>1. model.photos \in Seq(Photos)
      BY <1>1 DEF ModelTyped, DifferentPhotos
    <3>2. DOMAIN model.photos \ rows = DOMAIN model.photos
      BY <2>1
    <3> QED  BY <3>1, <3>2, KeepAll
  <2>3. opened => crashed' = crashed
    BY <2>1 DEF RemovesPastTheEnd, Typed, FlagsTyped
  <2> QED  BY <1>2, <1>3, <2>2, <2>3, ExactFrame
<1>4. CASE ids # {}
  <2>1. gone' = Append(gone, ids) /\ gone \in Seq(SUBSET Photos)
    BY <1>1, <1>4 DEF HistoryTyped
  <2>2. gone' \in Seq(SUBSET Photos) /\ gone' # <<>> /\ Len(gone') = Len(gone) + 1 /\ Len(gone) \in Nat
    BY <2>1
  <2>3. HistoryTyped'
    BY <1>1, <2>2 DEF HistoryTyped
  <2>4. IndexExact'
    BY <2>2 DEF IndexExact
  <2>5. ASSUME Len(gone') <= 1, opened'
        PROVE  ~ crashed' /\ model'.photos = Keep(listed, {i \in DOMAIN listed : listed[i] \notin Removed'})
    <3>1. gone = <<>> /\ gone' = <<ids>>
      <4>1. Len(gone) = 0
        BY <2>2, <2>5
      <4>2. gone = <<>>
        BY <2>1, <4>1
      <4> QED  BY <2>1, <4>2
    <3>2. Removed' = ids
      <4>1. ToSet(gone') = {ids}
        BY <3>1 DEF ToSet
      <4> QED  BY <4>1 DEF Removed
    <3>3. model.photos = listed
      <4>1. Len(gone) <= 1
        BY <3>1
      <4>2. Keep(listed, {i \in DOMAIN listed : listed[i] \notin Removed}) = listed
        BY <1>1, <3>1, NothingRemoved
      <4> QED  BY <1>1, <2>5, <4>1, <4>2 DEF FirstRemovalIsExact, RemovesOnlyTheRemoved
    <3>4. rows = {i \in DOMAIN listed : listed[i] \in ids}
      BY <1>1, <3>1, <3>3, ExactRowsOfIds
    <3>5. ~ crashed'
      BY <2>5, <3>3, <3>4 DEF RemovesPastTheEnd
    <3>6. DOMAIN listed \ rows = {i \in DOMAIN listed : listed[i] \notin ids}
      BY <3>4
    <3> QED  BY <1>2, <3>2, <3>3, <3>5, <3>6
  <2>6. FirstRemovalIsExact'
    BY <2>5 DEF FirstRemovalIsExact, RemovesOnlyTheRemoved
  <2> QED  BY <2>3, <2>4, <2>6 DEF Exact
<1> QED  BY <1>3, <1>4

\* A list comes.
LEMMA ListExact ==
    ASSUME Typed, Exact, NEW given, given \in Seq(Photos), model' = FetchedPhotos(model, given),
           opened' = opened, crashed' = crashed, ~ crashed, listed' = given, gone' = <<>>
    PROVE  Exact'
<1>1. IsModel(model) /\ model.photos \in Seq(Photos)
  BY DEF Typed, ModelTyped, DifferentPhotos
<1>2. /\ model'.photos = given
      /\ \A p \in DOMAIN model'.rows : model'.rows[p] \in DOMAIN given /\ given[model'.rows[p]] = p
  BY <1>1, FetchedPhotosProperties
<1>3. HistoryTyped'
  BY DEF HistoryTyped
<1>4. IndexExact'
  BY <1>2 DEF IndexExact
<1>5. Removed' = {}
  BY DEF Removed, ToSet
<1>6. Keep(given, {i \in DOMAIN given : given[i] \notin Removed'}) = given
  <2>1. {i \in DOMAIN given : given[i] \notin Removed'} = DOMAIN given
    BY <1>5
  <2> QED  BY <2>1, KeepAll
<1>7. FirstRemovalIsExact'
  BY <1>2, <1>6 DEF FirstRemovalIsExact, RemovesOnlyTheRemoved
<1> QED  BY <1>3, <1>4, <1>7 DEF Exact

\* Every step keeps the rows exact.
LEMMA ExactStep == Typed /\ Exact /\ [Next]_vars => Exact'
<1> SUFFICES ASSUME Typed, Exact, [Next]_vars  PROVE Exact'
  OBVIOUS
<1>1. IsModel(model) /\ QueuesTyped
  BY DEF Typed, ModelTyped
<1>2. CASE UNCHANGED <<opened, model, listed, gone, crashed>>
  BY <1>2, ExactFrame
<1>3. CASE CloseProject /\ crashed' = crashed
  <2>1. listed' = <<>> /\ gone' = <<>> /\ model' = EmptyModel /\ opened' = FALSE
    BY <1>3 DEF CloseProject
  <2>2. HistoryTyped'
    BY <2>1 DEF HistoryTyped
  <2>3. IndexExact'
    BY <2>1, EmptyModelTyped DEF IndexExact
  <2>4. FirstRemovalIsExact'
    BY <2>1 DEF FirstRemovalIsExact, RemovesOnlyTheRemoved
  <2> QED  BY <2>2, <2>3, <2>4 DEF Exact
<1>4. CASE ShowRow
  <2>1. PICK p : /\ Asks(model, p) /\ model' = PhotoData(model, p)
                 /\ opened => crashed' = crashed
    BY <1>4 DEF ShowRow
  <2>2. model'.photos = model.photos /\ model'.rows = model.rows
    BY <1>1, <2>1, PhotoDataProperties
  <2>3. UNCHANGED <<listed, gone, opened>>
    BY <1>4 DEF ShowRow
  <2> QED  BY <2>1, <2>2, <2>3, ExactFrame
<1>5. CASE Deliver
  <2> DEFINE e == Head(events)
  <2>1. e \in EventSet /\ ~ crashed /\ opened' = opened
    BY <1>1, <1>5, QueueProperties DEF Deliver, QueuesTyped, Responsive
  <2>2. CASE PhotosAdded(e)
    <3>1. UNCHANGED <<model, listed, gone>> /\ (opened => crashed' = crashed)
      BY <2>2 DEF PhotosAdded, UpdateTimeRange
    <3> QED  BY <2>1, <3>1, ExactFrame
  <2>3. CASE PhotosModified(e)
    <3>1. /\ UNCHANGED <<listed, gone>> /\ (opened => crashed' = crashed)
          /\ model' = Without(model, e.ids)
      BY <2>3 DEF PhotosModified, UpdateTimeRange, InvalidatePhotos
    <3>2. model'.photos = model.photos /\ model'.rows = model.rows
      BY <1>1, <3>1, WithoutProperties DEF Becomes
    <3> QED  BY <2>1, <3>1, <3>2, ExactFrame
  <2>4. CASE PhotosRemoved(e)
    <3>1. e.ids \in SUBSET Photos
      BY <2>1, <2>4, EventFields DEF PhotosRemoved
    <3> QED  BY <2>1, <2>4, <3>1, RemovalExact DEF PhotosRemoved
  <2>5. CASE ListCame(e)
    <3>1. e.photos \in Seq(Photos)
      BY <2>1, <2>5, EventFields DEF ListCame, DifferentPhotos
    <3> QED  BY <2>1, <2>5, <3>1, ListExact DEF ListCame
  <2>6. CASE DetailsCame(e)
    <3>1. UNCHANGED <<listed, gone, crashed>> /\ model' = FetchedPhotoProperties(model, e.photo, e.details)
      BY <2>6 DEF DetailsCame
    <3>2. model'.photos = model.photos /\ model'.rows = model.rows
      BY <1>1, <3>1, FetchedPropertiesProperties
    <3> QED  BY <2>1, <3>1, <3>2, ExactFrame
  <2>7. CASE SetAvailableDates(e) \/ FiltersCame(e)
    BY <1>2, <2>1, <2>7 DEF SetAvailableDates, FiltersCame
  <2> QED  BY <1>5, <2>2, <2>3, <2>4, <2>5, <2>6, <2>7 DEF Deliver
<1>6. CASE Control
  <2>1. crashed' = crashed
    BY <1>6 DEF Control
  <2>2. CASE UNCHANGED <<opened, model, listed, gone>>
    BY <1>2, <2>1, <2>2
  <2>3. CASE CloseProject
    BY <1>3, <2>1, <2>3
  <2> QED  BY <1>6, <2>2, <2>3 DEF Control
<1>7. CASE Perform \/ SearchTimeout \/ Request \/ UNCHANGED vars
  BY <1>2, <1>7 DEF Perform, SearchTimeout, Request, vars, viewVars
<1> QED  BY <1>4, <1>5, <1>6, <1>7 DEF Next

\* removePhotos() of the model: until a second removal is handled before the next
\* list comes, the rows are those of the last list without the photos removed
\* since, and none is taken from past the end.
THEOREM FirstRemovalAlwaysExact == Spec => []FirstRemovalIsExact
<1>1. Exact => FirstRemovalIsExact
  BY DEF Exact
<1>2. Spec => []Exact
  BY AlwaysTyped, ExactInit, ExactStep, PTL DEF Spec
<1> QED  BY <1>1, <1>2, PTL

-----------------------------------------------------------------------------
(* Queues *)

\* What is in a queue behind its first i elements.
After(q, i) == {q[j] : j \in {k \in DOMAIN q : k > i}}

\* The head of a queue and what is behind it.
LEMMA QueueParts ==
    ASSUME NEW T, NEW q \in Seq(T)
    PROVE  /\ After(q, 0) = Range(q)
           /\ q # <<>> => /\ Range(q) = {Head(q)} \cup After(q, 1)
                          /\ Range(Tail(q)) = After(q, 1)
                          /\ \A i \in Nat : After(Tail(q), i) = After(q, i + 1)
<1>1. Len(q) \in Nat /\ DOMAIN q = 1 .. Len(q)
  OBVIOUS
<1>2. After(q, 0) = Range(q)
  BY <1>1 DEF After, Range
<1>3. ASSUME q # <<>>
      PROVE  /\ Range(q) = {Head(q)} \cup After(q, 1)
             /\ \A i \in Nat : After(Tail(q), i) = After(q, i + 1)
  <2>1. /\ Len(q) # 0 /\ Head(q) = q[1] /\ DOMAIN Tail(q) = 1 .. Len(q) - 1
        /\ \A i \in 1 .. Len(q) - 1 : Tail(q)[i] = q[i + 1]
    BY <1>3
  <2>2. Range(q) = {Head(q)} \cup After(q, 1)
    BY <1>1, <2>1 DEF Range, After
  <2>3. ASSUME NEW i \in Nat  PROVE After(Tail(q), i) = After(q, i + 1)
    <3>1. ASSUME NEW x \in After(Tail(q), i)  PROVE x \in After(q, i + 1)
      <4>1. PICK j \in 1 .. Len(q) - 1 : j > i /\ x = q[j + 1]
        BY <2>1 DEF After
      <4>2. j + 1 \in DOMAIN q /\ j + 1 > i + 1
        BY <1>1, <4>1
      <4> QED  BY <4>1, <4>2 DEF After
    <3>2. ASSUME NEW x \in After(q, i + 1)  PROVE x \in After(Tail(q), i)
      <4>1. PICK j \in 1 .. Len(q) : j > i + 1 /\ x = q[j]
        BY <1>1 DEF After
      <4>2. j - 1 \in DOMAIN Tail(q) /\ j - 1 > i /\ Tail(q)[j - 1] = q[j]
        BY <1>1, <2>1, <4>1
      <4> QED  BY <4>1, <4>2 DEF After
    <3> QED  BY <3>1, <3>2
  <2> QED  BY <2>2, <2>3
<1>4. ASSUME q # <<>>  PROVE Range(Tail(q)) = After(q, 1)
  <2>1. Tail(q) \in Seq(T)
    BY <1>4
  <2>2. DOMAIN Tail(q) = 1 .. Len(Tail(q)) /\ Len(Tail(q)) \in Nat
    BY <2>1
  <2>3. After(Tail(q), 0) = Range(Tail(q))
    BY <2>2 DEF After, Range
  <2>4. After(Tail(q), 0) = After(q, 0 + 1)
    BY <1>3, <1>4
  <2> QED  BY <2>3, <2>4
<1> QED  BY <1>2, <1>3, <1>4

\* A queue that something is put at the end of.
LEMMA QueueGrows ==
    ASSUME NEW T, NEW q \in Seq(T), NEW xs \in Seq(T)
    PROVE  /\ q \o xs \in Seq(T)
           /\ Range(q \o xs) = Range(q) \cup Range(xs)
           /\ \A i \in 0 .. Len(q) : After(q \o xs, i) = After(q, i) \cup Range(xs)
           /\ After(q \o xs, 1) \subseteq After(q, 1) \cup Range(xs)
           /\ \A i \in DOMAIN (q \o xs) :
                 \/ i \in DOMAIN q /\ i \in 0 .. Len(q) /\ (q \o xs)[i] = q[i]
                 \/ (q \o xs)[i] \in Range(xs)
<1> DEFINE r == q \o xs
           n == Len(q)
           m == Len(xs)
<1>1. /\ n \in Nat /\ DOMAIN q = 1 .. n /\ m \in Nat /\ DOMAIN xs = 1 .. m
      /\ r \in Seq(T) /\ DOMAIN r = 1 .. n + m
      /\ \A i \in 1 .. n + m : r[i] = IF i <= n THEN q[i] ELSE xs[i - n]
  OBVIOUS
<1> HIDE DEF r, n, m
<1>2. \A i \in 1 .. n : i \in DOMAIN r /\ r[i] = q[i]
  BY <1>1
<1>3. \A i \in 1 .. m : n + i \in DOMAIN r /\ r[n + i] = xs[i]
  BY <1>1
<1>4. \A i \in DOMAIN r : \/ i \in 1 .. n /\ r[i] = q[i]
                          \/ i > n /\ \E j \in 1 .. m : r[i] = xs[j]
  <2> TAKE i \in DOMAIN r
  <2>1. CASE i <= n
    BY <1>1, <2>1
  <2>2. CASE i > n
    <3>1. i - n \in 1 .. m /\ r[i] = xs[i - n]
      BY <1>1, <2>2
    <3> QED  BY <2>2, <3>1
  <2> QED  BY <1>1, <2>1, <2>2
<1>5. Range(r) = Range(q) \cup Range(xs)
  <2>1. ASSUME NEW x \in Range(r)  PROVE x \in Range(q) \cup Range(xs)
    BY <1>1, <1>4 DEF Range
  <2>2. ASSUME NEW x \in Range(q)  PROVE x \in Range(r)
    BY <1>1, <1>2 DEF Range
  <2>3. ASSUME NEW x \in Range(xs)  PROVE x \in Range(r)
    <3>1. PICK j \in 1 .. m : x = xs[j]
      BY <1>1 DEF Range
    <3> QED  BY <1>3, <3>1 DEF Range
  <2> QED  BY <2>1, <2>2, <2>3
<1>6. ASSUME NEW i \in Nat, NEW x \in After(r, i)  PROVE x \in After(q, i) \cup Range(xs)
  <2>1. PICK k \in DOMAIN r : k > i /\ x = r[k]
    BY DEF After
  <2>2. CASE k \in 1 .. n /\ r[k] = q[k]
    BY <1>1, <2>1, <2>2 DEF After
  <2>3. CASE \E j \in 1 .. m : r[k] = xs[j]
    BY <1>1, <2>1, <2>3 DEF Range
  <2> QED  BY <1>4, <2>2, <2>3
<1>7. ASSUME NEW i \in 0 .. n, NEW x \in After(q, i) \cup Range(xs)  PROVE x \in After(r, i)
  <2>1. CASE x \in After(q, i)
    <3>1. PICK k \in 1 .. n : k > i /\ x = q[k]
      BY <1>1, <2>1 DEF After
    <3> QED  BY <1>2, <3>1 DEF After
  <2>2. CASE x \in Range(xs)
    <3>1. PICK j \in 1 .. m : x = xs[j]
      BY <1>1, <2>2 DEF Range
    <3>2. n + j > i
      BY <1>1
    <3> QED  BY <1>3, <3>1, <3>2 DEF After
  <2> QED  BY <2>1, <2>2
<1>8. \A i \in 0 .. n : After(r, i) = After(q, i) \cup Range(xs)
  BY <1>1, <1>6, <1>7
<1>9. \A i \in DOMAIN r : \/ i \in DOMAIN q /\ i \in 0 .. n /\ r[i] = q[i]
                          \/ r[i] \in Range(xs)
  <2> TAKE i \in DOMAIN r
  <2>1. CASE i \in 1 .. n /\ r[i] = q[i]
    BY <1>1, <2>1
  <2>2. CASE \E j \in 1 .. m : r[i] = xs[j]
    BY <1>1, <2>2 DEF Range
  <2> QED  BY <1>4, <2>1, <2>2
<1>10. After(r, 1) \subseteq After(q, 1) \cup Range(xs)
  BY <1>6
<1> QED  BY <1>1, <1>5, <1>8, <1>9, <1>10 DEF r, n

\* A queue whose head is replaced.
LEMMA QueueHeadReplaced ==
    ASSUME NEW T, NEW q \in Seq(T), q # <<>>, NEW y \in T
    PROVE  /\ <<y>> \o Tail(q) \in Seq(T)
           /\ After(<<y>> \o Tail(q), 1) = After(q, 1)
           /\ Range(<<y>> \o Tail(q)) = {y} \cup After(q, 1)
<1> DEFINE t == Tail(q)
           h == <<y>>
<1>1. t \in Seq(T) /\ h \in Seq(T) /\ Len(h) = 1 /\ DOMAIN h = 1 .. 1 /\ h[1] = y
  OBVIOUS
<1>2. Range(t) = After(q, 1)
  BY QueueParts
<1> HIDE DEF t, h
<1>3. Range(h) = {y} /\ After(h, 1) = {}
  BY <1>1 DEF Range, After
<1>4. 1 \in 0 .. Len(h)
  BY <1>1
<1>5. h \o t \in Seq(T) /\ Range(h \o t) = {y} \cup Range(t) /\ After(h \o t, 1) = Range(t)
  <2>1. h \o t \in Seq(T) /\ Range(h \o t) = Range(h) \cup Range(t)
    BY <1>1, QueueGrows
  <2> DEFINE Grown(i) == After(h \o t, i) = After(h, i) \cup Range(t)
  <2> HIDE DEF Grown
  <2>2. \A i \in 0 .. Len(h) : Grown(i)
    <3>1. h \in Seq(T) /\ t \in Seq(T)
      BY <1>1
    <3> QED  BY <3>1, QueueGrows DEF Grown
  <2>3. After(h \o t, 1) = After(h, 1) \cup Range(t)
    BY <1>4, <2>2 DEF Grown
  <2> QED  BY <1>3, <2>1, <2>3
<1> QED  BY <1>2, <1>5 DEF t, h

\* Queues of no element, of one and of two.
LEMMA ShortQueues ==
    /\ Range(<<>>) = {}
    /\ \A x : Range(<<x>>) = {x}
    /\ \A x, y : Range(<<x, y>>) = {x, y}
<1>1. Range(<<>>) = {}
  BY DEF Range
<1>2. ASSUME NEW x  PROVE Range(<<x>>) = {x}
  <2>1. DOMAIN <<x>> = {1} /\ <<x>>[1] = x
    OBVIOUS
  <2> QED  BY <2>1 DEF Range
<1>3. ASSUME NEW x, NEW y  PROVE Range(<<x, y>>) = {x, y}
  <2>1. DOMAIN <<x, y>> = {1, 2} /\ <<x, y>>[1] = x /\ <<x, y>>[2] = y
    OBVIOUS
  <2> QED  BY <2>1 DEF Range
<1> QED  BY <1>1, <1>2, <1>3

\* The highest of some photos.
LEMMA NextIdIsNew ==
    ASSUME CollectionTyped, NextId \in Photos
    PROVE  NextId \notin Stored
<1>1. CASE Stored = {}
  BY <1>1
<1>2. CASE Stored # {}
  <2> DEFINE D == {MaxPhoto - p : p \in Stored}
  <2>1. MaxPhoto \in Nat /\ \A p \in Stored : p \in 1 .. MaxPhoto
    BY ViewAssumption DEF CollectionTyped, Photos
  <2>2. D \subseteq Nat /\ D # {}
    BY <1>2, <2>1
  <2>3. PICK m \in D : \A n \in D : m <= n
    BY <2>2, LeastNumber
  <2>4. PICK p \in Stored : m = MaxPhoto - p
    BY <2>3
  <2>5. \A q \in Stored : q <= p
    <3> TAKE q \in Stored
    <3>1. MaxPhoto - q \in D
      OBVIOUS
    <3>2. MaxPhoto - p <= MaxPhoto - q
      BY <2>3, <2>4, <3>1
    <3> QED  BY <2>1, <3>2
  <2> DEFINE h == CHOOSE r \in Stored : \A q \in Stored : q <= r
  <2>6. h \in Stored /\ \A q \in Stored : q <= h
    BY <2>5
  <2>7. NextId = 1 + h
    BY <1>2 DEF NextId
  <2> HIDE DEF h
  <2>8. h \in Int /\ ~ (1 + h <= h)
    BY <2>1, <2>6
  <2> QED  BY <2>6, <2>7, <2>8
<1> QED  BY <1>1, <1>2

-----------------------------------------------------------------------------
(* What a task of the database's thread sends and changes *)

\* Events the handlers of the view tell apart, and who answers a delegate.
Mentions(e, p) == e.kind = "modified" /\ p \in e.ids
Drops(e, p) == e.kind = "removed" /\ p \in e.ids
Answers(c, p) == c.kind = "details" /\ c.photo = p

\* Photos the view ought to show.
Belongs(p) == p \in Stored /\ Matches(collection[p], filter)

\* The event after which the model asks for its list again.
AsksAgain(e) == e.kind \in {"added", "filters"}

\* The steps of a group that follow one another on the database's thread: nothing
\* comes between them.
Steps == {"create", "join", "remove"}

\* A step of a group that is left in the hand of the thread.
GoesOn(t, es) ==
    /\ t.kind \in Steps
    /\ t.kind = "remove" => t.ids \subseteq Stored'
    /\ t.kind # "remove" => Head(tasks).kind = "create" \/ \E e \in Range(es) : e.kind = "added"

\* What the task in hand does to the queues: es are the events it sends.
QueuesServed(es) ==
    /\ es \in Seq(EventSet) /\ events' = events \o es
    /\ After(tasks', 1) \subseteq After(tasks, 1)
    /\ After(tasks, 1) \subseteq Range(tasks')
    /\ \A t \in Range(tasks') : t \in After(tasks, 1) \/ GoesOn(t, es)

NamesKept == buried \subseteq buried' /\ Stored \subseteq Stored' \cup buried'

\* Details that change are signalled.
DetailsKept(es) ==
    \A p \in Stored \cap Stored' : Details(p)' = Details(p) \/ \E e \in Range(es) : Mentions(e, p)

\* Details are sent to who asked for them, as they are.
DetailsServed(es) ==
    /\ \A e \in Range(es) : e.kind = "details" =>
          /\ Answers(Head(tasks), e.photo)
          /\ e.details = Details(e.photo)'
    /\ Head(tasks).kind = "details" => \E e \in Range(es) : Answers(e, Head(tasks).photo)

\* A list is the one of the filter, and only a task that is to list makes it.
ListServed(es) ==
    /\ \A e \in Range(es) : e.kind = "list" => Head(tasks).kind = "list"
    /\ Head(tasks).kind = "list" =>
          /\ touched' = {} /\ collection' = collection /\ buried' = buried
          /\ es = <<[kind |-> "list", photos |-> OnPhotos(filter)]>>

\* What belongs into the view changes only for touched photos, for those whose
\* removal is signalled, and when an event or the list to come tells.
MatchesKept(es) ==
    /\ touched \subseteq touched'
    /\ \A p \in Photos \ touched' :
          Belongs(p)' <=> Belongs(p) /\ ~ \E e \in Range(es) : Drops(e, p)

MatchesServed(es) ==
    \/ Head(tasks).kind \in {"list", "join"}
    \/ \E e \in Range(es) : AsksAgain(e)
    \/ MatchesKept(es)

Served(es) ==
    /\ QueuesServed(es) /\ NamesKept /\ DetailsKept(es)
    /\ DetailsServed(es) /\ ListServed(es) /\ MatchesServed(es)

\* A task that ends.
LEMMA EndServed ==
    ASSUME QueuesTyped, tasks # <<>>, tasks' = Tail(tasks),
           NEW es \in Seq(EventSet), events' = events \o es
    PROVE  QueuesServed(es)
<1>1. tasks \in Seq(TaskSet) /\ Tail(tasks) \in Seq(TaskSet)
  BY DEF QueuesTyped
<1>2. Range(tasks') = After(tasks, 1)
  BY <1>1, QueueParts
<1>3. After(tasks', 1) \subseteq After(tasks, 1)
  BY <1>2 DEF After, Range
<1> QED  BY <1>2, <1>3 DEF QueuesServed

\* A task that goes on as another one.
LEMMA StepServed ==
    ASSUME QueuesTyped, tasks # <<>>, NEW y \in TaskSet, tasks' = <<y>> \o Tail(tasks),
           NEW es \in Seq(EventSet), events' = events \o es, GoesOn(y, es)
    PROVE  QueuesServed(es)
<1>1. tasks \in Seq(TaskSet)
  BY DEF QueuesTyped
<1>2. After(tasks', 1) = After(tasks, 1) /\ Range(tasks') = {y} \cup After(tasks, 1)
  BY <1>1, QueueHeadReplaced
<1> QED  BY <1>2 DEF QueuesServed

\* A photo whose record is the same has the same details and matches the same.
LEMMA SamePhoto ==
    ASSUME NEW p, p \in Stored <=> p \in Stored', p \in Stored => collection'[p] = collection[p],
           filter' = filter
    PROVE  Details(p)' = Details(p) /\ (Belongs(p)' <=> Belongs(p))
BY DEF Details, Belongs, Matches

\* Records of some photos change.
LEMMA RecordsChange ==
    ASSUME NEW ids, NEW es, filter' = filter, buried' = buried, Stored' = Stored,
           \A p \in Stored \ ids : collection'[p] = collection[p]
    PROVE  /\ NamesKept
           /\ (\A p \in ids \cap Stored : Details(p)' = Details(p) \/ \E e \in Range(es) : Mentions(e, p))
              => DetailsKept(es)
           /\ touched' = touched \cup (ids \cap Stored) /\ (\A e \in Range(es) : e.kind # "removed")
              => MatchesKept(es)
<1>1. NamesKept
  BY DEF NamesKept
<1>2. \A p \in Stored \ ids : Details(p)' = Details(p)
  BY SamePhoto
<1>3. \A p : p \notin ids \cap Stored => (Belongs(p)' <=> Belongs(p))
  BY SamePhoto
<1>4. ASSUME \A p \in ids \cap Stored : Details(p)' = Details(p) \/ \E e \in Range(es) : Mentions(e, p)
      PROVE  DetailsKept(es)
  BY <1>2, <1>4 DEF DetailsKept
<1>5. ASSUME touched' = touched \cup (ids \cap Stored), \A e \in Range(es) : e.kind # "removed"
      PROVE  MatchesKept(es)
  <2>1. \A p : ~ \E e \in Range(es) : Drops(e, p)
    BY <1>5 DEF Drops
  <2> QED  BY <1>3, <1>5, <2>1 DEF MatchesKept
<1> QED  BY <1>1, <1>4, <1>5

\* Nothing of the collection changes.
LEMMA CollectionSame ==
    ASSUME NEW es, UNCHANGED <<collection, buried, touched, filter>>,
           \A e \in Range(es) : e.kind # "removed"
    PROVE  NamesKept /\ DetailsKept(es) /\ MatchesKept(es)
<1> DEFINE ids == {}
<1>1. Stored' = Stored
  BY DEF Stored
<1>2. \A p \in Stored \ ids : collection'[p] = collection[p]
  OBVIOUS
<1>3. touched' = touched \cup (ids \cap Stored)
  OBVIOUS
<1>4. \A p \in ids \cap Stored : Details(p)' = Details(p) \/ \E e \in Range(es) : Mentions(e, p)
  OBVIOUS
<1> HIDE DEF ids
<1> QED  BY <1>1, <1>2, <1>3, <1>4, RecordsChange

\* A photo is added.
LEMMA AddServed ==
    ASSUME CollectionTyped, NEW r, Add(r), filter' = filter, NEW es
    PROVE  NamesKept /\ DetailsKept(es) /\ Stored' = Stored \cup {NextId} /\ NextId \notin Stored
<1> DEFINE n == NextId
           c == [p \in Stored \cup {n} |-> IF p = n THEN r ELSE collection[p]]
<1>1. n \in Photos /\ collection' = c /\ buried' = buried
  BY DEF Add
<1>2. n \notin Stored
  BY <1>1, NextIdIsNew
<1> HIDE DEF n
<1>3. DOMAIN c = Stored \cup {n} /\ \A p \in Stored : c[p] = collection[p]
  BY <1>2
<1> HIDE DEF c
<1>4. Stored' = Stored \cup {n}
  BY <1>1, <1>3 DEF Stored
<1>5. NamesKept
  BY <1>1, <1>4 DEF NamesKept
<1>6. \A p \in Stored : Details(p)' = Details(p)
  BY <1>1, <1>3, <1>4, SamePhoto
<1>7. DetailsKept(es)
  BY <1>6 DEF DetailsKept
<1> QED  BY <1>2, <1>4, <1>5, <1>7 DEF n

\* A task that leaves the collection alone, ends and sends one event.
LEMMA ReadServed ==
    ASSUME QueuesTyped, tasks # <<>>, tasks' = Tail(tasks),
           UNCHANGED <<collection, buried, touched, filter>>,
           NEW e \in EventSet, events' = events \o <<e>>,
           e.kind \in {"details", "dates"}, e.kind = Head(tasks).kind,
           e.kind = "details" => e.photo = Head(tasks).photo /\ e.details = Details(e.photo)'
    PROVE  \E es : Served(es)
<1> DEFINE es == <<e>>
<1>1. es \in Seq(EventSet) /\ Range(es) = {e} /\ events' = events \o es
  BY ShortQueues
<1> HIDE DEF es
<1>2. QueuesServed(es)
  BY <1>1, EndServed
<1>3. NamesKept /\ DetailsKept(es) /\ MatchesKept(es)
  <2>1. \A x \in Range(es) : x.kind # "removed"
    BY <1>1
  <2> QED  BY <2>1, CollectionSame
<1>4. DetailsServed(es)
  BY <1>1 DEF DetailsServed, Answers
<1>5. ListServed(es)
  BY <1>1 DEF ListServed
<1> QED  BY <1>2, <1>3, <1>4, <1>5 DEF Served, MatchesServed

\* fetchMatchingPhotos()
LEMMA ListTaskServed ==
    ASSUME CollectionTyped, QueuesTyped, tasks # <<>>, FetchMatchingPhotos, filter' = filter
    PROVE  \E es : Served(es)
<1> DEFINE e == [kind |-> "list", photos |-> OnPhotos(filter)]
           es == <<e>>
<1>1. /\ Head(tasks).kind = "list" /\ tasks' = Tail(tasks) /\ events' = events \o es
      /\ touched' = {} /\ UNCHANGED <<collection, buried>>
  BY DEF FetchMatchingPhotos, Ends, Sends
<1>2. e \in EventSet /\ e.kind = "list"
  BY OnPhotosProperties, EventsMade
<1>3. es = <<[kind |-> "list", photos |-> OnPhotos(filter)]>>
  OBVIOUS
<1> HIDE DEF e
<1>4. es \in Seq(EventSet) /\ Range(es) = {e}
  BY <1>2, ShortQueues
<1> HIDE DEF es
<1>5. QueuesServed(es)
  BY <1>1, <1>4, EndServed
<1>6. NamesKept /\ DetailsKept(es)
  <2>1. Stored' = Stored /\ \A p : collection'[p] = collection[p]
    BY <1>1 DEF Stored
  <2>2. \A p : Details(p)' = Details(p)
    BY <2>1 DEF Details
  <2> QED  BY <1>1, <2>1, <2>2 DEF NamesKept, DetailsKept
<1>7. DetailsServed(es)
  BY <1>1, <1>2, <1>4 DEF DetailsServed
<1>8. ListServed(es)
  BY <1>1, <1>3 DEF ListServed
<1> QED  BY <1>1, <1>5, <1>6, <1>7, <1>8 DEF Served, MatchesServed

\* A task that ends, or goes on as another, and sends no list and no details.
LEMMA WriteServed ==
    ASSUME NEW es, QueuesServed(es), NamesKept, DetailsKept(es),
           Head(tasks).kind \notin {"list", "details"},
           \A e \in Range(es) : e.kind \notin {"list", "details"},
           MatchesServed(es)
    PROVE  \E x : Served(x)
<1>1. DetailsServed(es) /\ ListServed(es)
  BY DEF DetailsServed, ListServed
<1> QED  BY <1>1 DEF Served

\* Tasks that change records: the review, the edit of a date, the general flag.
LEMMA EditsServed ==
    ASSUME CollectionTyped, QueuesTyped, tasks # <<>>, filter' = filter,
           MarkPhotosAsReviewed \/ Edit \/ MarkBroken
    PROVE  \E es : Served(es)
<1> DEFINE t == Head(tasks)
<1>1. t \in TaskSet
  BY QueueProperties DEF QueuesTyped
<1>2. CASE MarkPhotosAsReviewed
  <2> DEFINE e == [kind |-> "filters"]
             es == <<e>>
             c == [p \in Stored |-> IF p \in Stored THEN [collection[p] EXCEPT !.staged = FALSE]
                                    ELSE collection[p]]
  <2>1. /\ t.kind = "review" /\ tasks' = Tail(tasks) /\ events' = events \o es
        /\ collection' = c /\ UNCHANGED <<touched, buried>>
    BY <1>2 DEF MarkPhotosAsReviewed, Ends, Sends, Changed
  <2>2. e \in EventSet /\ e.kind = "filters"
    BY EventsMade
  <2> HIDE DEF e
  <2>3. es \in Seq(EventSet) /\ Range(es) = {e}
    BY <2>2, ShortQueues
  <2> HIDE DEF es
  <2>4. DOMAIN c = Stored /\ \A p \in Stored : c[p].date = collection[p].date /\ c[p].group = collection[p].group
    <3>1. \A p \in Stored : collection[p] \in Records
      BY DEF CollectionTyped
    <3> QED  BY <3>1 DEF Records
  <2> HIDE DEF c
  <2>5. Stored' = Stored
    BY <2>1, <2>4 DEF Stored
  <2>6. \A p \in Stored : Details(p)' = Details(p)
    BY <2>1, <2>4, <2>5 DEF Details
  <2>7. NamesKept /\ DetailsKept(es)
    BY <2>1, <2>5, <2>6 DEF NamesKept, DetailsKept
  <2>8. MatchesServed(es)
    BY <2>2, <2>3 DEF MatchesServed, AsksAgain
  <2>9. QueuesServed(es)
    BY <2>1, <2>3, EndServed
  <2> QED  BY <2>1, <2>2, <2>3, <2>7, <2>8, <2>9, WriteServed
<1>3. CASE Edit /\ t.photo \in Stored
  <2> DEFINE p == t.photo
             e == Signal("modified", {p})
             es == <<e>>
             ids == {p}
             c == [q \in Stored |-> IF q \in {p} THEN [collection[q] EXCEPT !.date = t.date]
                                    ELSE collection[q]]
  <2>1. /\ t.kind = "edit" /\ tasks' = Tail(tasks) /\ events' = events \o es
        /\ collection' = c /\ touched' = touched \cup {p} /\ buried' = buried
    BY <1>3 DEF Edit, Ends, Sends, Changed
  <2>2. p \in Photos
    BY <1>3 DEF CollectionTyped
  <2>3. e \in EventSet /\ e.kind = "modified" /\ e.ids = {p}
    <3>1. {p} \in SUBSET Photos
      BY <2>2
    <3> QED  BY <3>1, EventsMade DEF Signal
  <2> HIDE DEF e
  <2>4. es \in Seq(EventSet) /\ Range(es) = {e}
    BY <2>3, ShortQueues
  <2> HIDE DEF es
  <2>5. DOMAIN c = Stored /\ \A q \in Stored \ ids : c[q] = collection[q]
    OBVIOUS
  <2> HIDE DEF c
  <2>6. Stored' = Stored /\ \A q \in Stored \ ids : collection'[q] = collection[q]
    BY <2>1, <2>5 DEF Stored
  <2>7. \A q \in ids \cap Stored : \E x \in Range(es) : Mentions(x, q)
    BY <2>3, <2>4 DEF Mentions
  <2>8. touched' = touched \cup (ids \cap Stored)
    BY <1>3, <2>1
  <2>9. \A x \in Range(es) : x.kind # "removed"
    BY <2>3, <2>4
  <2> HIDE DEF ids
  <2>10. NamesKept /\ DetailsKept(es) /\ MatchesKept(es)
    BY <2>1, <2>6, <2>7, <2>8, <2>9, RecordsChange
  <2>11. QueuesServed(es)
    BY <2>1, <2>4, EndServed
  <2> QED  BY <2>1, <2>3, <2>4, <2>10, <2>11, WriteServed DEF MatchesServed
<1>4. CASE Edit /\ t.photo \notin Stored
  <2> DEFINE es == <<>>
  <2>1. /\ t.kind = "edit" /\ tasks' = Tail(tasks) /\ events' = events
        /\ UNCHANGED <<collection, touched, buried>>
    BY <1>4 DEF Edit, Ends
  <2>2. es \in Seq(EventSet) /\ Range(es) = {} /\ events' = events \o es
    BY <2>1, ShortQueues, QueueProperties DEF QueuesTyped
  <2> HIDE DEF es
  <2>3. NamesKept /\ DetailsKept(es) /\ MatchesKept(es)
    BY <2>1, <2>2, CollectionSame
  <2>4. QueuesServed(es)
    BY <2>1, <2>2, EndServed
  <2> QED  BY <2>1, <2>2, <2>3, <2>4, WriteServed DEF MatchesServed
<1>5. CASE MarkBroken
  <2> DEFINE p == t.photo
             es == <<>>
             c == [q \in Stored |-> IF q \in {p} THEN [collection[q] EXCEPT !.broken = TRUE]
                                    ELSE collection[q]]
  <2>1. /\ t.kind = "mark" /\ tasks' = Tail(tasks) /\ events' = events
        /\ collection' = c /\ touched' = touched \cup {p} /\ buried' = buried
    BY <1>5 DEF MarkBroken, Ends, Changed
  <2>2. es \in Seq(EventSet) /\ Range(es) = {} /\ events' = events \o es
    BY <2>1, ShortQueues, QueueProperties DEF QueuesTyped
  <2> HIDE DEF es
  <2>3. /\ DOMAIN c = Stored /\ \A q \in Stored \ {p} : c[q] = collection[q]
        /\ \A q \in Stored : c[q].date = collection[q].date /\ c[q].group = collection[q].group
    <3>1. \A q \in Stored : collection[q] \in Records
      BY DEF CollectionTyped
    <3> QED  BY <3>1 DEF Records
  <2> HIDE DEF c, p
  <2>4. Stored' = Stored /\ \A q \in Stored \ {p} : collection'[q] = collection[q]
    BY <2>1, <2>3 DEF Stored
  <2>5. \A q \in Stored : Details(q)' = Details(q)
    BY <2>1, <2>3, <2>4 DEF Details
  <2>6. \A q \in Photos \ touched' : Belongs(q)' <=> Belongs(q)
    <3>1. \A q : q # p => (Belongs(q)' <=> Belongs(q))
      BY <2>4, SamePhoto
    <3> QED  BY <2>1, <3>1
  <2>7. NamesKept /\ DetailsKept(es)
    BY <2>1, <2>4, <2>5 DEF NamesKept, DetailsKept
  <2>8. MatchesKept(es)
    BY <2>1, <2>2, <2>6 DEF MatchesKept
  <2>9. QueuesServed(es)
    BY <2>1, <2>2, EndServed
  <2> QED  BY <2>1, <2>2, <2>7, <2>8, <2>9, WriteServed DEF MatchesServed
<1> QED  BY <1>2, <1>3, <1>4, <1>5

\* Tasks that add a photo: the scan and the first step of a group.
LEMMA AddingServed ==
    ASSUME CollectionTyped, QueuesTyped, tasks # <<>>, filter' = filter, Scan \/ GroupRepresentative
    PROVE  \E es : Served(es)
<1> DEFINE t == Head(tasks)
           e == Signal("added", {NextId})
           es == <<e>>
<1>1. PICK r : Add(r)
  BY DEF Scan, GroupRepresentative
<1>2. NextId \in Photos /\ events' = events \o es
  BY <1>1 DEF Add, Sends
<1>3. e \in EventSet /\ e.kind = "added"
  <2>1. {NextId} \in SUBSET Photos
    BY <1>2
  <2> QED  BY <2>1, EventsMade DEF Signal
<1> HIDE DEF e
<1>4. es \in Seq(EventSet) /\ Range(es) = {e}
  BY <1>3, ShortQueues
<1> HIDE DEF es
<1>5. NamesKept /\ DetailsKept(es)
  BY <1>1, AddServed
<1>6. MatchesServed(es)
  BY <1>3, <1>4 DEF MatchesServed, AsksAgain
<1>7. t.kind \in {"scan", "group"}
  BY DEF Scan, GroupRepresentative
<1>8. CASE Scan
  <2>1. QueuesServed(es)
    BY <1>2, <1>4, <1>8, EndServed DEF Scan, Ends
  <2> QED  BY <1>3, <1>4, <1>5, <1>6, <1>7, <2>1, WriteServed
<1>9. CASE GroupRepresentative
  <2> DEFINE y == [kind |-> "create", photo |-> NextId, photos |-> t.photos]
  <2>1. t.kind = "group" /\ tasks' = <<y>> \o Tail(tasks)
    BY <1>9 DEF GroupRepresentative
  <2>2. y \in TaskSet /\ y.kind = "create"
    <3>1. t \in TaskSet
      BY QueueProperties DEF QueuesTyped
    <3>2. t.photos \in SUBSET Photos
      BY <2>1, <3>1, TaskFields
    <3> QED  BY <1>2, <3>2, TasksMade
  <2> HIDE DEF y
  <2>3. GoesOn(y, es)
    BY <1>3, <1>4, <2>2 DEF GoesOn, Steps
  <2>4. QueuesServed(es)
    BY <1>2, <1>4, <2>1, <2>2, <2>3, StepServed
  <2> QED  BY <1>3, <1>4, <1>5, <1>6, <1>7, <2>4, WriteServed
<1> QED  BY <1>8, <1>9

\* The representative becomes one, and the members join.
LEMMA GroupingServed ==
    ASSUME CollectionTyped, QueuesTyped, tasks # <<>>, filter' = filter, GroupCreate \/ GroupJoin
    PROVE  \E es : Served(es)
<1> DEFINE t == Head(tasks)
<1>1. t \in TaskSet
  BY QueueProperties DEF QueuesTyped
<1>2. CASE GroupCreate
  <2> DEFINE e == Signal("modified", {t.photo})
             es == <<e>>
             y == [t EXCEPT !.kind = "join"]
  <2>1. /\ t.kind = "create" /\ tasks' = <<y>> \o Tail(tasks) /\ events' = events \o es
        /\ UNCHANGED <<collection, buried, touched>>
    BY <1>2 DEF GroupCreate, Sends, dbVars
  <2>2. /\ t.photo \in Photos /\ t.photos \in SUBSET Photos
        /\ t = [kind |-> "create", photo |-> t.photo, photos |-> t.photos]
    BY <1>1, <2>1, TaskFields
  <2>3. y \in TaskSet /\ y.kind = "join"
    <3> DEFINE p == t.photo
               S == t.photos
    <3>1. t = [kind |-> "create", photo |-> p, photos |-> S] /\ p \in Photos /\ S \in SUBSET Photos
      BY <2>2
    <3> HIDE DEF p, S, t
    <3>2. y = [kind |-> "join", photo |-> p, photos |-> S]
      BY <3>1
    <3> QED  BY <3>1, <3>2, TasksMade
  <2>4. e \in EventSet /\ e.kind = "modified"
    <3>1. {t.photo} \in SUBSET Photos
      BY <2>2
    <3> QED  BY <3>1, EventsMade DEF Signal
  <2> HIDE DEF e, y
  <2>5. es \in Seq(EventSet) /\ Range(es) = {e}
    BY <2>4, ShortQueues
  <2> HIDE DEF es
  <2>6. NamesKept /\ DetailsKept(es) /\ MatchesKept(es)
    <3>1. \A x \in Range(es) : x.kind # "removed"
      BY <2>4, <2>5
    <3> QED  BY <2>1, <3>1, CollectionSame
  <2>7. GoesOn(y, es)
    BY <2>1, <2>3 DEF GoesOn, Steps
  <2>8. QueuesServed(es)
    BY <2>1, <2>3, <2>5, <2>7, StepServed
  <2> QED  BY <2>1, <2>4, <2>5, <2>6, <2>8, WriteServed DEF MatchesServed
<1>3. CASE GroupJoin /\ t.photos \subseteq Stored
  <2> DEFINE S == t.photos
             e == Signal("modified", S)
             es == <<e>>
             c == [q \in Stored |-> IF q \in S THEN [collection[q] EXCEPT !.group = t.photo]
                                    ELSE collection[q]]
  <2>1. /\ t.kind = "join" /\ tasks' = Tail(tasks) /\ events' = events \o es
        /\ collection' = c /\ UNCHANGED <<touched, buried>>
    BY <1>3 DEF GroupJoin, Ends, Sends, Changed
  <2>2. e \in EventSet /\ e.kind = "modified" /\ e.ids = S
    <3>1. S \in SUBSET Photos
      BY <1>1, <2>1, TaskFields
    <3> QED  BY <3>1, EventsMade DEF Signal
  <2> HIDE DEF e
  <2>3. es \in Seq(EventSet) /\ Range(es) = {e}
    BY <2>2, ShortQueues
  <2> HIDE DEF es
  <2>4. DOMAIN c = Stored /\ \A q \in Stored \ S : c[q] = collection[q]
    OBVIOUS
  <2> HIDE DEF c, S
  <2>5. Stored' = Stored /\ \A q \in Stored \ S : collection'[q] = collection[q]
    BY <2>1, <2>4 DEF Stored
  <2>6. \A q \in S \cap Stored : \E x \in Range(es) : Mentions(x, q)
    BY <2>2, <2>3 DEF Mentions
  <2>7. NamesKept /\ DetailsKept(es)
    BY <2>1, <2>5, <2>6, RecordsChange
  <2>8. QueuesServed(es)
    BY <2>1, <2>3, EndServed
  <2> QED  BY <2>1, <2>2, <2>3, <2>7, <2>8, WriteServed DEF MatchesServed
<1>4. CASE GroupJoin /\ ~ (t.photos \subseteq Stored)
  <2> DEFINE es == <<>>
  <2>1. /\ t.kind = "join" /\ tasks' = Tail(tasks) /\ events' = events
        /\ UNCHANGED <<collection, touched, buried>>
    BY <1>4 DEF GroupJoin, Ends
  <2>2. es \in Seq(EventSet) /\ Range(es) = {} /\ events' = events \o es
    BY <2>1, ShortQueues, QueueProperties DEF QueuesTyped
  <2> HIDE DEF es
  <2>3. NamesKept /\ DetailsKept(es) /\ MatchesKept(es)
    BY <2>1, <2>2, CollectionSame
  <2>4. QueuesServed(es)
    BY <2>1, <2>2, EndServed
  <2> QED  BY <2>1, <2>2, <2>3, <2>4, WriteServed DEF MatchesServed
<1> QED  BY <1>2, <1>3, <1>4

\* A group is dissolved.
LEMMA DissolvingServed ==
    ASSUME CollectionTyped, QueuesTyped, tasks # <<>>, filter' = filter, UngroupDissolve
    PROVE  \E es : Served(es)
<1> DEFINE t == Head(tasks)
           members == MembersOf(t.photo)
           e == Signal("modified", members \cup {t.photo})
           es == IF members = {} THEN <<>> ELSE <<e>>
           y == [kind |-> "remove", ids |-> IF members = {} THEN {} ELSE {t.photo} \cap Stored]
           c == [q \in Stored |-> IF q \in members THEN [collection[q] EXCEPT !.group = NoGroup]
                                  ELSE collection[q]]
<1>1. /\ t.kind = "ungroup" /\ tasks' = <<y>> \o Tail(tasks) /\ events' = events \o es
      /\ collection' = c /\ touched' = touched \cup members /\ buried' = buried
  BY DEF UngroupDissolve, Sends, Changed
<1>2. t.photo \in Photos /\ members \subseteq Stored /\ Stored \subseteq Photos
  <2>1. t \in TaskSet
    BY QueueProperties DEF QueuesTyped
  <2> QED  BY <1>1, <2>1, TaskFields DEF MembersOf, CollectionTyped
<1>3. e \in EventSet /\ e.kind = "modified" /\ members \subseteq e.ids
  <2> HIDE DEF members
  <2>1. members \cup {t.photo} \in SUBSET Photos
    BY <1>2
  <2> QED  BY <2>1, EventsMade DEF Signal
<1>4. y \in TaskSet /\ y.kind = "remove" /\ y.ids \subseteq Stored
  <2> HIDE DEF members
  <2>1. (IF members = {} THEN {} ELSE {t.photo} \cap Stored) \in SUBSET Photos
    BY <1>2
  <2> QED  BY <2>1, TasksMade
<1> HIDE DEF e, y
<1>5. es \in Seq(EventSet) /\ Range(es) = IF members = {} THEN {} ELSE {e}
  <2>1. CASE members = {}
    BY <2>1, ShortQueues
  <2>2. CASE members # {}
    <3>1. <<e>> \in Seq(EventSet) /\ Range(<<e>>) = {e}
      BY <1>3, ShortQueues
    <3> QED  BY <2>2, <3>1
  <2> QED  BY <2>1, <2>2
<1>6. DOMAIN c = Stored /\ \A q \in Stored \ members : c[q] = collection[q]
  OBVIOUS
<1> HIDE DEF c, es, members
<1>7. Stored' = Stored /\ \A q \in Stored \ members : collection'[q] = collection[q]
  BY <1>1, <1>6 DEF Stored
<1>8. \A q \in members \cap Stored : \E x \in Range(es) : Mentions(x, q)
  BY <1>3, <1>5 DEF Mentions
<1>9. touched' = touched \cup (members \cap Stored) /\ \A x \in Range(es) : x.kind = "modified"
  BY <1>1, <1>2, <1>3, <1>5
<1>10. NamesKept /\ DetailsKept(es) /\ MatchesKept(es)
  BY <1>1, <1>7, <1>8, <1>9, RecordsChange
<1>11. GoesOn(y, es)
  BY <1>4, <1>7 DEF GoesOn, Steps
<1>12. QueuesServed(es)
  BY <1>1, <1>4, <1>5, <1>11, StepServed
<1> QED  BY <1>1, <1>9, <1>10, <1>12, WriteServed DEF MatchesServed

\* The representative is removed.
LEMMA RemovingServed ==
    ASSUME CollectionTyped, QueuesTyped, tasks # <<>>, filter' = filter, UngroupRemove,
           Head(tasks).ids \subseteq Stored
    PROVE  \E es : Served(es)
<1> DEFINE t == Head(tasks)
           ids == t.ids
           removed == {p \in ids : collection[p].group = NoGroup}
           e == Signal("removed", ids)
           es == <<e>>
<1>1. /\ t.kind = "remove" /\ tasks' = Tail(tasks) /\ events' = events \o es
      /\ collection' = Restrict(collection, Stored \ removed) /\ buried' = buried \cup removed
      /\ touched' = touched
  BY DEF UngroupRemove, Ends, Sends
<1>2. ids \subseteq Stored /\ Stored \subseteq Photos
  BY DEF CollectionTyped
<1>3. e \in EventSet /\ e.kind = "removed" /\ e.ids = ids
  <2>1. ids \in SUBSET Photos
    BY <1>2
  <2> QED  BY <2>1, EventsMade DEF Signal
<1> HIDE DEF e
<1>4. es \in Seq(EventSet) /\ Range(es) = {e}
  BY <1>3, ShortQueues
<1>5. removed \subseteq ids /\ \A p \in ids \ removed : collection[p].group # NoGroup
  OBVIOUS
<1> HIDE DEF es, removed, ids
<1>6. Stored' = Stored \ removed /\ \A p \in Stored \ removed : collection'[p] = collection[p]
  <2> DEFINE c == [p \in Stored \ removed |-> collection[p]]
  <2>1. collection' = c
    BY <1>1 DEF Restrict
  <2>2. DOMAIN c = Stored \ removed /\ \A p \in Stored \ removed : c[p] = collection[p]
    OBVIOUS
  <2> HIDE DEF c
  <2> QED  BY <2>1, <2>2 DEF Stored
<1>7. \A p : p \notin removed => Details(p)' = Details(p) /\ (Belongs(p)' <=> Belongs(p))
  BY <1>6, SamePhoto
<1>8. NamesKept /\ DetailsKept(es)
  BY <1>1, <1>6, <1>7 DEF NamesKept, DetailsKept
<1>9. \A p : (\E x \in Range(es) : Drops(x, p)) <=> p \in ids
  BY <1>3, <1>4 DEF Drops
<1>10. \A p \in removed : ~ Belongs(p)'
  BY <1>6 DEF Belongs
<1>11. \A p \in ids \ removed : ~ Belongs(p)
  BY <1>5 DEF Belongs, Matches
<1>12. MatchesKept(es)
  <2>1. ASSUME NEW p  PROVE Belongs(p)' <=> Belongs(p) /\ p \notin ids
    <3>1. CASE p \in removed
      BY <1>5, <1>10, <3>1
    <3>2. CASE p \in ids \ removed
      BY <1>7, <1>11, <3>2
    <3>3. CASE p \notin ids
      BY <1>5, <1>7, <3>3
    <3> QED  BY <3>1, <3>2, <3>3
  <2> QED  BY <1>1, <1>9, <2>1 DEF MatchesKept
<1>13. QueuesServed(es)
  BY <1>1, <1>4, EndServed
<1> QED  BY <1>1, <1>3, <1>4, <1>8, <1>12, <1>13, WriteServed DEF MatchesServed

\* Whatever the database's thread performs, it serves.
LEMMA PerformServed ==
    ASSUME CollectionTyped, QueuesTyped, Perform,
           \A t \in Range(tasks) : t.kind = "remove" => t.ids \subseteq Stored
    PROVE  \E es : Served(es)
<1> DEFINE t == Head(tasks)
<1>1. tasks # <<>> /\ filter' = filter /\ t \in TaskSet /\ t \in Range(tasks)
  <2>1. tasks # <<>> /\ filter' = filter /\ tasks \in Seq(TaskSet)
    BY DEF Perform, viewVars, QueuesTyped
  <2> QED  BY <2>1, QueueProperties, QueueParts
<1>2. CASE FetchPhotoProperties
  <2> DEFINE e == [kind |-> "details", photo |-> t.photo, details |-> Details(t.photo)]
  <2>1. /\ t.kind = "details" /\ tasks' = Tail(tasks) /\ events' = events \o <<e>>
        /\ UNCHANGED <<collection, buried, touched>>
    BY <1>2 DEF FetchPhotoProperties, Ends, Sends, dbVars
  <2>2. t.photo \in Photos
    BY <1>1, <2>1, TaskFields
  <2>3. e \in EventSet
    BY <2>2, DetailsTyped, EventsMade
  <2>4. e.kind = "details" /\ e.photo = t.photo /\ e.details = Details(e.photo)
    OBVIOUS
  <2> HIDE DEF e
  <2>5. PICK f \in EventSet : f = e
    BY <2>3
  <2>6. f.kind = "details" /\ f.photo = t.photo /\ f.details = Details(f.photo)
    BY <2>4, <2>5
  <2>7. Details(f.photo)' = Details(f.photo)
    BY <2>1 DEF Details, Stored
  <2>8. f.details = Details(f.photo)'
    BY <2>6, <2>7
  <2> QED  BY <1>1, <2>1, <2>5, <2>6, <2>8, ReadServed
<1>3. CASE GetTimeRangeForFilters
  <2> DEFINE e == [kind |-> "dates", dates |-> Dates]
  <2>1. /\ t.kind = "dates" /\ tasks' = Tail(tasks) /\ events' = events \o <<e>>
        /\ UNCHANGED <<collection, buried, touched>>
    BY <1>3 DEF GetTimeRangeForFilters, Ends, Sends, dbVars
  <2>2. e \in EventSet /\ e.kind = "dates"
    BY DatesTyped, EventsMade
  <2> HIDE DEF e
  <2> QED  BY <1>1, <2>1, <2>2, ReadServed
<1>4. CASE UngroupRemove
  <2>1. t.ids \subseteq Stored
    BY <1>1, <1>4 DEF UngroupRemove
  <2> QED  BY <1>1, <1>4, <2>1, RemovingServed
<1> QED  BY <1>1, <1>2, <1>3, <1>4, ListTaskServed, EditsServed, AddingServed, GroupingServed,
            DissolvingServed DEF Perform

-----------------------------------------------------------------------------
(* What the queues hold *)

\* Photos there are or were.
Named == Stored \cup buried

\* Only the task in hand is a step of a group that goes on ...
InHand == \A t \in After(tasks, 1) : t.kind \notin Steps

\* ... and a photo it removes is still there.
RemoveStored == \A t \in Range(tasks) : t.kind = "remove" => t.ids \subseteq Stored

\* Photos the view knows of, those asked for and those that come, are or were
\* in the collection.
AllNamed ==
    /\ DOMAIN model.data \subseteq Named /\ Shown \subseteq Named
    /\ \A t \in Range(tasks) : t.kind = "details" => t.photo \in Named
    /\ \A e \in Range(events) : /\ e.kind = "details" => e.photo \in Named
                                /\ e.kind = "list" => Range(e.photos) \subseteq Named

Queued == InHand /\ RemoveStored /\ AllNamed

\* A task that other parts of the program send is no step of a group.
IsSent(t) == t \in TaskSet /\ t.kind \notin Steps /\ (t.kind = "details" => t.photo \in Shown)

\* The queue of the database's thread got xs.
Appended(xs) ==
    /\ xs \in Seq(TaskSet) /\ tasks' = tasks \o xs
    /\ \A t \in Range(xs) : IsSent(t)

\* None, one or two tasks are sent.
LEMMA SentAreAppended ==
    ASSUME QueuesTyped
    PROVE  /\ tasks' = tasks => Appended(<<>>)
           /\ \A t : IsSent(t) /\ tasks' = Append(tasks, t) => Appended(<<t>>)
           /\ tasks' = tasks \o <<Task("list"), Task("dates")>>
              => Appended(<<Task("list"), Task("dates")>>)
<1>1. tasks \in Seq(TaskSet)
  BY DEF QueuesTyped
<1>2. ASSUME tasks' = tasks  PROVE Appended(<<>>)
  <2> DEFINE xs == <<>>
  <2>1. xs \in Seq(TaskSet) /\ Range(xs) = {} /\ tasks' = tasks \o xs
    BY <1>1, <1>2, ShortQueues, QueueProperties
  <2> HIDE DEF xs
  <2>2. Appended(xs)
    BY <2>1 DEF Appended
  <2> QED  BY <2>2 DEF xs
<1>3. ASSUME NEW t, IsSent(t), tasks' = Append(tasks, t)  PROVE Appended(<<t>>)
  <2> DEFINE xs == <<t>>
  <2>1. t \in TaskSet
    BY <1>3 DEF IsSent
  <2>2. xs \in Seq(TaskSet) /\ Range(xs) = {t}
    BY <2>1, ShortQueues
  <2>3. tasks' = tasks \o xs
    BY <1>1, <1>3, <2>1, AppendIsConcat
  <2> HIDE DEF xs
  <2>4. Appended(xs)
    BY <1>3, <2>2, <2>3 DEF Appended
  <2> QED  BY <2>4 DEF xs
<1>4. ASSUME tasks' = tasks \o <<Task("list"), Task("dates")>>
      PROVE  Appended(<<Task("list"), Task("dates")>>)
  <2> DEFINE a == Task("list")
             b == Task("dates")
             xs == <<a, b>>
  <2>1. a \in TaskSet /\ b \in TaskSet /\ a.kind = "list" /\ b.kind = "dates"
    BY TasksMade
  <2>2. tasks' = tasks \o xs
    BY <1>4
  <2> HIDE DEF a, b
  <2>3. xs \in Seq(TaskSet) /\ Range(xs) = {a, b}
    BY <2>1, ShortQueues
  <2>4. IsSent(a) /\ IsSent(b)
    BY <2>1 DEF IsSent, Steps
  <2> HIDE DEF xs
  <2>5. Appended(xs)
    BY <2>2, <2>3, <2>4 DEF Appended
  <2> QED  BY <2>5 DEF xs, a, b
<1> QED  BY <1>2, <1>3, <1>4

\* Tasks without arguments are sent.
LEMMA PlainTasksSent == \A k \in {"list", "dates", "review", "scan"} : IsSent(Task(k)) /\ Task(k).kind = k
BY TasksMade DEF IsSent, Steps

\* updateModelFilters() asks for the list, when the project is open.
LEMMA FiltersAppend ==
    ASSUME QueuesTyped, UpdateModelFilters
    PROVE  /\ \E xs : Appended(xs) /\ \A t \in Range(xs) : t.kind = "list"
           /\ opened => \E xs : Appended(xs) /\ \E t \in Range(xs) : t.kind = "list"
<1> DEFINE a == Task("list")
           none == <<>>
           one == <<a>>
<1>1. IsSent(a) /\ a.kind = "list"
  BY PlainTasksSent
<1> HIDE DEF a
<1>2. Range(one) = {a} /\ Range(none) = {}
  BY ShortQueues
<1>3. IF opened THEN tasks' = Append(tasks, a) ELSE tasks' = tasks
  BY DEF UpdateModelFilters, UpdatePhotos, Exec, a
<1>4. IF opened THEN Appended(one) ELSE Appended(none)
  BY <1>1, <1>3, SentAreAppended
<1> HIDE DEF one, none
<1> QED  BY <1>1, <1>2, <1>4

\* What is requested is no list and no step of a group.
LEMMA RequestsSent ==
    ASSUME ModelTyped, NEW r \in Requests
    PROVE  IsSent(r) /\ r.kind \notin {"list", "details"}
<1>1. Shown = Range(model.photos) /\ Shown \subseteq Photos
  BY ShownArePhotos
<1>2. \A d \in 1 .. MaxDate : d \in NoDate .. MaxDate
  BY ViewAssumption DEF NoDate
<1>3. CASE r = Task("scan")
  BY <1>3, PlainTasksSent
<1>4. CASE \E p \in Shown : \E d \in 1 .. MaxDate : r = [kind |-> "edit", photo |-> p, date |-> d]
  BY <1>1, <1>2, <1>4, TasksMade DEF IsSent, Steps
<1>5. CASE \E p \in Shown : r = [kind |-> "mark", photo |-> p] \/ r = [kind |-> "ungroup", photo |-> p]
  <2>1. PICK p \in Shown : r = [kind |-> "mark", photo |-> p] \/ r = [kind |-> "ungroup", photo |-> p]
    BY <1>5
  <2>2. p \in Photos
    BY <1>1
  <2>3. r \in TaskSet
    BY <2>1, <2>2, TasksMade
  <2>4. r.kind = "mark" \/ r.kind = "ungroup"
    BY <2>1
  <2> QED  BY <2>3, <2>4 DEF IsSent, Steps
<1>6. CASE \E S \in SUBSET Shown : r = [kind |-> "group", photos |-> S]
  BY <1>1, <1>6, TasksMade DEF IsSent, Steps
<1> HIDE DEF Shown
<1> QED  BY <1>3, <1>4, <1>5, <1>6 DEF Requests

\* All but the database's thread: the user, the timer, the view, the rest of the
\* program and the loop of events.
Gui == Control \/ SearchTimeout \/ ShowRow \/ Request \/ Deliver

\* They only put tasks at the end of the queue, and leave the collection alone.
LEMMA GuiAppends ==
    ASSUME QueuesTyped, ModelTyped, Gui
    PROVE  UNCHANGED dbVars /\ \E xs : Appended(xs)
<1>1. UNCHANGED dbVars
  BY DEF Gui, Control, SearchTimeout, ShowRow, Request, Deliver
<1> SUFFICES \E xs : Appended(xs)
  BY <1>1
<1>2. CASE tasks' = tasks
  BY <1>2, SentAreAppended
<1>3. CASE UpdateModelFilters
  BY <1>3, FiltersAppend
<1>4. CASE Control
  <2>1. CASE SetTimeView \/ SetNewPhotosOnly
    BY <1>3, <2>1 DEF SetTimeView, SetNewPhotosOnly
  <2>2. CASE SetSearchExpression \/ CloseProject
    BY <1>2, <2>2 DEF SetSearchExpression, CloseProject
  <2>3. CASE MarkNewAsReviewed
    BY <2>3, PlainTasksSent, SentAreAppended DEF MarkNewAsReviewed, Exec
  <2> QED  BY <1>4, <2>1, <2>2, <2>3 DEF Control
<1>5. CASE ShowRow
  <2>1. PICK p \in ToSet(model.photos) :
           tasks' = Append(tasks, [kind |-> "details", photo |-> p]) \/ tasks' = tasks
    BY <1>5 DEF ShowRow, Exec
  <2>2. IsSent([kind |-> "details", photo |-> p])
    <3>1. p \in Shown /\ p \in Photos
      BY ShownArePhotos DEF Shown
    <3> QED  BY <3>1, TasksMade DEF IsSent, Steps
  <2> QED  BY <1>2, <2>1, <2>2, SentAreAppended
<1>6. CASE Request
  BY <1>6, RequestsSent, SentAreAppended DEF Request, Exec
<1>7. CASE Deliver
  <2> DEFINE e == Head(events)
  <2>1. CASE PhotosAdded(e)
    <3>1. tasks' = tasks \o <<Task("list"), Task("dates")>> \/ tasks' = tasks
      BY <2>1 DEF PhotosAdded
    <3> QED  BY <3>1, SentAreAppended
  <2>2. CASE PhotosModified(e) \/ PhotosRemoved(e)
    <3>1. tasks' = Append(tasks, Task("dates")) \/ tasks' = tasks
      BY <2>2 DEF PhotosModified, PhotosRemoved
    <3> QED  BY <3>1, PlainTasksSent, SentAreAppended
  <2>3. CASE ListCame(e) \/ DetailsCame(e) \/ SetAvailableDates(e)
    BY <1>2, <2>3 DEF ListCame, DetailsCame, SetAvailableDates
  <2>4. CASE FiltersCame(e)
    BY <1>3, <2>4 DEF FiltersCame
  <2> QED  BY <1>7, <2>1, <2>2, <2>3, <2>4 DEF Deliver
<1>8. CASE SearchTimeout
  BY <1>3, <1>8 DEF SearchTimeout
<1> QED  BY <1>4, <1>5, <1>6, <1>7, <1>8 DEF Gui

\* The photos shown before and after a step.
LEMMA ShownIsRange == Shown = Range(model.photos) /\ Shown' = Range(model'.photos)
BY ToSetIsRange DEF Shown

\* The program starts with a list and dates to be fetched, and no rows.
LEMMA QueuedInit == Init => Queued
<1> SUFFICES ASSUME Init  PROVE Queued
  OBVIOUS
<1> DEFINE a == Task("list")
           b == Task("dates")
<1>1. a.kind = "list" /\ b.kind = "dates"
  BY TasksMade
<1>2. tasks = <<a, b>> /\ events = <<>> /\ model = EmptyModel
  BY DEF Init
<1> HIDE DEF a, b
<1>3. Range(tasks) = {a, b} /\ Range(events) = {}
  BY <1>2, ShortQueues
<1>4. InHand
  <2>1. After(tasks, 1) \subseteq Range(tasks)
    BY DEF After, Range
  <2> QED  BY <1>1, <1>3, <2>1 DEF InHand, Steps
<1>5. RemoveStored
  BY <1>1, <1>3 DEF RemoveStored
<1>6. AllNamed
  BY <1>1, <1>2, <1>3, EmptyModelTyped, ShownIsRange DEF AllNamed
<1> QED  BY <1>4, <1>5, <1>6 DEF Queued

\* What the GUI makes of the model: photos it knows of are those it knew, those
\* that came in the event, and no others.
LEMMA GuiNames ==
    ASSUME Typed, AllNamed, Gui
    PROVE  DOMAIN model'.data \subseteq Named /\ Shown' \subseteq Named /\ Range(events') \subseteq Range(events)
<1>1. IsModel(model) /\ model.photos \in Seq(Photos) /\ events \in Seq(EventSet)
  BY DEF Typed, ModelTyped, DifferentPhotos, QueuesTyped
<1>2. DOMAIN model.data \subseteq Named /\ Range(model.photos) \subseteq Named
  BY ShownIsRange DEF AllNamed
<1>3. CASE UNCHANGED <<model, events>>
  BY <1>2, <1>3, ShownIsRange
<1>4. CASE CloseProject /\ events' = events
  BY <1>4, EmptyModelTyped, ShownIsRange DEF CloseProject
<1>5. CASE ShowRow
  <2>1. PICK p \in ToSet(model.photos) : Asks(model, p) /\ model' = PhotoData(model, p)
    BY <1>5 DEF ShowRow
  <2>2. model'.photos = model.photos /\ DOMAIN model'.data = DOMAIN model.data \cup {p}
    BY <1>1, <2>1, PhotoDataProperties
  <2>3. p \in Named
    BY <1>2, <2>1, ToSetIsRange
  <2>4. events' = events
    BY <1>5 DEF ShowRow
  <2> QED  BY <1>2, <2>2, <2>3, <2>4, ShownIsRange
<1>6. CASE Deliver
  <2> DEFINE e == Head(events)
  <2>1. /\ events # <<>> /\ events' = Tail(events) /\ e \in EventSet /\ e \in Range(events)
        /\ Range(events') \subseteq Range(events)
    <3>1. events # <<>> /\ events' = Tail(events)
      BY <1>6 DEF Deliver
    <3>2. e \in EventSet
      BY <1>1, <3>1, QueueProperties
    <3>3. Range(events) = {e} \cup After(events, 1) /\ Range(Tail(events)) = After(events, 1)
      BY <1>1, <3>1, QueueParts
    <3> QED  BY <3>1, <3>2, <3>3
  <2>2. CASE model' = model
    BY <1>2, <2>1, <2>2, ShownIsRange
  <2>3. CASE PhotosModified(e)
    <3>1. model' = Without(model, e.ids)
      BY <2>3 DEF PhotosModified, InvalidatePhotos
    <3> DEFINE d == Restrict(model.data, DOMAIN model.data \ e.ids)
    <3>2. model'.photos = model.photos /\ DOMAIN model'.data \subseteq DOMAIN model.data
      <4>1. DOMAIN d \subseteq DOMAIN model.data
        BY DEF Restrict
      <4>2. Becomes(model', model.photos, model.rows, d)
        BY <1>1, <3>1, WithoutProperties
      <4> HIDE DEF d
      <4> QED  BY <4>1, <4>2 DEF Becomes
    <3> QED  BY <1>2, <2>1, <3>2, ShownIsRange
  <2>4. CASE PhotosRemoved(e)
    <3> DEFINE rows == RowsOfIds(model, e.ids)
               s == model.photos
               places == DOMAIN s \ rows
    <3>1. model' = RemovePhotos(model, e.ids)
      BY <2>4 DEF PhotosRemoved
    <3>2. model'.photos = Keep(s, places) /\ DOMAIN model'.data \subseteq DOMAIN model.data
      <4> DEFINE d == Restrict(model.data, DOMAIN model.data \ {s[r] : r \in rows \cap DOMAIN s})
      <4>1. DOMAIN d \subseteq DOMAIN model.data
        BY DEF Restrict
      <4>2. Becomes(model', Keep(s, places), model.rows, d)
        BY <1>1, <3>1, RemovePhotosProperties
      <4> HIDE DEF d, s, places
      <4> QED  BY <4>1, <4>2 DEF Becomes
    <3>3. s \in Seq(Photos) /\ IsInjective(s) /\ Range(s) \subseteq Named
      BY <1>2 DEF Typed, ModelTyped, DifferentPhotos
    <3> HIDE DEF s, places
    <3>4. Range(Keep(s, places)) \subseteq Range(s)
      <4>1. Range(Keep(s, places)) = {s[i] : i \in places \cap DOMAIN s}
        BY <3>3, KeepProperties
      <4> QED  BY <4>1 DEF Range
    <3> QED  BY <1>2, <2>1, <3>2, <3>3, <3>4, ShownIsRange
  <2>5. CASE ListCame(e)
    <3>1. e.kind = "list" /\ model' = FetchedPhotos(model, e.photos)
      BY <2>5 DEF ListCame
    <3>2. e.photos \in Seq(Photos) /\ Range(e.photos) \subseteq Named
      BY <2>1, <3>1, EventFields DEF DifferentPhotos, AllNamed
    <3>3. model'.photos = e.photos /\ DOMAIN model'.data \subseteq DOMAIN model.data
      BY <1>1, <3>1, <3>2, FetchedPhotosProperties
    <3> QED  BY <1>2, <2>1, <3>2, <3>3, ShownIsRange
  <2>6. CASE DetailsCame(e)
    <3>1. e.kind = "details" /\ model' = FetchedPhotoProperties(model, e.photo, e.details)
      BY <2>6 DEF DetailsCame
    <3>2. e.photo \in Named
      BY <2>1, <3>1 DEF AllNamed
    <3>3. model'.photos = model.photos /\ DOMAIN model'.data \subseteq DOMAIN model.data \cup {e.photo}
      BY <1>1, <3>1, FetchedPropertiesProperties
    <3> QED  BY <1>2, <2>1, <3>2, <3>3, ShownIsRange
  <2> QED  BY <1>6, <2>2, <2>3, <2>4, <2>5, <2>6 DEF Deliver, PhotosAdded, SetAvailableDates, FiltersCame
<1>7. CASE Control
  BY <1>3, <1>4, <1>7 DEF Control
<1>8. CASE SearchTimeout \/ Request
  BY <1>3, <1>8 DEF SearchTimeout, Request, viewVars
<1> QED  BY <1>5, <1>6, <1>7, <1>8 DEF Gui

\* The GUI keeps the queues in order.
LEMMA QueuedGui ==
    ASSUME Typed, Queued, Gui
    PROVE  Queued'
<1>1. /\ InHand /\ RemoveStored /\ AllNamed /\ QueuesTyped /\ ModelTyped
      /\ tasks \in Seq(TaskSet)
  BY DEF Typed, Queued, QueuesTyped
<1>2. UNCHANGED dbVars
  BY <1>1, GuiAppends
<1>3. PICK xs : Appended(xs)
  BY <1>1, GuiAppends
<1>4. Named' = Named /\ Stored' = Stored
  BY <1>2 DEF dbVars, Named, Stored
<1>5. xs \in Seq(TaskSet) /\ tasks' = tasks \o xs
  BY <1>3 DEF Appended
<1>6. Range(tasks') = Range(tasks) \cup Range(xs) /\ After(tasks', 1) \subseteq After(tasks, 1) \cup Range(xs)
  BY <1>1, <1>5, QueueGrows
<1>7. \A t \in Range(xs) : t.kind \notin Steps /\ (t.kind = "details" => t.photo \in Named)
  BY <1>1, <1>3 DEF Appended, IsSent, AllNamed
<1>8. InHand'
  BY <1>1, <1>6, <1>7 DEF InHand
<1>9. RemoveStored'
  <2>1. \A t \in Range(xs) : t.kind # "remove"
    BY <1>7 DEF Steps
  <2> QED  BY <1>1, <1>4, <1>6, <2>1 DEF RemoveStored
<1>10. AllNamed'
  <2>1. DOMAIN model'.data \subseteq Named /\ Shown' \subseteq Named /\ Range(events') \subseteq Range(events)
    BY <1>1, GuiNames
  <2> QED  BY <1>1, <1>4, <1>6, <1>7, <2>1 DEF AllNamed
<1> QED  BY <1>8, <1>9, <1>10 DEF Queued

\* The database's thread keeps them in order.
LEMMA QueuedPerform ==
    ASSUME Typed, Queued, Perform
    PROVE  Queued'
<1>1. /\ InHand /\ RemoveStored /\ AllNamed /\ QueuesTyped /\ CollectionTyped
      /\ tasks \in Seq(TaskSet) /\ events \in Seq(EventSet)
  BY DEF Typed, Queued, QueuesTyped
<1>2. PICK es : Served(es)
  BY <1>1, PerformServed DEF RemoveStored
<1>3. QueuesServed(es) /\ NamesKept /\ DetailsServed(es) /\ ListServed(es)
  BY <1>2 DEF Served
<1>4. es \in Seq(EventSet) /\ events' = events \o es
  BY <1>3 DEF QueuesServed
<1>5. Range(events') = Range(events) \cup Range(es)
  BY <1>1, <1>4, QueueGrows
<1>6. tasks # <<>> /\ model' = model
  BY DEF Perform, viewVars
<1>7. Range(tasks) = {Head(tasks)} \cup After(tasks, 1)
  BY <1>1, <1>6, QueueParts
<1>8. Named \subseteq Named'
  BY <1>3 DEF NamesKept, Named
<1>9. InHand'
  BY <1>1, <1>3 DEF QueuesServed, InHand
<1>10. RemoveStored'
  <2>1. \A t \in After(tasks, 1) : t.kind # "remove"
    BY <1>1 DEF InHand, Steps
  <2>2. \A t \in Range(tasks') : t \in After(tasks, 1) \/ GoesOn(t, es)
    BY <1>3 DEF QueuesServed
  <2>3. \A t : GoesOn(t, es) /\ t.kind = "remove" => t.ids \subseteq Stored'
    BY DEF GoesOn
  <2> QED  BY <2>1, <2>2, <2>3 DEF RemoveStored
<1>11. AllNamed'
  <2>1. DOMAIN model'.data \subseteq Named' /\ Shown' \subseteq Named'
    BY <1>1, <1>6, <1>8, ShownIsRange DEF AllNamed
  <2>2. ASSUME NEW t \in Range(tasks'), t.kind = "details"  PROVE t.photo \in Named'
    <3>1. t \in After(tasks, 1)
      BY <1>3, <2>2 DEF QueuesServed, GoesOn, Steps
    <3> QED  BY <1>1, <1>7, <1>8, <2>2, <3>1 DEF AllNamed
  <2>3. ASSUME NEW e \in Range(events'), e.kind = "details"  PROVE e.photo \in Named'
    <3>1. CASE e \in Range(events)
      BY <1>1, <1>8, <2>3, <3>1 DEF AllNamed
    <3>2. CASE e \in Range(es)
      <4>1. Head(tasks).kind = "details" /\ Head(tasks).photo = e.photo
        BY <1>3, <2>3, <3>2 DEF DetailsServed, Answers
      <4> QED  BY <1>1, <1>7, <1>8, <4>1 DEF AllNamed
    <3> QED  BY <1>5, <3>1, <3>2
  <2>4. ASSUME NEW e \in Range(events'), e.kind = "list"  PROVE Range(e.photos) \subseteq Named'
    <3>1. CASE e \in Range(events)
      BY <1>1, <1>8, <2>4, <3>1 DEF AllNamed
    <3>2. CASE e \in Range(es)
      <4> DEFINE l == [kind |-> "list", photos |-> OnPhotos(filter)]
      <4>1. es = <<l>>
        BY <1>3, <2>4, <3>2 DEF ListServed
      <4>2. e = l
        BY <3>2, <4>1, ShortQueues
      <4>3. e.photos = OnPhotos(filter)
        BY <4>2
      <4>4. Range(e.photos) \subseteq Stored
        BY <1>1, <4>3, OnPhotosProperties
      <4> QED  BY <1>8, <4>4 DEF Named
    <3> QED  BY <1>5, <3>1, <3>2
  <2> QED  BY <2>1, <2>2, <2>3, <2>4 DEF AllNamed
<1> QED  BY <1>9, <1>10, <1>11 DEF Queued

\* Every step keeps them in order.
LEMMA QueuedStep == Typed /\ Queued /\ [Next]_vars => Queued'
<1> SUFFICES ASSUME Typed, Queued, [Next]_vars  PROVE Queued'
  OBVIOUS
<1>1. CASE UNCHANGED vars
  BY <1>1 DEF vars, dbVars, viewVars, Queued, InHand, RemoveStored, AllNamed, Named, Stored, Shown
<1> QED  BY <1>1, QueuedPerform, QueuedGui DEF Next, Gui

-----------------------------------------------------------------------------
(* Details are fresh or on their way *)

\* Photos whose id never belonged to a removed one.
Live == Stored \ buried

\* The data kept of a photo is that of the database, or it will be dropped, or
\* its delegate has asked for it.
FreshData(p) ==
    \/ model.data[p] = Details(p)
    \/ \E e \in Range(events) : Mentions(e, p)
    \/ /\ p \in Shown
       /\ (\E t \in Range(tasks) : Answers(t, p)) \/ (\E e \in Range(events) : Answers(e, p))

KeptFresh == opened /\ ~ crashed => \A p \in DOMAIN model.data \cap Live : FreshData(p)

\* Details that are on their way are those of the database, or their change is
\* signalled behind them.
AnswersFresh ==
    \A i \in DOMAIN events : \A p \in Live : Answers(events[i], p) =>
        events[i].details = Details(p) \/ \E e \in After(events, i) : Mentions(e, p)

Fresh == KeptFresh /\ AnswersFresh

\* Nothing is known and nothing on its way when the program starts.
LEMMA FreshInit == Init => Fresh
BY EmptyModelTyped DEF Init, Fresh, KeptFresh, AnswersFresh

\* The GUI keeps data fresh that it does not change.
LEMMA FreshDataKept ==
    ASSUME UNCHANGED dbVars, NEW p, FreshData(p), model'.data[p] = model.data[p],
           p \in Shown => p \in Shown', Range(tasks) \subseteq Range(tasks'),
           \A e \in Range(events) : Mentions(e, p) \/ (Answers(e, p) /\ p \in Shown) => e \in Range(events')
    PROVE  FreshData(p)'
<1>1. Details(p)' = Details(p)
  BY DEF dbVars, Details, Stored
<1>2. CASE model.data[p] = Details(p)
  BY <1>1, <1>2 DEF FreshData
<1>3. CASE \E e \in Range(events) : Mentions(e, p)
  BY <1>3 DEF FreshData
<1>4. CASE p \in Shown /\ \E t \in Range(tasks) : Answers(t, p)
  BY <1>4 DEF FreshData
<1>5. CASE p \in Shown /\ \E e \in Range(events) : Answers(e, p)
  BY <1>5 DEF FreshData
<1> QED  BY <1>2, <1>3, <1>4, <1>5 DEF FreshData

\* Details on their way stay fresh when the GUI handles an event or none.
LEMMA AnswersFreshGui ==
    ASSUME QueuesTyped, AnswersFresh, UNCHANGED dbVars,
           events' = events \/ (events # <<>> /\ events' = Tail(events))
    PROVE  AnswersFresh'
<1>1. Live' = Live /\ \A p : Details(p)' = Details(p)
  BY DEF dbVars, Live, Stored, Details
<1>2. CASE events' = events
  BY <1>1, <1>2 DEF AnswersFresh
<1>3. CASE events # <<>> /\ events' = Tail(events)
  <2>1. events \in Seq(EventSet)
    BY DEF QueuesTyped
  <2>2. \A i \in DOMAIN events' : i \in Nat /\ i + 1 \in DOMAIN events /\ events'[i] = events[i + 1]
    BY <1>3, <2>1
  <2>3. \A i \in Nat : After(events', i) = After(events, i + 1)
    BY <1>3, <2>1, QueueParts
  <2>4. ASSUME NEW i \in DOMAIN events', NEW p \in Live', Answers(events'[i], p)
        PROVE  events'[i].details = Details(p)' \/ \E e \in After(events', i) : Mentions(e, p)
    BY <1>1, <2>2, <2>3, <2>4 DEF AnswersFresh
  <2> QED  BY <2>4 DEF AnswersFresh
<1> QED  BY <1>2, <1>3

\* An event is handled.
LEMMA FreshDeliver ==
    ASSUME Typed, Fresh, Deliver, UNCHANGED dbVars, Range(tasks) \subseteq Range(tasks')
    PROVE  Fresh'
<1> DEFINE e == Head(events)
<1>1. /\ IsModel(model) /\ model.photos \in Seq(Photos) /\ IsInjective(model.photos)
      /\ Range(model.photos) \subseteq DOMAIN model.rows
      /\ events \in Seq(EventSet) /\ QueuesTyped
  BY DEF Typed, ModelTyped, DifferentPhotos, QueuesTyped
<1>2. events # <<>> /\ events' = Tail(events) /\ opened' = opened /\ ~ crashed
  BY DEF Deliver, Responsive
<1>3. AnswersFresh'
  BY <1>1, <1>2, AnswersFreshGui DEF Fresh
<1>4. e \in EventSet /\ Range(events) = {e} \cup Range(events') /\ Range(events') = After(events, 1)
  BY <1>1, <1>2, QueueProperties, QueueParts
<1>5. Live' = Live /\ \A p : Details(p)' = Details(p)
  BY DEF dbVars, Live, Stored, Details
<1> SUFFICES ASSUME opened', ~ crashed', NEW p \in DOMAIN model'.data, p \in Live
             PROVE  FreshData(p)'
  BY <1>3, <1>5 DEF Fresh, KeptFresh
<1>6. \A q \in DOMAIN model.data \cap Live : FreshData(q)
  BY <1>2 DEF Fresh, KeptFresh
<1>7. ASSUME p \in DOMAIN model.data, model'.data[p] = model.data[p], p \in Shown => p \in Shown',
             ~ Mentions(e, p), Answers(e, p) => p \notin Shown
      PROVE  FreshData(p)'
  <2>1. FreshData(p)
    BY <1>6, <1>7
  <2>2. \A x \in Range(events) : Mentions(x, p) \/ (Answers(x, p) /\ p \in Shown) => x \in Range(events')
    BY <1>4, <1>7
  <2> QED  BY <1>7, <2>1, <2>2, FreshDataKept
<1>8. CASE model' = model /\ e.kind \notin {"modified", "details"}
  BY <1>7, <1>8, ShownIsRange DEF Mentions, Answers
<1>9. CASE PhotosModified(e)
  <2> DEFINE d == Restrict(model.data, DOMAIN model.data \ e.ids)
  <2>1. e.kind = "modified" /\ model' = Without(model, e.ids)
    BY <1>9 DEF PhotosModified, InvalidatePhotos
  <2>2. DOMAIN d = DOMAIN model.data \ e.ids /\ \A q \in DOMAIN d : d[q] = model.data[q]
    BY DEF Restrict
  <2>3. Becomes(model', model.photos, model.rows, d)
    BY <1>1, <2>1, WithoutProperties
  <2> HIDE DEF d
  <2>4. model'.photos = model.photos /\ model'.data = d
    BY <2>3 DEF Becomes
  <2> QED  BY <1>7, <2>1, <2>2, <2>4, ShownIsRange DEF Mentions, Answers
<1>10. CASE PhotosRemoved(e)
  <2> DEFINE s == model.photos
             rows == RowsOfIds(model, e.ids)
             places == DOMAIN s \ rows
             out == {s[r] : r \in rows \cap DOMAIN s}
             d == Restrict(model.data, DOMAIN model.data \ out)
  <2>1. e.kind = "removed" /\ model' = RemovePhotos(model, e.ids)
    BY <1>10 DEF PhotosRemoved
  <2>2. DOMAIN d = DOMAIN model.data \ out /\ \A q \in DOMAIN d : d[q] = model.data[q]
    BY DEF Restrict
  <2>3. Becomes(model', Keep(s, places), model.rows, d)
    BY <1>1, <2>1, RemovePhotosProperties
  <2>4. Range(Keep(s, places)) = {s[i] : i \in places \cap DOMAIN s}
    <3>1. s \in Seq(Photos) /\ IsInjective(s)
      BY <1>1
    <3> HIDE DEF s, places
    <3> QED  BY <3>1, KeepProperties
  <2>5. Range(s) \ out \subseteq Range(Keep(s, places))
    <3> SUFFICES ASSUME NEW q \in Range(s), q \notin out  PROVE q \in Range(Keep(s, places))
      OBVIOUS
    <3>1. PICK i \in DOMAIN s : s[i] = q
      BY DEF Range
    <3>2. i \in places
      BY <3>1
    <3> QED  BY <2>4, <3>1, <3>2
  <2> HIDE DEF d, out, places
  <2>6. model'.photos = Keep(s, places) /\ model'.data = d
    BY <2>3 DEF Becomes
  <2>7. p \in Shown => p \in Shown'
    BY <2>2, <2>5, <2>6, ShownIsRange
  <2> QED  BY <1>7, <2>1, <2>2, <2>6, <2>7 DEF Mentions, Answers
<1>11. CASE ListCame(e)
  <2>1. e.kind = "list" /\ model' = FetchedPhotos(model, e.photos)
    BY <1>11 DEF ListCame
  <2>2. e.photos \in Seq(Photos)
    BY <1>4, <2>1, EventFields DEF DifferentPhotos
  <2>3. /\ model'.photos = e.photos
        /\ DOMAIN model'.data \subseteq DOMAIN model.data
        /\ DOMAIN model'.data \cap Range(model.photos) \subseteq Range(e.photos)
        /\ \A q \in DOMAIN model'.data : model'.data[q] = model.data[q]
    BY <1>1, <2>1, <2>2, FetchedPhotosProperties
  <2>4. p \in Shown => p \in Shown'
    BY <2>3, ShownIsRange
  <2> QED  BY <1>7, <2>1, <2>3, <2>4 DEF Mentions, Answers
<1>12. CASE DetailsCame(e)
  <2>1. e.kind = "details" /\ model' = FetchedPhotoProperties(model, e.photo, e.details)
    BY <1>12 DEF DetailsCame
  <2>2. /\ model'.photos = model.photos
        /\ e.photo \notin DOMAIN model.rows => model'.data = model.data
        /\ e.photo \in DOMAIN model.rows =>
              /\ DOMAIN model'.data = DOMAIN model.data \cup {e.photo}
              /\ \A q \in DOMAIN model.data : q # e.photo => model'.data[q] = model.data[q]
              /\ model'.data[e.photo] = e.details
    BY <1>1, <2>1, FetchedPropertiesProperties
  <2>3. p \in Shown => p \in Shown'
    BY <2>2, ShownIsRange
  <2>4. ~ Mentions(e, p)
    BY <2>1 DEF Mentions
  <2>5. CASE p = e.photo /\ p \in DOMAIN model.rows
    <3>1. 1 \in DOMAIN events /\ events[1] = e
      BY <1>1, <1>2
    <3>2. Answers(events[1], p)
      BY <2>1, <2>5, <3>1 DEF Answers
    <3>3. e.details = Details(p) \/ \E x \in After(events, 1) : Mentions(x, p)
      BY <3>1, <3>2 DEF Fresh, AnswersFresh
    <3> QED  BY <1>4, <1>5, <2>2, <2>5, <3>3 DEF FreshData
  <2>6. CASE p = e.photo /\ p \notin DOMAIN model.rows
    <3>1. p \notin Shown
      BY <1>1, <2>6, ShownIsRange
    <3> QED  BY <1>7, <2>2, <2>3, <2>4, <2>6, <3>1
  <2>7. CASE p # e.photo
    <3>1. ~ Answers(e, p)
      BY <2>7 DEF Answers
    <3>2. p \in DOMAIN model.data /\ model'.data[p] = model.data[p]
      BY <2>2, <2>7
    <3> QED  BY <1>7, <2>3, <2>4, <3>1, <3>2
  <2> QED  BY <2>5, <2>6, <2>7
<1>13. CASE PhotosAdded(e) \/ SetAvailableDates(e) \/ FiltersCame(e)
  BY <1>8, <1>13 DEF PhotosAdded, SetAvailableDates, FiltersCame
<1> QED  BY <1>9, <1>10, <1>11, <1>12, <1>13 DEF Deliver

\* The GUI keeps the data fresh.
LEMMA FreshGui ==
    ASSUME Typed, Fresh, Gui
    PROVE  Fresh'
<1>1. QueuesTyped /\ ModelTyped /\ IsModel(model) /\ tasks \in Seq(TaskSet)
  BY DEF Typed, ModelTyped, QueuesTyped
<1>2. UNCHANGED dbVars
  BY <1>1, GuiAppends
<1>3. PICK xs : Appended(xs)
  BY <1>1, GuiAppends
<1>4. Range(tasks') = Range(tasks) \cup Range(xs)
  BY <1>1, <1>3, QueueGrows DEF Appended
<1>5. Live' = Live /\ \A p : Details(p)' = Details(p)
  BY <1>2 DEF dbVars, Live, Stored, Details
<1>6. ASSUME events' = events  PROVE AnswersFresh'
  BY <1>1, <1>2, <1>6, AnswersFreshGui DEF Fresh
<1>7. CASE UNCHANGED <<model, events, opened, crashed>>
  <2>1. ASSUME NEW p, FreshData(p)  PROVE FreshData(p)'
    BY <1>2, <1>4, <1>7, <2>1, FreshDataKept, ShownIsRange
  <2>2. KeptFresh'
    BY <1>5, <1>7, <2>1 DEF Fresh, KeptFresh
  <2> QED  BY <1>6, <1>7, <2>2 DEF Fresh
<1>8. CASE CloseProject /\ events' = events
  <2>1. KeptFresh'
    BY <1>8 DEF CloseProject, KeptFresh
  <2> QED  BY <1>6, <1>8, <2>1 DEF Fresh
<1>9. CASE ShowRow
  <2>1. PICK p \in ToSet(model.photos) :
           /\ Asks(model, p)
           /\ model' = PhotoData(model, p)
           /\ IF opened THEN Exec([kind |-> "details", photo |-> p]) /\ UNCHANGED crashed
                        ELSE crashed' = TRUE /\ UNCHANGED tasks
    BY <1>9 DEF ShowRow
  <2>2. UNCHANGED <<opened, events>> /\ p \in Shown
    BY <1>9 DEF ShowRow, Shown
  <2>3. /\ model'.photos = model.photos /\ DOMAIN model'.data = DOMAIN model.data \cup {p}
        /\ \A q \in DOMAIN model.data : q # p /\ model'.data[q] = model.data[q]
    BY <1>1, <2>1, PhotoDataProperties
  <2>4. Shown' = Shown
    BY <2>3, ShownIsRange
  <2>5. ASSUME NEW q, FreshData(q), q \in DOMAIN model.data  PROVE FreshData(q)'
    BY <1>2, <1>4, <2>2, <2>3, <2>4, <2>5, FreshDataKept
  <2>6. ASSUME opened', ~ crashed'  PROVE FreshData(p)'
    <3> DEFINE t == [kind |-> "details", photo |-> p]
    <3>1. t.kind = "details" /\ t.photo = p
      OBVIOUS
    <3>2. tasks' = Append(tasks, t)
      BY <2>1, <2>2, <2>6 DEF Exec
    <3> HIDE DEF t
    <3>3. t \in Range(tasks')
      BY <1>1, <3>2, RangeOfAppend
    <3> QED  BY <2>2, <2>4, <3>1, <3>3 DEF FreshData, Answers
  <2>7. KeptFresh'
    <3> SUFFICES ASSUME opened', ~ crashed', NEW q \in DOMAIN model'.data, q \in Live
                 PROVE  FreshData(q)'
      BY <1>5 DEF KeptFresh
    <3>1. opened /\ ~ crashed
      BY <2>1, <2>2
    <3>2. CASE q = p
      BY <2>6, <3>2
    <3>3. CASE q \in DOMAIN model.data
      <4>1. FreshData(q)
        BY <3>1, <3>3 DEF Fresh, KeptFresh
      <4> QED  BY <2>5, <3>3, <4>1
    <3> QED  BY <2>3, <3>2, <3>3
  <2> QED  BY <1>6, <2>2, <2>7 DEF Fresh
<1>10. CASE Deliver
  BY <1>2, <1>4, <1>10, FreshDeliver
<1>11. CASE Control
  BY <1>7, <1>8, <1>11 DEF Control
<1>12. CASE SearchTimeout \/ Request
  BY <1>7, <1>12 DEF SearchTimeout, Request, viewVars
<1> QED  BY <1>9, <1>10, <1>11, <1>12 DEF Gui

\* The database's thread signals what it changes, and answers who asks.
LEMMA FreshPerform ==
    ASSUME Typed, Queued, Fresh, Perform
    PROVE  Fresh'
<1>1. /\ QueuesTyped /\ CollectionTyped /\ RemoveStored /\ AllNamed
      /\ tasks \in Seq(TaskSet) /\ events \in Seq(EventSet)
  BY DEF Typed, Queued, QueuesTyped
<1>2. PICK es : Served(es)
  BY <1>1, PerformServed DEF RemoveStored
<1>3. QueuesServed(es) /\ NamesKept /\ DetailsKept(es) /\ DetailsServed(es)
  BY <1>2 DEF Served
<1>4. es \in Seq(EventSet) /\ events' = events \o es
  BY <1>3 DEF QueuesServed
<1>5. /\ Range(events') = Range(events) \cup Range(es)
      /\ \A i \in 0 .. Len(events) : After(events', i) = After(events, i) \cup Range(es)
      /\ \A i \in DOMAIN events' : \/ i \in DOMAIN events /\ i \in 0 .. Len(events) /\ events'[i] = events[i]
                                   \/ events'[i] \in Range(es)
  BY <1>1, <1>4, QueueGrows
<1>6. tasks # <<>> /\ UNCHANGED <<model, opened, crashed>>
  BY DEF Perform, viewVars
<1>7. Range(tasks) = {Head(tasks)} \cup After(tasks, 1) /\ After(tasks, 1) \subseteq Range(tasks')
  BY <1>1, <1>3, <1>6, QueueParts DEF QueuesServed
<1>8. \A p \in Live' \cap Named : p \in Live /\ p \in Stored /\ p \in Stored'
  BY <1>3 DEF Live, Named, NamesKept
<1>9. \A p \in Live' \cap Named : Details(p)' = Details(p) \/ \E e \in Range(es) : Mentions(e, p)
  BY <1>3, <1>8 DEF DetailsKept
<1>10. KeptFresh'
  <2> SUFFICES ASSUME opened', ~ crashed', NEW p \in DOMAIN model'.data, p \in Live'
               PROVE  FreshData(p)'
    BY DEF KeptFresh
  <2>1. p \in Named /\ FreshData(p)
    <3>1. p \in DOMAIN model.data
      BY <1>6
    <3>2. p \in Named
      BY <1>1, <3>1 DEF AllNamed
    <3>3. p \in Live
      BY <1>8, <3>2
    <3> QED  BY <1>6, <3>1, <3>2, <3>3 DEF Fresh, KeptFresh
  <2>2. model'.data[p] = model.data[p] /\ Shown' = Shown
    BY <1>6, ShownIsRange
  <2>3. CASE model.data[p] = Details(p)
    BY <1>5, <1>9, <2>1, <2>2, <2>3 DEF FreshData
  <2>4. CASE \E e \in Range(events) : Mentions(e, p)
    BY <1>5, <2>4 DEF FreshData
  <2>5. CASE p \in Shown /\ \E t \in Range(tasks) : Answers(t, p)
    <3>1. PICK t \in Range(tasks) : Answers(t, p)
      BY <2>5
    <3>2. CASE t = Head(tasks)
      <4>1. \E e \in Range(es) : Answers(e, p)
        BY <1>3, <3>1, <3>2 DEF DetailsServed, Answers
      <4> QED  BY <1>5, <2>2, <2>5, <4>1 DEF FreshData
    <3>3. CASE t \in After(tasks, 1)
      BY <1>7, <2>2, <2>5, <3>1, <3>3 DEF FreshData
    <3> QED  BY <1>7, <3>2, <3>3
  <2>6. CASE p \in Shown /\ \E e \in Range(events) : Answers(e, p)
    BY <1>5, <2>2, <2>6 DEF FreshData
  <2> QED  BY <2>1, <2>3, <2>4, <2>5, <2>6 DEF FreshData
<1>11. AnswersFresh'
  <2> SUFFICES ASSUME NEW i \in DOMAIN events', NEW p \in Live', Answers(events'[i], p)
               PROVE  events'[i].details = Details(p)' \/ \E e \in After(events', i) : Mentions(e, p)
    BY DEF AnswersFresh
  <2>1. CASE i \in DOMAIN events /\ i \in 0 .. Len(events) /\ events'[i] = events[i]
    <3>1. p \in Named
      <4>1. events[i] \in Range(events)
        BY <2>1 DEF Range
      <4> QED  BY <1>1, <2>1, <4>1 DEF AllNamed, Answers
    <3>2. events[i].details = Details(p) \/ \E e \in After(events, i) : Mentions(e, p)
      BY <1>8, <2>1, <3>1 DEF Fresh, AnswersFresh
    <3>3. After(events', i) = After(events, i) \cup Range(es)
      BY <1>5, <2>1
    <3> QED  BY <1>9, <2>1, <3>1, <3>2, <3>3
  <2>2. CASE events'[i] \in Range(es)
    <3> DEFINE e == events'[i]
    <3>1. PICK f \in Range(es) : f = e
      BY <2>2
    <3>2. f.details = Details(f.photo)' /\ f.photo = p
      BY <1>3, <3>1 DEF DetailsServed, Answers
    <3>3. f.details = Details(p)'
      BY <3>2
    <3> QED  BY <3>1, <3>3
  <2> QED  BY <1>5, <2>1, <2>2
<1> QED  BY <1>10, <1>11 DEF Fresh

\* Every step keeps the data fresh.
LEMMA FreshStep == Typed /\ Queued /\ Fresh /\ [Next]_vars => Fresh'
<1> SUFFICES ASSUME Typed, Queued, Fresh, [Next]_vars  PROVE Fresh'
  OBVIOUS
<1>1. CASE UNCHANGED vars
  <2>1. UNCHANGED <<collection, buried, opened, crashed, model, events, tasks>>
    BY <1>1 DEF vars, dbVars, viewVars
  <2>2. Live' = Live /\ Shown' = Shown /\ \A p : Details(p)' = Details(p)
    BY <2>1 DEF Live, Stored, Shown, Details
  <2> QED  BY <2>1, <2>2 DEF Fresh, KeptFresh, AnswersFresh, FreshData
<1> QED  BY <1>1, FreshPerform, FreshGui DEF Next, Gui

\* The queues are always in order.
LEMMA AlwaysQueued == Spec => []Queued
BY AlwaysTyped, QueuedInit, QueuedStep, PTL DEF Spec

\* photoData() and invalidatePhotos(): once both queues are empty, the details the
\* view keeps are those of the database, and none that it asked for is missing,
\* for any collection, requests and controls.
THEOREM DetailsAlwaysFresh == Spec => []FreshDetails
<1>1. Fresh => FreshDetails
  <2> SUFFICES ASSUME Fresh, Quiet, opened, ~ crashed,
                      NEW p \in (Shown \cap DOMAIN model.data \cap Stored) \ buried
               PROVE  model.data[p] = Details(p)
    BY DEF FreshDetails
  <2>1. FreshData(p)
    BY DEF Fresh, KeptFresh, Live
  <2>2. Range(tasks) = {} /\ Range(events) = {}
    BY ShortQueues DEF Quiet
  <2> QED  BY <2>1, <2>2 DEF FreshData
<1>2. Spec => []Fresh
  BY AlwaysTyped, AlwaysQueued, FreshInit, FreshStep, PTL DEF Spec
<1> QED  BY <1>1, <1>2, PTL

-----------------------------------------------------------------------------
(* What the view shows is told right *)

\* A list will be asked for: by a task, or once an event is handled.
Pending ==
    \/ \E t \in Range(tasks) : t.kind = "list"
    \/ \E e \in Range(events) : AsksAgain(e)

\* Photos that are shown, but for those the events are about to drop, are the
\* photos that belong into the view.
Told(shown, es) ==
    \A p \in Photos \ touched : (p \in shown /\ ~ \E e \in es : Drops(e, p)) <=> Belongs(p)

\* Without a list on its way, the rows are told right ...
ShownTold ==
    (\A e \in Range(events) : e.kind # "list") /\ Len(gone) <= 1 => Told(Shown, Range(events))

\* ... else the last list is.
ListsTold ==
    \A i \in DOMAIN events :
        events[i].kind = "list" /\ (\A e \in After(events, i) : e.kind # "list")
            => Told(Range(events[i].photos), After(events, i))

Tells == opened /\ ~ crashed /\ ~ Pending => ShownTold /\ ListsTold

\* The members of a group join only when the list is to be made anew: its
\* representative was added.
JoinTold ==
    opened /\ (\E t \in Range(tasks) : t.kind \in {"create", "join"})
        => \/ \E t \in Range(tasks) : t.kind = "list"
           \/ \E e \in Range(events) : e.kind = "added"

Telling == Tells /\ JoinTold

\* The program starts with a list to be made.
LEMMA TellingInit == Init => Telling
<1> SUFFICES ASSUME Init  PROVE Telling
  OBVIOUS
<1> DEFINE a == Task("list")
           b == Task("dates")
<1>1. a.kind = "list" /\ b.kind = "dates"
  BY TasksMade
<1>2. tasks = <<a, b>>
  BY DEF Init
<1> HIDE DEF a, b
<1>3. Range(tasks) = {a, b}
  BY <1>2, ShortQueues
<1> QED  BY <1>1, <1>3 DEF Telling, Tells, Pending, JoinTold

\* The GUI sends no step of a group.
LEMMA JoinToldKept ==
    ASSUME QueuesTyped, JoinTold, NEW xs, Appended(xs), opened' => opened,
           \/ \A e \in Range(events) : e.kind = "added" => e \in Range(events')
           \/ \E t \in Range(tasks') : t.kind = "list"
    PROVE  JoinTold'
<1>1. Range(tasks') = Range(tasks) \cup Range(xs)
  BY QueueGrows DEF QueuesTyped, Appended
<1>2. \A t \in Range(xs) : t.kind \notin {"create", "join"}
  BY DEF Appended, IsSent, Steps
<1>3. CASE \E t \in Range(tasks') : t.kind = "list"
  BY <1>3 DEF JoinTold
<1>4. CASE \A e \in Range(events) : e.kind = "added" => e \in Range(events')
  BY <1>1, <1>2, <1>4 DEF JoinTold
<1> QED  BY <1>3, <1>4

\* The GUI does nothing to the rows, to the events and to the filter.
LEMMA TellsKept ==
    ASSUME Tells, UNCHANGED <<dbVars, filter, events, gone>>, opened' => opened, ~ crashed' => ~ crashed,
           Shown' = Shown, Range(tasks) \subseteq Range(tasks')
    PROVE  Tells'
<1> SUFFICES ASSUME opened', ~ crashed', ~ Pending'  PROVE ShownTold' /\ ListsTold'
  BY DEF Tells
<1>1. ~ Pending
  BY DEF Pending
<1>2. ShownTold /\ ListsTold
  BY <1>1 DEF Tells
<1>3. Told(Shown, Range(events))' <=> Told(Shown, Range(events))
  BY DEF Told, dbVars, Belongs, Stored
<1>4. ShownTold'
  BY <1>2, <1>3 DEF ShownTold
<1>5. ListsTold'
  <2> SUFFICES ASSUME NEW i \in DOMAIN events,
                      events[i].kind = "list", \A e \in After(events, i) : e.kind # "list"
               PROVE  Told(Range(events[i].photos), After(events, i))'
    BY DEF ListsTold
  <2>1. Told(Range(events[i].photos), After(events, i))
    BY <1>2 DEF ListsTold
  <2>2. (Range(events[i].photos))' = Range(events[i].photos) /\ (After(events, i))' = After(events, i)
    OBVIOUS
  <2> QED  BY <2>1, <2>2 DEF Told, dbVars, Belongs, Stored
<1> QED  BY <1>4, <1>5

\* A list that is asked for tells all.
LEMMA ListAskedFor ==
    ASSUME opened' => \E t \in Range(tasks') : t.kind = "list"
    PROVE  Telling'
BY DEF Telling, Tells, JoinTold, Pending

\* The first removal takes the rows of the photos that are removed, and a removal
\* of nothing takes none.
LEMMA RemovalShown ==
    ASSUME ModelTyped, IndexExact, NEW ids, model' = RemovePhotos(model, ids),
           ids # {} => gone = <<>>
    PROVE  Shown' = Shown \ ids
<1> DEFINE s == model.photos
           rows == RowsOfIds(model, ids)
           places == DOMAIN s \ rows
           out == {s[r] : r \in rows \cap DOMAIN s}
           d == Restrict(model.data, DOMAIN model.data \ out)
<1>1. IsModel(model) /\ s \in Seq(Photos) /\ IsInjective(s)
  BY DEF ModelTyped, DifferentPhotos
<1>2. Becomes(model', Keep(s, places), model.rows, d)
  BY <1>1, RemovePhotosProperties
<1>3. places = {i \in DOMAIN s : s[i] \notin ids}
  <2>1. CASE ids = {}
    BY <2>1 DEF RowsOfIds
  <2>2. CASE ids # {}
    <3>1. rows = {i \in DOMAIN s : s[i] \in ids}
      BY <2>2, ExactRowsOfIds
    <3> QED  BY <3>1
  <2> QED  BY <2>1, <2>2
<1> HIDE DEF s, places, d
<1>4. Range(Keep(s, places)) = {s[i] : i \in places \cap DOMAIN s}
  BY <1>1, KeepProperties
<1>5. {s[i] : i \in places \cap DOMAIN s} = Range(s) \ ids
  <2>1. ASSUME NEW p \in Range(s) \ ids  PROVE p \in {s[i] : i \in places \cap DOMAIN s}
    <3>1. PICK i \in DOMAIN s : s[i] = p
      BY DEF Range
    <3> QED  BY <1>3, <3>1
  <2>2. ASSUME NEW i \in places \cap DOMAIN s  PROVE s[i] \in Range(s) \ ids
    BY <1>3 DEF Range
  <2> QED  BY <2>1, <2>2
<1>6. model'.photos = Keep(s, places)
  BY <1>2 DEF Becomes
<1> QED  BY <1>4, <1>5, <1>6, ShownIsRange DEF s

\* An event is handled.
LEMMA TellingDeliver ==
    ASSUME Typed, Exact, Telling, Deliver, UNCHANGED dbVars, NEW xs, Appended(xs)
    PROVE  Telling'
<1> DEFINE e == Head(events)
<1>1. /\ ModelTyped /\ IsModel(model) /\ model.photos \in Seq(Photos)
      /\ events \in Seq(EventSet) /\ QueuesTyped /\ tasks \in Seq(TaskSet)
  BY DEF Typed, ModelTyped, DifferentPhotos, QueuesTyped
<1>2. events # <<>> /\ events' = Tail(events) /\ opened' = opened /\ ~ crashed
  BY DEF Deliver, Responsive
<1>3. /\ e \in EventSet
      /\ Range(events) = {e} \cup Range(events') /\ Range(events') = After(events, 1)
      /\ \A i \in Nat : After(events', i) = After(events, i + 1)
  BY <1>1, <1>2, QueueProperties, QueueParts
<1>4. Range(tasks') = Range(tasks) \cup Range(xs)
  BY <1>1, QueueGrows DEF Appended
<1>5. touched' = touched /\ \A p : filter' = filter => (Belongs(p)' <=> Belongs(p))
  BY DEF dbVars, Belongs, Stored
<1>6. CASE PhotosAdded(e)
  <2>1. ASSUME opened  PROVE \E t \in Range(tasks') : t.kind = "list"
    <3> DEFINE a == Task("list")
               b == Task("dates")
               ab == <<a, b>>
    <3>1. a \in TaskSet /\ b \in TaskSet /\ a.kind = "list"
      BY TasksMade
    <3>2. tasks' = tasks \o ab
      BY <1>6, <2>1 DEF PhotosAdded
    <3> HIDE DEF a, b
    <3>3. ab \in Seq(TaskSet) /\ Range(ab) = {a, b}
      BY <3>1, ShortQueues
    <3> HIDE DEF ab
    <3>4. a \in Range(tasks')
      BY <1>1, <3>2, <3>3, QueueGrows
    <3> QED  BY <3>1, <3>4
  <2> QED  BY <1>2, <2>1, ListAskedFor
<1>7. CASE FiltersCame(e)
  <2>1. ASSUME opened  PROVE \E t \in Range(tasks') : t.kind = "list"
    <3>1. tasks' = Append(tasks, Task("list"))
      BY <1>7, <2>1 DEF FiltersCame, UpdateModelFilters, UpdatePhotos, Exec
    <3>2. Task("list") \in Range(tasks')
      BY <1>1, <3>1, RangeOfAppend
    <3> QED  BY <3>2, PlainTasksSent
  <2> QED  BY <1>2, <2>1, ListAskedFor
<1>8. ASSUME ~ AsksAgain(e), filter' = filter, ~ Pending', opened', ~ crashed'
      PROVE  ShownTold /\ ListsTold' /\ ListsTold
  <2>1. ~ Pending
    BY <1>3, <1>4, <1>8 DEF Pending
  <2>2. ShownTold /\ ListsTold
    BY <1>2, <1>8, <2>1 DEF Telling, Tells
  <2>3. \A i \in DOMAIN events' : i \in Nat /\ i + 1 \in DOMAIN events /\ events'[i] = events[i + 1]
    BY <1>1, <1>2
  <2>4. ListsTold'
    <3> SUFFICES ASSUME NEW i \in DOMAIN events', events'[i].kind = "list",
                        \A x \in After(events', i) : x.kind # "list"
                 PROVE  Told(Range(events[i].photos), After(events, i))'
      BY DEF ListsTold
    <3>1. /\ i + 1 \in DOMAIN events /\ events'[i] = events[i + 1]
          /\ After(events', i) = After(events, i + 1)
      BY <1>3, <2>3
    <3>2. Told(Range(events[i + 1].photos), After(events, i + 1))
      BY <2>2, <3>1 DEF ListsTold
    <3>3. \A p \in Photos \ touched :
             (p \in Range(events'[i].photos) /\ ~ \E x \in After(events', i) : Drops(x, p)) <=> Belongs(p)
      BY <3>1, <3>2 DEF Told
    <3> QED  BY <1>5, <1>8, <3>3 DEF Told
  <2> QED  BY <2>2, <2>4
<1>9. ASSUME ~ AsksAgain(e), filter' = filter,
             ASSUME ShownTold, ListsTold, ~ Pending', \A x \in Range(events') : x.kind # "list", Len(gone') <= 1
             PROVE  \A p \in Photos \ touched :
                       (p \in Shown' /\ ~ \E x \in Range(events') : Drops(x, p)) <=> Belongs(p)
      PROVE  Telling'
  <2>1. JoinTold'
    <3>1. \A x \in Range(events) : x.kind = "added" => x \in Range(events')
      BY <1>3, <1>9 DEF AsksAgain
    <3> QED  BY <1>1, <1>2, <3>1, JoinToldKept DEF Telling
  <2>2. Tells'
    <3> SUFFICES ASSUME opened', ~ crashed', ~ Pending'  PROVE ShownTold' /\ ListsTold'
      BY DEF Tells
    <3>1. ShownTold /\ ListsTold' /\ ListsTold
      BY <1>8, <1>9
    <3>2. ShownTold'
      <4> SUFFICES ASSUME \A x \in Range(events') : x.kind # "list", Len(gone') <= 1
                   PROVE  Told(Shown, Range(events))'
        BY DEF ShownTold
      <4>1. \A p \in Photos \ touched :
                       (p \in Shown' /\ ~ \E x \in Range(events') : Drops(x, p)) <=> Belongs(p)
        BY <1>9, <3>1
      <4> QED  BY <1>5, <1>9, <4>1 DEF Told
    <3> QED  BY <3>1, <3>2
  <2> QED  BY <2>1, <2>2 DEF Telling
<1>10. ASSUME e.kind \in {"modified", "details", "dates"}, filter' = filter, Shown' = Shown, gone' = gone
       PROVE  Telling'
  <2>1. ~ AsksAgain(e) /\ \A p : ~ Drops(e, p)
    BY <1>10 DEF AsksAgain, Drops
  <2>2. ASSUME ShownTold, \A x \in Range(events') : x.kind # "list", Len(gone') <= 1
        PROVE  \A p \in Photos \ touched :
                  (p \in Shown' /\ ~ \E x \in Range(events') : Drops(x, p)) <=> Belongs(p)
    BY <1>3, <1>10, <2>1, <2>2 DEF ShownTold, Told
  <2> QED  BY <1>9, <1>10, <2>1, <2>2
<1>11. CASE PhotosModified(e)
  <2> DEFINE d == Restrict(model.data, DOMAIN model.data \ e.ids)
  <2>1. /\ e.kind = "modified" /\ model' = Without(model, e.ids)
        /\ UNCHANGED <<filter, gone>>
    BY <1>11 DEF PhotosModified, InvalidatePhotos
  <2>2. Becomes(model', model.photos, model.rows, d)
    BY <1>1, <2>1, WithoutProperties
  <2> HIDE DEF d
  <2>3. Shown' = Shown
    BY <2>2, ShownIsRange DEF Becomes
  <2> QED  BY <1>10, <2>1, <2>3
<1>12. CASE DetailsCame(e)
  <2>1. /\ e.kind = "details" /\ model' = FetchedPhotoProperties(model, e.photo, e.details)
        /\ UNCHANGED <<filter, gone>>
    BY <1>12 DEF DetailsCame
  <2>2. Shown' = Shown
    BY <1>1, <2>1, FetchedPropertiesProperties, ShownIsRange
  <2> QED  BY <1>10, <2>1, <2>2
<1>13. CASE SetAvailableDates(e)
  <2>1. e.kind = "dates" /\ UNCHANGED <<filter, gone, model>>
    BY <1>13 DEF SetAvailableDates
  <2>2. Shown' = Shown
    BY <2>1, ShownIsRange
  <2> QED  BY <1>10, <2>1, <2>2
<1>14. CASE ListCame(e)
  <2>1. e.kind = "list" /\ model' = FetchedPhotos(model, e.photos) /\ filter' = filter
    BY <1>14 DEF ListCame
  <2>2. e.photos \in Seq(Photos)
    BY <1>3, <2>1, EventFields DEF DifferentPhotos
  <2>3. Shown' = Range(e.photos)
    BY <1>1, <2>1, <2>2, FetchedPhotosProperties, ShownIsRange
  <2>4. ~ AsksAgain(e)
    BY <2>1 DEF AsksAgain
  <2>5. ASSUME ListsTold, \A x \in Range(events') : x.kind # "list"
        PROVE  \A p \in Photos \ touched :
                  (p \in Shown' /\ ~ \E x \in Range(events') : Drops(x, p)) <=> Belongs(p)
    <3>1. 1 \in DOMAIN events /\ events[1] = e
      BY <1>1, <1>2
    <3>2. Told(Range(e.photos), After(events, 1))
      BY <1>3, <2>1, <2>5, <3>1 DEF ListsTold
    <3> QED  BY <1>3, <2>3, <3>2 DEF Told
  <2> QED  BY <1>9, <2>1, <2>4, <2>5
<1>15. CASE PhotosRemoved(e)
  <2>1. /\ e.kind = "removed" /\ model' = RemovePhotos(model, e.ids) /\ filter' = filter
        /\ gone' = IF e.ids = {} THEN gone ELSE Append(gone, e.ids)
    BY <1>15 DEF PhotosRemoved
  <2>2. ~ AsksAgain(e) /\ \A p : Drops(e, p) <=> p \in e.ids
    BY <2>1 DEF AsksAgain, Drops
  <2>3. e.ids \in SUBSET Photos
    BY <1>3, <2>1, EventFields
  <2>4. gone \in Seq(SUBSET Photos) /\ IndexExact
    BY DEF Exact, HistoryTyped
  <2>5. ASSUME ShownTold, \A x \in Range(events') : x.kind # "list", Len(gone') <= 1
        PROVE  \A p \in Photos \ touched :
                  (p \in Shown' /\ ~ \E x \in Range(events') : Drops(x, p)) <=> Belongs(p)
    <3>1. Len(gone) <= 1 /\ (e.ids # {} => gone = <<>>)
      <4>1. CASE e.ids = {}
        BY <2>1, <2>5, <4>1
      <4>2. CASE e.ids # {}
        <5>1. gone' = Append(gone, e.ids) /\ Len(gone') = Len(gone) + 1 /\ Len(gone) \in Nat
          BY <2>1, <2>3, <2>4, <4>2
        <5>2. Len(gone) = 0
          BY <2>5, <5>1
        <5> QED  BY <2>4, <5>2
      <4> QED  BY <4>1, <4>2
    <3>2. Shown' = Shown \ e.ids
      BY <1>1, <2>1, <2>4, <3>1, RemovalShown
    <3>3. \A x \in Range(events) : x.kind # "list"
      BY <1>3, <2>1, <2>5
    <3>4. Told(Shown, Range(events))
      BY <2>5, <3>1, <3>3 DEF ShownTold
    <3>5. \A p : (p \in Shown' /\ ~ \E x \in Range(events') : Drops(x, p))
                 <=> (p \in Shown /\ ~ \E x \in Range(events) : Drops(x, p))
      BY <1>3, <2>2, <3>2
    <3> QED  BY <3>4, <3>5 DEF Told
  <2> QED  BY <1>9, <2>1, <2>2, <2>5
<1> QED  BY <1>6, <1>7, <1>11, <1>12, <1>13, <1>14, <1>15 DEF Deliver

\* The GUI asks for a new list whenever it changes what the view ought to show.
LEMMA TellingGui ==
    ASSUME Typed, Exact, Telling, Gui
    PROVE  Telling'
<1>1. /\ ModelTyped /\ IsModel(model) /\ QueuesTyped /\ tasks \in Seq(TaskSet)
      /\ Tells /\ JoinTold
  BY DEF Typed, ModelTyped, QueuesTyped, Telling
<1>2. UNCHANGED dbVars
  BY <1>1, GuiAppends
<1>3. PICK xs : Appended(xs)
  BY <1>1, GuiAppends
<1>4. Range(tasks') = Range(tasks) \cup Range(xs)
  BY <1>1, <1>3, QueueGrows DEF Appended
<1>5. CASE UpdateModelFilters /\ opened' = opened
  <2>1. ASSUME opened  PROVE \E t \in Range(tasks') : t.kind = "list"
    <3>1. tasks' = Append(tasks, Task("list"))
      BY <1>5, <2>1 DEF UpdateModelFilters, UpdatePhotos, Exec
    <3>2. Task("list") \in Range(tasks')
      BY <1>1, <3>1, RangeOfAppend
    <3> QED  BY <3>2, PlainTasksSent
  <2> QED  BY <1>5, <2>1, ListAskedFor
<1>6. ASSUME UNCHANGED <<filter, events, gone>>, opened' = opened, ~ crashed' => ~ crashed, Shown' = Shown
      PROVE  Telling'
  <2>1. Tells'
    BY <1>1, <1>2, <1>4, <1>6, TellsKept
  <2>2. JoinTold'
    BY <1>1, <1>3, <1>6, JoinToldKept
  <2> QED  BY <2>1, <2>2 DEF Telling
<1>7. CASE Control
  <2>1. CASE (SetTimeView \/ SetNewPhotosOnly) /\ opened' = opened
    <3>1. UpdateModelFilters
      BY <2>1 DEF SetTimeView, SetNewPhotosOnly
    <3> QED  BY <1>5, <2>1, <3>1
  <2>2. CASE (SetSearchExpression \/ MarkNewAsReviewed) /\ UNCHANGED <<opened, model, listed, gone>>
    <3>1. UNCHANGED <<filter, events, gone, crashed, opened, model>>
      BY <1>7, <2>2 DEF Control, SetSearchExpression, MarkNewAsReviewed
    <3> QED  BY <1>6, <3>1, ShownIsRange
  <2>3. CASE CloseProject
    <3>1. ~ opened'
      BY <2>3 DEF CloseProject
    <3> QED  BY <3>1, ListAskedFor
  <2> QED  BY <1>7, <2>1, <2>2, <2>3 DEF Control
<1>8. CASE SearchTimeout
  BY <1>5, <1>8 DEF SearchTimeout
<1>9. CASE ShowRow
  <2>1. PICK p \in ToSet(model.photos) :
           Asks(model, p) /\ model' = PhotoData(model, p) /\ (~ crashed' => ~ crashed)
    BY <1>9 DEF ShowRow
  <2>2. model'.photos = model.photos
    BY <1>1, <2>1, PhotoDataProperties
  <2>3. UNCHANGED <<filter, events, gone, opened>>
    BY <1>9 DEF ShowRow
  <2> QED  BY <1>6, <2>1, <2>2, <2>3, ShownIsRange
<1>10. CASE Request
  <2>1. UNCHANGED <<filter, events, gone, crashed, opened, model>>
    BY <1>10 DEF Request, viewVars
  <2> QED  BY <1>6, <2>1, ShownIsRange
<1>11. CASE Deliver
  BY <1>2, <1>3, <1>11, TellingDeliver
<1> QED  BY <1>7, <1>8, <1>9, <1>10, <1>11 DEF Gui

\* The list that is made is right.
LEMMA ListMade ==
    ASSUME Typed, InHand, Telling, Perform, NEW es, Served(es), Head(tasks).kind = "list"
    PROVE  Telling'
<1> DEFINE l == [kind |-> "list", photos |-> OnPhotos(filter)]
<1>1. /\ CollectionTyped /\ tasks \in Seq(TaskSet) /\ events \in Seq(EventSet)
      /\ UNCHANGED <<filter, opened, crashed, model, gone>>
  BY DEF Typed, QueuesTyped, Perform, viewVars
<1>2. /\ QueuesServed(es) /\ es \in Seq(EventSet) /\ events' = events \o es
      /\ touched' = {} /\ collection' = collection
      /\ es = <<l>>
  BY DEF Served, ListServed, QueuesServed
<1>3. l.kind = "list" /\ l.photos = OnPhotos(filter) /\ Range(es) = {l}
  BY <1>2, ShortQueues
<1>4. Range(l.photos) = {p \in Stored : Matches(collection[p], filter)}
  BY <1>1, <1>3, OnPhotosProperties
<1>5. Len(es) = 1
  BY <1>2
<1> HIDE DEF l
<1>6. /\ Range(events') = Range(events) \cup {l}
      /\ \A i \in 0 .. Len(events) : After(events', i) = After(events, i) \cup {l}
  <2>1. /\ Range(events \o es) = Range(events) \cup Range(es)
        /\ \A i \in 0 .. Len(events) : After(events \o es, i) = After(events, i) \cup Range(es)
    <3>1. es \in Seq(EventSet) /\ events \in Seq(EventSet)
      BY <1>1, <1>2
    <3> QED  BY <3>1, QueueGrows
  <2>2. events' = events \o es
    BY <1>2
  <2> QED  BY <1>3, <2>1, <2>2
<1>7. JoinTold'
  <2> SUFFICES ASSUME NEW t \in Range(tasks'), t.kind \in {"create", "join"}  PROVE FALSE
    BY DEF JoinTold
  <2>1. CASE t \in After(tasks, 1)
    BY <2>1 DEF InHand, Steps
  <2>2. CASE GoesOn(t, es)
    <3>1. \A e \in Range(es) : e.kind # "added"
      BY <1>3
    <3> QED  BY <2>2, <3>1 DEF GoesOn
  <2> QED  BY <1>2, <2>1, <2>2 DEF QueuesServed
<1>8. ShownTold'
  <2>1. l \in Range(events')
    BY <1>6
  <2> QED  BY <1>3, <2>1 DEF ShownTold
<1>9. ListsTold'
  <2> SUFFICES ASSUME NEW i \in DOMAIN events', \A e \in After(events', i) : e.kind # "list"
               PROVE  Told(Range(events[i].photos), After(events, i))'
    BY DEF ListsTold
  <2>1. i \notin 0 .. Len(events)
    BY <1>3, <1>6
  <2>2. i = Len(events) + 1 /\ Len(events') = i /\ events'[i] = l
    BY <1>1, <1>2, <1>5, <2>1
  <2>3. After(events', i) = {}
    BY <1>1, <1>2, <2>2 DEF After
  <2>4. \A p : Belongs(p)' <=> p \in Range(events'[i].photos)
    BY <1>1, <1>2, <1>4, <2>2 DEF Belongs, Stored
  <2> QED  BY <2>3, <2>4 DEF Told
<1> QED  BY <1>7, <1>8, <1>9 DEF Telling, Tells

\* The database's thread tells what it changes.
LEMMA TellingPerform ==
    ASSUME Typed, Queued, Telling, Perform
    PROVE  Telling'
<1>1. /\ QueuesTyped /\ CollectionTyped /\ RemoveStored /\ InHand /\ Tells /\ JoinTold
      /\ tasks \in Seq(TaskSet) /\ events \in Seq(EventSet)
  BY DEF Typed, Queued, QueuesTyped, Telling
<1>2. PICK es : Served(es)
  BY <1>1, PerformServed DEF RemoveStored
<1>3. CASE Head(tasks).kind = "list"
  BY <1>1, <1>2, <1>3, ListMade
<1>4. CASE Head(tasks).kind # "list"
  <2>1. /\ QueuesServed(es) /\ ListServed(es) /\ MatchesServed(es)
        /\ es \in Seq(EventSet) /\ events' = events \o es
        /\ tasks # <<>> /\ UNCHANGED <<filter, opened, crashed, model, gone>>
    BY <1>2 DEF Served, QueuesServed, Perform, viewVars
  <2>2. /\ Range(events') = Range(events) \cup Range(es)
        /\ \A i \in 0 .. Len(events) : After(events', i) = After(events, i) \cup Range(es)
        /\ \A i \in DOMAIN events' : \/ i \in DOMAIN events /\ i \in 0 .. Len(events) /\ events'[i] = events[i]
                                     \/ events'[i] \in Range(es)
    BY <1>1, <2>1, QueueGrows
  <2>3. Range(tasks) = {Head(tasks)} \cup After(tasks, 1) /\ After(tasks, 1) \subseteq Range(tasks')
    BY <1>1, <2>1, QueueParts DEF QueuesServed
  <2>4. \A t \in Range(tasks) : t.kind = "list" => t \in Range(tasks')
    BY <1>4, <2>3
  <2>5. \A e \in Range(es) : e.kind # "list"
    BY <1>4, <2>1 DEF ListServed
  <2>6. JoinTold'
    <3> SUFFICES ASSUME opened, NEW t \in Range(tasks'), t.kind \in {"create", "join"}
                 PROVE  \/ \E u \in Range(tasks') : u.kind = "list"
                        \/ \E e \in Range(events') : e.kind = "added"
      BY <2>1 DEF JoinTold
    <3>1. t \notin After(tasks, 1)
      BY <1>1 DEF InHand, Steps
    <3>2. GoesOn(t, es)
      BY <2>1, <3>1 DEF QueuesServed
    <3>3. Head(tasks).kind = "create" \/ \E e \in Range(es) : e.kind = "added"
      BY <3>2 DEF GoesOn
    <3>4. CASE Head(tasks).kind = "create"
      <4>1. \/ \E u \in Range(tasks) : u.kind = "list"
            \/ \E e \in Range(events) : e.kind = "added"
        BY <1>1, <2>3, <3>4 DEF JoinTold
      <4> QED  BY <2>2, <2>4, <4>1
    <3> QED  BY <2>2, <3>3, <3>4
  <2>7. Tells'
    <3> SUFFICES ASSUME opened, ~ crashed, ~ Pending'  PROVE ShownTold' /\ ListsTold'
      BY <2>1 DEF Tells
    <3>1. ~ Pending
      BY <2>2, <2>4 DEF Pending
    <3>2. ShownTold /\ ListsTold
      BY <1>1, <3>1 DEF Tells
    <3>3. Head(tasks).kind # "join"
      <4>1. (\A t \in Range(tasks) : t.kind # "list") /\ \A e \in Range(events) : e.kind # "added"
        BY <3>1 DEF Pending, AsksAgain
      <4> QED  BY <1>1, <2>3, <4>1 DEF JoinTold
    <3>4. \A e \in Range(es) : ~ AsksAgain(e)
      BY <2>2 DEF Pending
    <3>5. MatchesKept(es)
      BY <1>4, <2>1, <3>3, <3>4 DEF MatchesServed
    <3>6. ASSUME NEW shown, NEW after, Told(shown, after)
          PROVE  \A p \in Photos \ touched' :
                    (p \in shown /\ ~ \E e \in after \cup Range(es) : Drops(e, p)) <=> Belongs(p)'
      BY <3>5, <3>6 DEF MatchesKept, Told
    <3>7. ShownTold'
      <4> SUFFICES ASSUME \A e \in Range(events') : e.kind # "list", Len(gone) <= 1
                   PROVE  Told(Shown, Range(events))'
        BY <2>1 DEF ShownTold
      <4>1. Told(Shown, Range(events)) /\ Shown' = Shown
        BY <2>1, <2>2, <3>2, ShownIsRange DEF ShownTold
      <4>2. \A p \in Photos \ touched' :
               (p \in Shown /\ ~ \E e \in Range(events) \cup Range(es) : Drops(e, p)) <=> Belongs(p)'
        BY <3>6, <4>1
      <4>3. \A p \in Photos \ touched' :
               (p \in Shown' /\ ~ \E e \in Range(events') : Drops(e, p)) <=> Belongs(p)'
        BY <2>2, <4>1, <4>2
      <4> QED  BY <4>3 DEF Told
    <3>8. ListsTold'
      <4> SUFFICES ASSUME NEW i \in DOMAIN events', events'[i].kind = "list",
                          \A e \in After(events', i) : e.kind # "list"
                   PROVE  Told(Range(events[i].photos), After(events, i))'
        BY DEF ListsTold
      <4>1. /\ i \in DOMAIN events /\ events'[i] = events[i]
            /\ After(events', i) = After(events, i) \cup Range(es)
        BY <2>2, <2>5
      <4>2. Told(Range(events[i].photos), After(events, i))
        BY <3>2, <4>1 DEF ListsTold
      <4>3. \A p \in Photos \ touched' :
               (p \in Range(events[i].photos) /\ ~ \E e \in After(events, i) \cup Range(es) : Drops(e, p))
               <=> Belongs(p)'
        BY <3>6, <4>2
      <4> QED  BY <4>1, <4>3 DEF Told
    <3> QED  BY <3>7, <3>8
  <2> QED  BY <2>6, <2>7 DEF Telling
<1> QED  BY <1>3, <1>4

\* Every step tells.
LEMMA TellingStep == Typed /\ Exact /\ Queued /\ Telling /\ [Next]_vars => Telling'
<1> SUFFICES ASSUME Typed, Exact, Queued, Telling, [Next]_vars  PROVE Telling'
  OBVIOUS
<1>1. CASE UNCHANGED vars
  <2>1. UNCHANGED <<collection, touched, filter, opened, crashed, model, events, tasks, gone>>
    BY <1>1 DEF vars, dbVars, viewVars
  <2> QED
    BY <2>1 DEF Telling, Tells, JoinTold, Pending, ShownTold, ListsTold, Told, Shown, Belongs, Stored
<1> QED  BY <1>1, TellingPerform, TellingGui DEF Next, Gui

\* updatePhotos(), fetchedPhotos() and removePhotos(): once both queues are empty,
\* the rows are the photos of the collection that match the filter, but for those
\* that were modified since the list was made (the model does not ask again for
\* them) and as long as no second removal came after the list, for any collection,
\* requests and controls.
THEOREM CollectionAlwaysShown == Spec => []ShowsTheCollection
<1>1. Telling => ShowsTheCollection
  <2> SUFFICES ASSUME Telling, Quiet, opened, ~ crashed, Len(gone) <= 1, NEW p \in Photos \ touched
               PROVE  p \in Shown <=> p \in Stored /\ Matches(collection[p], filter)
    BY DEF ShowsTheCollection
  <2>1. Range(tasks) = {} /\ Range(events) = {}
    BY ShortQueues DEF Quiet
  <2>2. Told(Shown, Range(events))
    BY <2>1 DEF Telling, Tells, Pending, ShownTold
  <2> QED  BY <2>1, <2>2 DEF Told, Belongs
<1>2. Spec => []Exact
  BY AlwaysTyped, ExactInit, ExactStep, PTL DEF Spec
<1>3. Spec => []Telling
  BY <1>2, AlwaysTyped, AlwaysQueued, TellingInit, TellingStep, PTL DEF Spec
<1> QED  BY <1>1, <1>3, PTL

=============================================================================
