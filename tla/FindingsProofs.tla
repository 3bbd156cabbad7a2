---------------------------- MODULE FindingsProofs ----------------------------
(***************************************************************************)
(* Theorems about what becomes of the findings of an analysis, for any     *)
(* candidates and any rows: the rectangles and pairs of a population are   *)
(* its members, each of which is replayed or told once, and a finding is     *)
(* found by its number however it was spilled, merged and stored.          *)
(***************************************************************************)
EXTENDS MCFindings, ContentsProofs

-----------------------------------------------------------------------------
(* Sequences and products.                                                  *)

(* A part of a sequence has its elements.                                    *)
LEMMA PartOfSequence ==
  ASSUME NEW E, NEW s \in Seq(E), NEW a \in Nat, NEW n \in Nat, a + n <= Len(s)
  PROVE  /\ SubSeq(s, a + 1, a + n) \in Seq(E) /\ Len(SubSeq(s, a + 1, a + n)) = n
         /\ \A k \in 1..n : SubSeq(s, a + 1, a + n)[k] = s[a + k]
<1> DEFINE b == a + 1
           c == a + n
<1>1. /\ b \in 1..(Len(s) + 1) /\ c \in 0..Len(s) /\ b <= c + 1 /\ c - b + 1 = n
      /\ \A k \in 1..n : b + k - 1 = a + k
  OBVIOUS
<1> HIDE DEF b, c
<1>2. SubSeq(s, b, c) \in Seq(E)
  BY <1>1
<1>3. Len(SubSeq(s, b, c)) = n
  BY <1>1
<1>4. \A k \in 1..n : SubSeq(s, b, c)[k] = s[b + k - 1]
  BY <1>1
<1> QED
  BY <1>1, <1>2, <1>3, <1>4 DEF b, c

(* Products.                                                                 *)
LEMMA ProductGrows ==
  ASSUME NEW i \in Int, NEW j \in Int, NEW n \in Nat, i <= j
  PROVE  i * n <= j * n
OBVIOUS

-----------------------------------------------------------------------------
(* Populations (Populations).                                               *)

(* An accumulator has these fields. *)
IsAcc(a) ==
  DOMAIN a = {"count", "evidence", "malformed", "row", "columns", "previous", "active",
              "rectangles", "offsets", "pairs"}

(* A box has a cell; what is active is a box up to a row.                    *)
Has(b, y, x) == b.from <= y /\ y <= b.to /\ b.run[1] <= x /\ x <= b.run[2]
IsBox(b) == b.from \in Int /\ b.to \in Int /\ b.run[1] \in Int /\ b.run[2] \in Int
Box(v, to) == [from |-> v.since, to |-> to, run |-> v.run]
Shown(a) == a.rectangles \cup {Box(v, a.previous) : v \in a.active}
Beside(r, s) == \A x \in Int : ~(r[1] <= x /\ x <= r[2] /\ s[1] <= x /\ x <= s[2])

(* The boxes shown are the cells of D, which are of rows up to the previous, *)
(* and share none; what is active is side by side.                           *)
Tiles(S, D) ==
  /\ \A b \in S : IsBox(b)
  /\ \A y, x \in Int : <<y, x>> \in D <=> \E b \in S : Has(b, y, x)
  /\ \A b, c \in S : b # c => \A y, x \in Int : ~(Has(b, y, x) /\ Has(c, y, x))

Laid(a, D) ==
  /\ Tiles(Shown(a), D)
  /\ a.previous = None => a.active = {} /\ a.rectangles = {}
  /\ a.previous # None =>
       /\ a.previous \in Int
       /\ \A b \in a.rectangles : b.to <= a.previous
       /\ \A v \in a.active : v.since <= a.previous
  /\ \A v \in a.active : v = [since |-> v.since, run |-> v.run] /\ Box(v, a.previous) \notin a.rectangles
  /\ \A v, w \in a.active : v # w => Beside(v.run, w.run)

(* To flush what is active changes nothing of what is shown.                *)
LEMMA FlushActiveShows ==
  ASSUME NEW a, IsAcc(a), NEW D, Laid(a, D)
  PROVE  LET b == Grouped!FlushActive(a)
         IN  /\ IsAcc(b) /\ Laid(b, D) /\ b.active = {} /\ b.rectangles = Shown(a)
             /\ b.row = a.row /\ b.columns = a.columns /\ b.previous = a.previous /\ b.count = a.count
             /\ b.evidence = a.evidence /\ b.malformed = a.malformed
             /\ b.offsets = a.offsets /\ b.pairs = a.pairs
<1> DEFINE b == Grouped!FlushActive(a)
<1>1. /\ IsAcc(b) /\ b.active = {} /\ b.rectangles = Shown(a)
      /\ b.row = a.row /\ b.columns = a.columns /\ b.previous = a.previous /\ b.count = a.count
      /\ b.evidence = a.evidence /\ b.malformed = a.malformed
      /\ b.offsets = a.offsets /\ b.pairs = a.pairs
  BY DEF Grouped!FlushActive, Grouped!Closed, IsAcc, Shown, Box
<1> HIDE DEF b
<1>2. Shown(b) = Shown(a)
  BY <1>1 DEF Shown
<1>3. \A c \in Shown(a) : a.previous # None => c.to <= a.previous
  BY DEF Laid, Shown, Box
<1>4. a.previous = None => Shown(a) = {}
  BY DEF Laid, Shown
<1>5. Laid(b, D)
  BY <1>1, <1>2, <1>3, <1>4 DEF Laid
<1> QED
  BY <1>1, <1>5 DEF b

(* A row whose runs are flushed is shown with the rows before it, if no row  *)
(* is missing above what goes on.                                            *)
LEMMA RowFlushedShows ==
  ASSUME NEW a, IsAcc(a), NEW D, Laid(a, D), a.row \in Int,
         IsFiniteSet(a.columns), \A x \in a.columns : x \in Int,
         a.previous # None => a.previous < a.row /\ (a.active = {} \/ a.row = a.previous + 1)
  PROVE  LET b == Grouped!RowFlushed(a)
         IN  /\ IsAcc(b) /\ Laid(b, D \cup {<<a.row, x>> : x \in a.columns})
             /\ b.previous = a.row /\ b.columns = {} /\ b.row = a.row /\ b.count = a.count
             /\ b.evidence = a.evidence /\ b.malformed = a.malformed
             /\ b.offsets = a.offsets /\ b.pairs = a.pairs
<1> DEFINE b == Grouped!RowFlushed(a)
           y0 == a.row
           C == a.columns
           runsOf == RunsOf(C)
           E == {v \in a.active : v.run \notin runsOf}
           K == a.active \ E
           new == runsOf \ {v.run : v \in K}
           N == {[since |-> y0, run |-> r] : r \in new}
           D2 == D \cup {<<a.row, x>> : x \in a.columns}
<1>1. Grouped!HorizontalRuns(C) = runsOf
  BY DEF Grouped!HorizontalRuns, RunsOf
<1>2. /\ IsAcc(b) /\ b.previous = y0 /\ b.columns = {} /\ b.row = y0 /\ b.count = a.count
      /\ b.evidence = a.evidence /\ b.malformed = a.malformed
      /\ b.offsets = a.offsets /\ b.pairs = a.pairs
      /\ b.active = K \cup N
      /\ b.rectangles = a.rectangles \cup {Box(v, y0 - 1) : v \in E}
  <2> DEFINE kept == Grouped!Closed(a, E, y0 - 1)
  <2>1. /\ kept = [a EXCEPT !.active = K,
                            !.rectangles = a.rectangles \cup {Box(v, y0 - 1) : v \in E}]
    BY DEF Grouped!Closed, IsAcc, Box
  <2>2. kept.active = K
    BY <2>1 DEF IsAcc
  <2>3. b = [kept EXCEPT !.active = @ \cup {[since |-> y0, run |-> r] : r \in new},
                         !.previous = y0, !.columns = {}]
    BY <1>1, <2>2 DEF Grouped!RowFlushed
  <2> HIDE DEF kept, b, K, E, N
  <2>4. \A f \in DOMAIN a \ {"active", "rectangles"} : kept[f] = a[f]
    BY <2>1 DEF IsAcc
  <2>5. kept.rectangles = a.rectangles \cup {Box(v, y0 - 1) : v \in E} /\ DOMAIN kept = DOMAIN a
    BY <2>1 DEF IsAcc
  <2> USE DEF N
  <2> HIDE DEF new
  <2> QED
    BY <2>2, <2>3, <2>4, <2>5 DEF IsAcc
<1>3. /\ \A x : x \in C <=> \E r \in runsOf : x \in r[1]..r[2]
      /\ \A r \in runsOf : r[1] \in Int /\ r[2] \in Int /\ r[1] <= r[2]
  <2> HIDE DEF runsOf
  <2> QED
    BY RunsCover DEF runsOf
<1>4. \A r, s \in runsOf : r # s => Beside(r, s)
  <2> SUFFICES ASSUME NEW r \in runsOf, NEW s \in runsOf, r # s PROVE Beside(r, s)
    OBVIOUS
  <2>1. (r[1]..r[2]) \cap (s[1]..s[2]) = {}
    BY RunsApart
  <2> HIDE DEF runsOf
  <2> QED
    BY <1>3, <2>1 DEF Beside
<1> HIDE DEF b, runsOf
<1>5. \A v \in a.active :
        /\ a.previous \in Int /\ y0 = a.previous + 1 /\ Box(v, y0 - 1) \in Shown(a)
        /\ Box(v, y0 - 1) = Box(v, a.previous)
        /\ v.since \in Int /\ v.since <= y0 - 1 /\ v.run[1] \in Int /\ v.run[2] \in Int
        /\ Box(v, y0 - 1) \notin a.rectangles
  <2> SUFFICES ASSUME NEW v \in a.active
               PROVE  /\ a.previous \in Int /\ y0 = a.previous + 1 /\ Box(v, y0 - 1) \in Shown(a)
                      /\ Box(v, y0 - 1) = Box(v, a.previous)
                      /\ v.since \in Int /\ v.since <= y0 - 1 /\ v.run[1] \in Int /\ v.run[2] \in Int
                      /\ Box(v, y0 - 1) \notin a.rectangles
    OBVIOUS
  <2>1. a.previous \in Int /\ y0 = a.previous + 1 /\ v.since <= a.previous /\ y0 - 1 = a.previous
    BY DEF Laid
  <2>2. Box(v, a.previous) \in Shown(a)
    BY DEF Shown
  <2>3. IsBox(Box(v, a.previous))
    BY <2>2 DEF Laid, Tiles
  <2> QED
    BY <2>1, <2>2, <2>3 DEF Laid, IsBox, Box
<1>6. \A s \in Shown(b) :
        \/ s \in a.rectangles
        \/ \E v \in E : s = Box(v, y0 - 1)
        \/ \E v \in K : s = Box(v, y0)
        \/ \E r \in new : s = Box([since |-> y0, run |-> r], y0)
  <2> HIDE DEF E, K, new
  <2> QED
    BY <1>2 DEF Shown
<1>7. /\ \A s \in a.rectangles : s \in Shown(b)
      /\ \A v \in E : Box(v, y0 - 1) \in Shown(b)
      /\ \A v \in K : Box(v, y0) \in Shown(b)
      /\ \A r \in new : Box([since |-> y0, run |-> r], y0) \in Shown(b)
  <2> HIDE DEF E, K, new
  <2> QED
    BY <1>2 DEF Shown
<1>8. \A v : v \in K <=> v \in a.active /\ v.run \in runsOf
  OBVIOUS
<1>9. \A r : r \in new <=> r \in runsOf /\ \A v \in K : v.run # r
  OBVIOUS
<1>10. \A v : v \in E <=> v \in a.active /\ v.run \notin runsOf
  OBVIOUS
<1>11. \A s \in a.rectangles : IsBox(s) /\ s \in Shown(a) /\ s.to <= y0 - 1
  BY DEF Laid, Tiles, Shown, IsBox
<1> HIDE DEF E, K, new
<1>12. \A s \in Shown(b) : IsBox(s)
  <2>1. \A v \in a.active : IsBox(Box(v, y0 - 1)) /\ IsBox(Box(v, y0))
    BY <1>5 DEF IsBox, Box
  <2>2. \A r \in new : IsBox(Box([since |-> y0, run |-> r], y0))
    BY <1>3, <1>9 DEF IsBox, Box
  <2> QED
    BY <1>6, <1>8, <1>10, <1>11, <2>1, <2>2
<1>13. ASSUME NEW y \in Int, NEW x \in Int
       PROVE  <<y, x>> \in D2 <=> \E s \in Shown(b) : Has(s, y, x)
  <2>1. <<y, x>> \in D2 <=> <<y, x>> \in D \/ (y = y0 /\ x \in C)
    OBVIOUS
  <2>2. <<y, x>> \in D <=> \E s \in Shown(a) : Has(s, y, x)
    BY DEF Laid, Tiles
  <2> HIDE DEF D2
  <2>3. ASSUME <<y, x>> \in D PROVE \E s \in Shown(b) : Has(s, y, x)
    <3>1. PICK s \in Shown(a) : Has(s, y, x)
      BY <2>2, <2>3
    <3>2. CASE s \in a.rectangles
      BY <1>7, <3>1, <3>2
    <3>3. ASSUME NEW v \in a.active, s = Box(v, a.previous) PROVE \E t \in Shown(b) : Has(t, y, x)
      <4>1. Has(Box(v, y0 - 1), y, x)
        BY <1>5, <3>1, <3>3
      <4>2. CASE v \in E
        BY <1>7, <4>1, <4>2
      <4>3. CASE v \in K
        <5>1. Has(Box(v, y0), y, x)
          BY <1>5, <4>1 DEF Has, Box
        <5> QED
          BY <1>7, <4>3, <5>1
      <4> QED
        BY <1>8, <1>10, <4>2, <4>3
    <3> QED
      BY <3>1, <3>2, <3>3 DEF Shown
  <2>4. ASSUME y = y0, x \in C PROVE \E s \in Shown(b) : Has(s, y, x)
    <3>1. PICK r \in runsOf : x \in r[1]..r[2]
      BY <1>3, <2>4
    <3>2. r[1] <= x /\ x <= r[2]
      BY <1>3, <3>1
    <3>3. CASE r \in new
      <4>1. Has(Box([since |-> y0, run |-> r], y0), y, x)
        BY <2>4, <3>2 DEF Has, Box
      <4> QED
        BY <1>7, <3>3, <4>1
    <3>4. CASE r \notin new
      <4>1. PICK v \in K : v.run = r
        BY <1>9, <3>4
      <4>2. v \in a.active /\ v.since \in Int /\ v.since <= y0 - 1
        BY <1>5, <1>8
      <4>3. Has(Box(v, y0), y, x)
        <5>1. v.run[1] <= x /\ x <= v.run[2]
          BY <3>2, <4>1
        <5>2. v.since <= y /\ y <= y0
          BY <2>4, <4>2
        <5> QED
          BY <5>1, <5>2 DEF Has, Box
      <4> QED
        BY <1>7, <4>3
    <3> QED
      BY <3>3, <3>4
  <2>5. ASSUME NEW s \in Shown(b), Has(s, y, x) PROVE <<y, x>> \in D \/ (y = y0 /\ x \in C)
    <3>1. CASE s \in a.rectangles
      BY <1>11, <2>2, <2>5, <3>1
    <3>2. ASSUME NEW v \in E, s = Box(v, y0 - 1) PROVE <<y, x>> \in D
      BY <1>5, <1>10, <2>2, <2>5, <3>2
    <3>3. ASSUME NEW v \in K, s = Box(v, y0) PROVE <<y, x>> \in D \/ (y = y0 /\ x \in C)
      <4>1. CASE y = y0
        <5>1. x \in v.run[1]..v.run[2]
          BY <1>5, <1>8, <2>5, <3>3 DEF Has, Box
        <5> QED
          BY <1>3, <1>8, <4>1, <5>1
      <4>2. CASE y # y0
        <5>1. Has(Box(v, y0 - 1), y, x)
          BY <2>5, <3>3, <4>2 DEF Has, Box
        <5> QED
          BY <1>5, <1>8, <2>2, <5>1
      <4> QED
        BY <4>1, <4>2
    <3>4. ASSUME NEW r \in new, s = Box([since |-> y0, run |-> r], y0) PROVE y = y0 /\ x \in C
      <4>1. y = y0 /\ x \in r[1]..r[2]
        BY <1>3, <1>9, <2>5, <3>4 DEF Has, Box
      <4> QED
        BY <1>3, <1>9, <4>1
    <3> QED
      BY <1>6, <3>1, <3>2, <3>3, <3>4
  <2> QED
    BY <2>1, <2>3, <2>4, <2>5
(* At the new row each column is of one run, and above it the boxes are those *)
(* shown before.                                                             *)
<1>14. ASSUME NEW s \in Shown(b), NEW t \in Shown(b), NEW y \in Int, NEW x \in Int,
              Has(s, y, x), Has(t, y, x), y >= y0
       PROVE  s = t
  <2>1. ASSUME NEW u \in Shown(b), Has(u, y, x)
        PROVE  /\ y = y0 /\ u.run \in runsOf
               /\ \/ \E v \in K : u = Box(v, y0)
                  \/ \E r \in new : u = Box([since |-> y0, run |-> r], y0)
    <3>1. u \notin a.rectangles
      BY <1>11, <1>14, <2>1 DEF Has, IsBox
    <3>2. ~\E v \in E : u = Box(v, y0 - 1)
      BY <1>14, <2>1 DEF Has, Box
    <3>3. \/ \E v \in K : u = Box(v, y0)
          \/ \E r \in new : u = Box([since |-> y0, run |-> r], y0)
      BY <1>6, <3>1, <3>2
    <3> QED
      BY <1>8, <1>9, <1>14, <2>1, <3>3 DEF Has, Box
  <2>2. s.run = t.run
    BY <1>4, <1>14, <2>1 DEF Beside, Has
  <2>3. ASSUME NEW v \in K, s = Box(v, y0), NEW w \in K, t = Box(w, y0) PROVE s = t
    <3>1. v.run = w.run /\ v.run[1] <= x /\ x <= v.run[2] /\ v \in a.active /\ w \in a.active
      BY <1>8, <1>14, <2>2, <2>3 DEF Box, Has
    <3>2. v = w
      BY <3>1 DEF Laid, Beside
    <3> QED
      BY <2>3, <3>2
  <2>4. ASSUME NEW v \in K, NEW r \in new, v.run = r PROVE FALSE
    BY <1>9, <2>4
  <2>5. ASSUME NEW r \in new, s = Box([since |-> y0, run |-> r], y0),
               NEW q \in new, t = Box([since |-> y0, run |-> q], y0) PROVE s = t
    BY <2>2, <2>5 DEF Box
  <2> QED
    BY <1>14, <2>1, <2>2, <2>3, <2>4, <2>5 DEF Box
<1>15. ASSUME NEW s \in Shown(b), NEW t \in Shown(b), NEW y \in Int, NEW x \in Int,
              Has(s, y, x), Has(t, y, x), y < y0
       PROVE  s = t
  <2>1. ASSUME NEW u \in Shown(b), Has(u, y, x)
        PROVE  \/ u \in a.rectangles
               \/ \E v \in a.active : /\ Has(Box(v, y0 - 1), y, x)
                                      /\ u = IF v \in E THEN Box(v, y0 - 1) ELSE Box(v, y0)
    <3>1. ASSUME NEW r \in new, u = Box([since |-> y0, run |-> r], y0) PROVE FALSE
      BY <1>15, <2>1, <3>1 DEF Has, Box
    <3>2. ASSUME NEW v \in E, u = Box(v, y0 - 1) PROVE v \in a.active /\ Has(Box(v, y0 - 1), y, x)
      BY <1>10, <2>1, <3>2
    <3>3. ASSUME NEW v \in K, u = Box(v, y0)
          PROVE  v \in a.active /\ v \notin E /\ Has(Box(v, y0 - 1), y, x)
      BY <1>8, <1>10, <1>15, <2>1, <3>3 DEF Has, Box
    <3> QED
      BY <1>6, <3>1, <3>2, <3>3
  <2>2. \A c, d \in Shown(a) : Has(c, y, x) /\ Has(d, y, x) => c = d
    BY DEF Laid, Tiles
  <2>3. CASE s \in a.rectangles /\ t \in a.rectangles
    BY <1>11, <1>15, <2>2, <2>3
  <2>4. ASSUME NEW v \in a.active, Has(Box(v, y0 - 1), y, x), NEW c \in a.rectangles, Has(c, y, x)
        PROVE  FALSE
    BY <1>5, <1>11, <2>2, <2>4
  <2>5. ASSUME NEW v \in a.active, Has(Box(v, y0 - 1), y, x), NEW w \in a.active, Has(Box(w, y0 - 1), y, x)
        PROVE  v = w
    <3>1. Box(v, y0 - 1) = Box(w, y0 - 1)
      BY <1>5, <2>2, <2>5
    <3>2. v.since = w.since /\ v.run = w.run
      BY <3>1 DEF Box
    <3> QED
      BY <3>2 DEF Laid
  <2> QED
    BY <1>15, <2>1, <2>3, <2>4, <2>5
<1>16. Tiles(Shown(b), D2)
  <2>1. \A s, t \in Shown(b) : s # t => \A y, x \in Int : ~(Has(s, y, x) /\ Has(t, y, x))
    <3> SUFFICES ASSUME NEW s \in Shown(b), NEW t \in Shown(b), NEW y \in Int, NEW x \in Int,
                        Has(s, y, x), Has(t, y, x)
                 PROVE  s = t
      OBVIOUS
    <3> QED
      BY <1>14, <1>15
  <2> HIDE DEF D2
  <2> QED
    BY <1>12, <1>13, <2>1 DEF Tiles
<1>17. ASSUME NEW v \in b.active
       PROVE  /\ v = [since |-> v.since, run |-> v.run] /\ v.since <= y0 /\ v.run \in runsOf
              /\ Box(v, y0) \notin b.rectangles
  <2>1. \/ v \in K
        \/ \E r \in new : v = [since |-> y0, run |-> r]
    <3> HIDE DEF K, new
    <3> QED
      BY <1>2
  <2>2. /\ v = [since |-> v.since, run |-> v.run] /\ v.since <= y0 /\ v.run \in runsOf
    BY <1>5, <1>8, <1>9, <2>1 DEF Laid
  <2>3. Box(v, y0).to = y0
    BY DEF Box
  <2>4. \A c \in b.rectangles : c.to <= y0 - 1 /\ c.to \in Int
    BY <1>2, <1>11 DEF Box, IsBox
  <2> QED
    BY <2>2, <2>3, <2>4
<1>18. \A v, w \in b.active : v # w => Beside(v.run, w.run)
  <2> SUFFICES ASSUME NEW v \in b.active, NEW w \in b.active, v # w PROVE Beside(v.run, w.run)
    OBVIOUS
  <2>1. CASE v.run # w.run
    BY <1>4, <1>17, <2>1
  <2>2. CASE v.run = w.run
    <3>1. \A u \in b.active : u \in K \/ \E r \in new : u = [since |-> y0, run |-> r]
      BY <1>2
    <3>2. v \in K /\ w \in K
      BY <1>9, <2>2, <3>1
    <3> QED
      BY <1>8, <3>2 DEF Laid
  <2> QED
    BY <2>1, <2>2
<1>19. \A c \in b.rectangles : c.to <= y0
  BY <1>2, <1>11 DEF Box, IsBox
<1>20. y0 # None
  BY PopulationConstants
<1>21. Laid(b, D2)
  <2> HIDE DEF D2
  <2> QED
    BY <1>2, <1>16, <1>17, <1>18, <1>19, <1>20 DEF Laid
<1> QED
  BY <1>2, <1>21 DEF b

RowCells(a) == {<<a.row, x>> : x \in a.columns}

(* A row is flushed below what was shown, whatever lies between.             *)
LEMMA FlushRowShows ==
  ASSUME NEW a, IsAcc(a), NEW D, Laid(a, D), a.row \in Int,
         IsFiniteSet(a.columns), \A x \in a.columns : x \in Int,
         a.previous # None => a.previous < a.row
  PROVE  LET b == Grouped!FlushRow(a)
         IN  /\ IsAcc(b) /\ Laid(b, D \cup RowCells(a))
             /\ b.previous = a.row /\ b.columns = {} /\ b.row = a.row /\ b.count = a.count
             /\ b.evidence = a.evidence /\ b.malformed = a.malformed
             /\ b.offsets = a.offsets /\ b.pairs = a.pairs
<1> DEFINE c == Grouped!FlushActive(a)
<1>1. a.row # None
  BY PopulationConstants
<1>2. CASE a.previous # None /\ a.row # a.previous + 1
  <2>1. /\ IsAcc(c) /\ Laid(c, D) /\ c.active = {}
        /\ c.row = a.row /\ c.columns = a.columns /\ c.previous = a.previous /\ c.count = a.count
        /\ c.evidence = a.evidence /\ c.malformed = a.malformed
        /\ c.offsets = a.offsets /\ c.pairs = a.pairs
    BY FlushActiveShows
  <2>2. Grouped!FlushRow(a) = Grouped!RowFlushed(c)
    BY <1>1, <1>2 DEF Grouped!FlushRow
  <2> HIDE DEF c
  <2>3. /\ c.row \in Int /\ IsFiniteSet(c.columns) /\ \A x \in c.columns : x \in Int
        /\ c.previous # None => c.previous < c.row /\ (c.active = {} \/ c.row = c.previous + 1)
    BY <2>1
  <2>4. LET b == Grouped!RowFlushed(c)
        IN  /\ IsAcc(b) /\ Laid(b, D \cup {<<c.row, x>> : x \in c.columns})
            /\ b.previous = c.row /\ b.columns = {} /\ b.row = c.row /\ b.count = c.count
            /\ b.evidence = c.evidence /\ b.malformed = c.malformed
            /\ b.offsets = c.offsets /\ b.pairs = c.pairs
    BY <2>1, <2>3, RowFlushedShows
  <2> QED
    BY <2>1, <2>2, <2>4 DEF RowCells
<1>3. CASE ~(a.previous # None /\ a.row # a.previous + 1)
  <2>1. Grouped!FlushRow(a) = Grouped!RowFlushed(a)
    BY <1>1, <1>3 DEF Grouped!FlushRow
  <2>2. a.previous # None => a.previous < a.row /\ (a.active = {} \/ a.row = a.previous + 1)
    BY <1>3
  <2>3. LET b == Grouped!RowFlushed(a)
        IN  /\ IsAcc(b) /\ Laid(b, D \cup {<<a.row, x>> : x \in a.columns})
            /\ b.previous = a.row /\ b.columns = {} /\ b.row = a.row /\ b.count = a.count
            /\ b.evidence = a.evidence /\ b.malformed = a.malformed
            /\ b.offsets = a.offsets /\ b.pairs = a.pairs
    BY <2>2, RowFlushedShows
  <2> QED
    BY <2>1, <2>3 DEF RowCells
<1> QED
  BY <1>2, <1>3

(* The cells of C, in rows up to that of the accumulator, are those it shows *)
(* and the columns of its row.                                               *)
Above(C, y) == {c \in C : c[1] < y}
Swept(a, C) ==
  /\ IsAcc(a)
  /\ \A c \in C : IsCell(c)
  /\ a.row = None => a.columns = {} /\ C = {} /\ a.previous = None /\ Laid(a, {})
  /\ a.row # None =>
       /\ a.row \in Int /\ IsFiniteSet(a.columns) /\ \A x \in a.columns : x \in Int
       /\ \A c \in C : c[1] <= a.row
       /\ \A x : x \in a.columns <=> <<a.row, x>> \in C
       /\ a.previous # None => a.previous < a.row
       /\ Laid(a, Above(C, a.row))

(* What is laid does not depend on the other fields.                         *)
LEMMA LaidStays ==
  ASSUME NEW a, NEW b, NEW D, Laid(a, D), b.rectangles = a.rectangles, b.active = a.active, b.previous = a.previous
  PROVE  Laid(b, D)
BY DEF Laid, Shown

(* The rows above the row of the accumulator and its row are all rows.       *)
LEMMA SweptRows ==
  ASSUME NEW a, NEW C, Swept(a, C), a.row # None
  PROVE  Above(C, a.row) \cup RowCells(a) = C
<1>1. ASSUME NEW c \in C PROVE c \in Above(C, a.row) \cup RowCells(a)
  <2>1. c = <<c[1], c[2]>> /\ c[1] \in Int /\ c[1] <= a.row /\ a.row \in Int
    BY DEF Swept, IsCell
  <2>2. CASE c[1] < a.row
    BY <2>2 DEF Above
  <2>3. CASE c[1] = a.row
    <3>1. <<a.row, c[2]>> \in C
      BY <2>1, <2>3
    <3>2. c[2] \in a.columns
      BY <3>1 DEF Swept
    <3> QED
      BY <2>1, <2>3, <3>2 DEF RowCells
  <2> QED
    BY <2>1, <2>2, <2>3
<1>2. ASSUME NEW c \in RowCells(a) PROVE c \in C
  BY DEF RowCells, Swept
<1> QED
  BY <1>1, <1>2 DEF Above

(* When a group is finished its rectangles are its cells.                    *)
LEMMA FinishedTiles ==
  ASSUME NEW a, NEW C, Swept(a, C)
  PROVE  Tiles(Grouped!Finished(a).rectangles, C)
<1>1. CASE a.row = None
  <2>1. Grouped!Finished(a) = a
    BY <1>1 DEF Grouped!Finished, Grouped!FlushRow, Swept
  <2>2. C = {} /\ Laid(a, {}) /\ a.previous = None
    BY <1>1 DEF Swept
  <2>3. Shown(a) = a.rectangles
    BY <2>2 DEF Laid, Shown
  <2> QED
    BY <2>1, <2>2, <2>3 DEF Laid
<1>2. CASE a.row # None
  <2> DEFINE b == Grouped!FlushRow(a)
  <2>1. /\ IsAcc(a) /\ a.row \in Int /\ IsFiniteSet(a.columns) /\ \A x \in a.columns : x \in Int
        /\ a.previous # None => a.previous < a.row
        /\ Laid(a, Above(C, a.row))
    BY <1>2 DEF Swept
  <2>2. IsAcc(b) /\ Laid(b, Above(C, a.row) \cup RowCells(a)) /\ b.previous = a.row
    BY <2>1, FlushRowShows
  <2>3. Laid(b, C)
    BY <1>2, <2>2, SweptRows
  <2>4. Grouped!Finished(a) = Grouped!FlushActive(b)
    BY <1>2, <2>2 DEF Grouped!Finished
  <2> HIDE DEF b
  <2>5. Grouped!FlushActive(b).rectangles = Shown(b)
    BY <2>2, <2>3, FlushActiveShows
  <2> QED
    BY <2>3, <2>4, <2>5 DEF Laid
<1> QED
  BY <1>1, <1>2

(* What an accumulator is told of a row, whatever has been flushed.             *)
Told(a, r) ==
  LET located == r.cell # None
      based == located /\ r.base # None
      shift == <<r.base[1] - r.cell[1], r.base[2] - r.cell[2]>>
  IN  [count |-> a.count + 1,
       offsets |-> IF based THEN a.offsets \cup {shift} ELSE a.offsets,
       pairs |-> IF based THEN a.pairs \cup {<<r.cell, r.base>>} ELSE a.pairs]

(* The accumulator b after a row r, where a has swept the cells C.               *)
SweptWith(b, a, C, r) ==
  /\ Swept(b, IF r.cell = None THEN C ELSE C \cup {r.cell})
  /\ b.row = IF r.cell = None THEN a.row ELSE r.cell[1]
  /\ b.count = Told(a, r).count /\ b.malformed = (IF r.cell = None THEN TRUE ELSE a.malformed)
  /\ b.offsets = Told(a, r).offsets /\ b.pairs = Told(a, r).pairs

(* A row that is not before the last one is swept with those before it.      *)
LEMMA ObservedSweeps ==
  ASSUME NEW a, NEW C, Swept(a, C), NEW r, r.cell # None => IsCell(r.cell),
         r.cell # None /\ a.row # None => a.row <= r.cell[1]
  PROVE  SweptWith(Grouped!Observed(a, r), a, C, r)
<1> DEFINE y0 == r.cell[1]
           x0 == r.cell[2]
           counted == [a EXCEPT !.count = @ + 1, !.evidence = @ \cup {r.evidence}]
           atRow == IF a.row # None /\ a.row # y0 THEN Grouped!FlushRow(counted) ELSE counted
           placed == [atRow EXCEPT !.row = y0, !.columns = @ \cup {x0}]
           b == Grouped!Observed(a, r)
<1>0. IsAcc(a)
  BY DEF Swept
<1>1. /\ IsAcc(counted) /\ counted.row = a.row /\ counted.columns = a.columns /\ counted.previous = a.previous
      /\ counted.active = a.active /\ counted.rectangles = a.rectangles
      /\ counted.offsets = a.offsets /\ counted.pairs = a.pairs /\ counted.malformed = a.malformed
      /\ counted.count = a.count + 1
  BY <1>0 DEF IsAcc
<1>2. Swept(counted, C)
  <2> HIDE DEF counted
  <2>1. \A D : Laid(a, D) => Laid(counted, D)
    BY <1>1, LaidStays
  <2> QED
    BY <1>1, <2>1 DEF Swept
<1>3. CASE r.cell = None
  <2> DEFINE d == [counted EXCEPT !.malformed = TRUE]
  <2>1. b = d
    BY <1>3 DEF Grouped!Observed
  <2>2. /\ IsAcc(d) /\ d.row = a.row /\ d.columns = a.columns /\ d.previous = a.previous
        /\ d.active = a.active /\ d.rectangles = a.rectangles
        /\ d.offsets = a.offsets /\ d.pairs = a.pairs /\ d.malformed = TRUE
        /\ d.count = a.count + 1
    BY <1>1 DEF IsAcc
  <2> HIDE DEF d
  <2>3. \A D : Laid(a, D) => Laid(d, D)
    BY <2>2, LaidStays
  <2>4. Swept(d, C)
    BY <2>2, <2>3 DEF Swept
  <2> QED
    BY <1>3, <2>1, <2>2, <2>4 DEF Told, SweptWith
<1>4. CASE r.cell # None
  <2> DEFINE D == C \cup {r.cell}
  <2>1. r.cell = <<y0, x0>> /\ y0 \in Int /\ x0 \in Int /\ y0 # None
    BY <1>4, PopulationConstants DEF IsCell
  <2>2. b = IF r.base = None THEN placed
            ELSE [placed EXCEPT !.offsets = @ \cup {<<r.base[1] - r.cell[1], r.base[2] - r.cell[2]>>},
                                !.pairs = @ \cup {<<r.cell, r.base>>}]
    BY <1>4 DEF Grouped!Observed
  <2> HIDE DEF counted, b, y0, x0
  (* The row before is flushed, or the row goes on.                          *)
  <2>3. /\ IsAcc(atRow) /\ IsFiniteSet(atRow.columns) /\ \A x \in atRow.columns : x \in Int
        /\ \A x : x \in atRow.columns <=> <<y0, x>> \in C
        /\ atRow.previous # None => atRow.previous < y0
        /\ Laid(atRow, Above(C, y0))
        /\ atRow.offsets = a.offsets /\ atRow.pairs = a.pairs /\ atRow.malformed = a.malformed
        /\ atRow.count = a.count + 1
        /\ \A c \in C : c[1] <= y0
    <3>1. CASE a.row = None
      <4>1. /\ atRow = counted /\ C = {} /\ a.columns = {} /\ a.previous = None /\ Laid(counted, {})
        BY <1>1, <1>2, <3>1 DEF Swept
      <4>2. Above(C, y0) = {} /\ IsFiniteSet({})
        BY <4>1, FS_EmptySet DEF Above
      <4> HIDE DEF atRow
      <4> QED
        BY <1>1, <4>1, <4>2
    <3>2. CASE a.row # None /\ a.row = y0
      <4>1. atRow = counted
        BY <3>2
      <4> HIDE DEF atRow
      <4> QED
        BY <1>1, <1>2, <3>2, <4>1 DEF Swept
    <3>3. CASE a.row # None /\ a.row # y0
      <4>1. atRow = Grouped!FlushRow(counted)
        BY <3>3
      <4> HIDE DEF atRow
      <4>2. /\ counted.row \in Int /\ IsFiniteSet(counted.columns) /\ \A x \in counted.columns : x \in Int
            /\ counted.previous # None => counted.previous < counted.row
            /\ Laid(counted, Above(C, counted.row)) /\ counted.row # None
            /\ \A c \in C : c[1] <= counted.row
        BY <1>1, <1>2, <3>3 DEF Swept
      <4>3. /\ IsAcc(atRow) /\ Laid(atRow, Above(C, counted.row) \cup RowCells(counted))
            /\ atRow.previous = counted.row /\ atRow.columns = {} /\ atRow.count = counted.count
            /\ atRow.malformed = counted.malformed
            /\ atRow.offsets = counted.offsets /\ atRow.pairs = counted.pairs
        BY <1>1, <4>1, <4>2, FlushRowShows
      <4>4. Laid(atRow, C)
        BY <1>2, <4>2, <4>3, SweptRows
      <4>5. a.row \in Int /\ a.row < y0
        BY <1>1, <1>4, <2>1, <3>3, <4>2 DEF y0
      <4>6. \A c \in C : c[1] < y0 /\ c[1] \in Int
        BY <1>1, <2>1, <4>2, <4>5 DEF Swept, IsCell
      <4>7. Above(C, y0) = C
        BY <4>6 DEF Above
      <4>8. \A x : <<y0, x>> \notin C
        <5>1. \A x : <<y0, x>>[1] = y0
          OBVIOUS
        <5> QED
          BY <2>1, <4>6, <5>1
      <4>9. IsFiniteSet({})
        BY FS_EmptySet
      <4> QED
        BY <1>1, <2>1, <4>3, <4>4, <4>5, <4>6, <4>7, <4>8, <4>9
    <3> QED
      BY <3>1, <3>2, <3>3
  <2> HIDE DEF atRow
  <2>4. /\ IsAcc(placed) /\ placed.row = y0 /\ placed.columns = atRow.columns \cup {x0}
        /\ placed.previous = atRow.previous
        /\ placed.active = atRow.active /\ placed.rectangles = atRow.rectangles
        /\ placed.offsets = a.offsets /\ placed.pairs = a.pairs /\ placed.malformed = a.malformed
        /\ placed.count = a.count + 1
    BY <2>3 DEF IsAcc
  <2> HIDE DEF placed
  <2>5. /\ IsAcc(b) /\ b.row = y0 /\ b.columns = atRow.columns \cup {x0} /\ b.previous = atRow.previous
        /\ b.active = atRow.active /\ b.rectangles = atRow.rectangles /\ b.malformed = a.malformed
        /\ b.count = a.count + 1
        /\ b.offsets = Told(a, r).offsets /\ b.pairs = Told(a, r).pairs
    <3>1. CASE r.base = None
      BY <1>4, <2>2, <2>4, <3>1 DEF Told
    <3>2. CASE r.base # None
      BY <1>4, <2>2, <2>4, <3>2 DEF Told, IsAcc
    <3> QED
      BY <3>1, <3>2
  <2>6. Above(D, y0) = Above(C, y0)
    <3>1. ~(r.cell[1] < y0)
      BY <2>1 DEF y0
    <3> QED
      BY <3>1 DEF Above
  <2>7. Laid(b, Above(D, y0))
    BY <2>3, <2>5, <2>6, LaidStays
  <2>8. \A x : x \in b.columns <=> <<y0, x>> \in D
    BY <2>1, <2>3, <2>5
  <2>9. \A c \in D : IsCell(c) /\ c[1] <= y0
    <3>1. y0 <= y0 /\ IsCell(r.cell)
      BY <1>4, <2>1
    <3> QED
      BY <2>3, <3>1 DEF Swept, y0
  <2>10. IsFiniteSet(b.columns) /\ \A x \in b.columns : x \in Int
    BY <2>1, <2>3, <2>5, FS_AddElement
  <2>11. b.previous # None => b.previous < b.row
    BY <2>3, <2>5
  <2> HIDE DEF D
  <2>12. Swept(b, D)
    BY <2>1, <2>5, <2>7, <2>8, <2>9, <2>10, <2>11 DEF Swept
  <2>13. b.malformed = (IF r.cell = None THEN TRUE ELSE a.malformed) /\ b.count = Told(a, r).count
    BY <1>4, <2>5 DEF Told
  <2>14. b.row = IF r.cell = None THEN a.row ELSE r.cell[1]
    BY <1>4, <2>5 DEF y0
  <2>15. Swept(b, IF r.cell = None THEN C ELSE C \cup {r.cell})
    BY <1>4, <2>12 DEF D
  <2>16. SweptWith(b, a, C, r)
    BY <2>5, <2>13, <2>14, <2>15 DEF SweptWith
  <2> QED
    BY <2>16 DEF b
<1> QED
  BY <1>3, <1>4

(* The candidates of a group, in the order of their rows and all of one      *)
(* translation.                                                              *)
GroupRows(R) ==
  /\ IsList(R) /\ R = [k \in 1..Len(R) |-> R[k]]
  /\ \A k \in 1..Len(R) : R[k].cell # None => IsCell(R[k].cell)
  /\ \A j, k \in 1..Len(R) :
       j < k /\ R[j].cell # None /\ R[k].cell # None => R[j].cell[1] <= R[k].cell[1]
  /\ \/ \A k \in 1..Len(R) : R[k].cell # None => R[k].base # None /\ IsCell(R[k].base)
     \/ \A k \in 1..Len(R) : R[k].cell # None => R[k].base = None

(* So are the rows of every group of candidates.                            *)
LEMMA CandidatesAre ==
  ASSUME NEW s \in Candidates
  PROVE  IsList(s) /\ \A g \in 1..Len(s) : GroupRows(s[g].rows)
<1>1. IsList(s)
  BY PopulationConstants
<1>2. ASSUME NEW g \in 1..Len(s) PROVE GroupRows(s[g].rows)
  <2> DEFINE R == s[g].rows
  <2>1. g \in DOMAIN s
    BY <1>1 DEF IsList
  <2>2. /\ IsList(R) /\ R = [k \in 1..Len(R) |-> R[k]]
        /\ \A k \in DOMAIN R : R[k].cell # None => IsCell(R[k].cell)
        /\ \A j, k \in DOMAIN R :
             j < k /\ R[j].cell # None /\ R[k].cell # None => R[j].cell[1] <= R[k].cell[1]
        /\ \/ \A k \in DOMAIN R : R[k].cell # None => R[k].base # None /\ IsCell(R[k].base)
           \/ \A k \in DOMAIN R : R[k].cell # None => R[k].base = None
    BY <2>1, PopulationConstants
  <2>3. DOMAIN R = 1..Len(R)
    BY <2>2 DEF IsList
  <2> HIDE DEF R
  <2>4. GroupRows(R)
    BY <2>2, <2>3 DEF GroupRows
  <2> QED
    BY <2>4 DEF R
<1> QED
  BY <1>1, <1>2

(* What the accumulator knows of the first rows of R.                        *)
LocatedIn(R, n) == {k \in 1..n : R[k].cell # None}
BasedIn(R, n) == {k \in LocatedIn(R, n) : R[k].base # None}
CellsIn(R, n) == {R[k].cell : k \in LocatedIn(R, n)}
ShiftOf(r) == <<r.base[1] - r.cell[1], r.base[2] - r.cell[2]>>
AccRight(a, R) ==
  /\ a.count \in 0..Len(R)
  /\ Swept(a, CellsIn(R, a.count))
  /\ a.row # None => \E k \in LocatedIn(R, a.count) : a.row = R[k].cell[1]
  /\ (\E k \in 1..a.count : R[k].cell = None) => a.malformed
  /\ a.offsets = {ShiftOf(R[k]) : k \in BasedIn(R, a.count)}
  /\ a.pairs = {<<R[k].cell, R[k].base>> : k \in BasedIn(R, a.count)}

(* A new group has observed nothing.                                        *)
LEMMA NothingKnown ==
  ASSUME NEW R, IsList(R)
  PROVE  AccRight(Grouped!NewGroup, R)
<1> DEFINE a == Grouped!NewGroup
<1>1. /\ IsAcc(a) /\ a.count = 0 /\ a.row = None /\ a.columns = {} /\ a.previous = None /\ a.active = {}
      /\ a.rectangles = {} /\ a.offsets = {} /\ a.pairs = {}
  BY DEF Grouped!NewGroup, IsAcc
<1> HIDE DEF a
<1>2. LocatedIn(R, 0) = {} /\ BasedIn(R, 0) = {} /\ CellsIn(R, 0) = {}
  BY DEF LocatedIn, BasedIn, CellsIn
<1>3. Shown(a) = {}
  BY <1>1 DEF Shown
<1>4. Laid(a, {})
  BY <1>1, <1>3 DEF Laid, Tiles
<1>5. Swept(a, {})
  BY <1>1, <1>4 DEF Swept
<1>6. 0 \in 0..Len(R) /\ ~\E k \in 1..0 : R[k].cell = None
  BY DEF IsList
<1>7. /\ a.offsets = {ShiftOf(R[k]) : k \in BasedIn(R, a.count)}
      /\ a.pairs = {<<R[k].cell, R[k].base>> : k \in BasedIn(R, a.count)}
  BY <1>1, <1>2
<1> QED
  BY <1>1, <1>2, <1>5, <1>6, <1>7 DEF AccRight, a

(* A group that is right is right after the next of its rows.               *)
LEMMA ObservedRight ==
  ASSUME NEW R, GroupRows(R), NEW a, AccRight(a, R), a.count < Len(R)
  PROVE  LET b == Grouped!Observed(a, R[a.count + 1])
         IN  AccRight(b, R) /\ b.count = a.count + 1
<1> DEFINE n == a.count
           m == a.count + 1
           r == R[m]
           C == CellsIn(R, n)
           b == Grouped!Observed(a, r)
           D == IF r.cell = None THEN C ELSE C \cup {r.cell}
<1>1. /\ n \in Nat /\ m \in 1..Len(R) /\ Len(R) \in Nat /\ 1..m = (1..n) \cup {m} /\ m \notin 1..n
      /\ \A k \in 1..n : k \in 1..Len(R) /\ k < m
  BY DEF AccRight, GroupRows, IsList
<1>2. r.cell # None => IsCell(r.cell)
  BY <1>1 DEF GroupRows
<1>3. Swept(a, C)
  BY DEF AccRight
<1>4. ASSUME r.cell # None, a.row # None PROVE a.row <= r.cell[1]
  <2>1. PICK k \in LocatedIn(R, n) : a.row = R[k].cell[1]
    BY <1>4 DEF AccRight
  <2>2. k \in 1..n /\ R[k].cell # None
    BY <2>1 DEF LocatedIn
  <2> QED
    BY <1>1, <1>4, <2>1, <2>2 DEF GroupRows
<1> HIDE DEF n, m, r, C
<1>15. r.cell # None /\ a.row # None => a.row <= r.cell[1]
  BY <1>4
<1>16. SweptWith(Grouped!Observed(a, r), a, C, r)
  BY <1>2, <1>3, <1>15, ObservedSweeps
<1>5. /\ Swept(b, D)
      /\ b.row = IF r.cell = None THEN a.row ELSE r.cell[1]
      /\ b.count = Told(a, r).count /\ b.malformed = (IF r.cell = None THEN TRUE ELSE a.malformed)
      /\ b.offsets = Told(a, r).offsets /\ b.pairs = Told(a, r).pairs
  BY <1>16 DEF SweptWith
<1> HIDE DEF b
<1>6. b.count = m
  BY <1>5 DEF Told, m
<1>7. LocatedIn(R, m) = IF r.cell = None THEN LocatedIn(R, n) ELSE LocatedIn(R, n) \cup {m}
  BY <1>1 DEF LocatedIn, r
<1>8. BasedIn(R, m) = IF r.cell # None /\ r.base # None THEN BasedIn(R, n) \cup {m} ELSE BasedIn(R, n)
  BY <1>1, <1>7 DEF BasedIn, r
<1>9. CellsIn(R, m) = D
  BY <1>7 DEF CellsIn, r, C
<1>10. b.row # None => \E k \in LocatedIn(R, m) : b.row = R[k].cell[1]
  <2>1. a.row # None => \E k \in LocatedIn(R, n) : a.row = R[k].cell[1]
    BY DEF AccRight, n
  <2> QED
    BY <1>5, <1>7, <2>1 DEF r
<1>11. (\E k \in 1..m : R[k].cell = None) => b.malformed
  <2>1. (\E k \in 1..n : R[k].cell = None) => a.malformed
    BY DEF AccRight, n
  <2> QED
    BY <1>1, <1>5, <2>1 DEF r
<1>12. b.offsets = {ShiftOf(R[k]) : k \in BasedIn(R, m)}
  <2>1. a.offsets = {ShiftOf(R[k]) : k \in BasedIn(R, n)}
    BY DEF AccRight, n
  <2>2. b.offsets = IF r.cell # None /\ r.base # None THEN a.offsets \cup {ShiftOf(r)} ELSE a.offsets
    BY <1>5 DEF Told, ShiftOf
  <2> QED
    BY <1>8, <2>1, <2>2 DEF r
<1>13. b.pairs = {<<R[k].cell, R[k].base>> : k \in BasedIn(R, m)}
  <2>1. a.pairs = {<<R[k].cell, R[k].base>> : k \in BasedIn(R, n)}
    BY DEF AccRight, n
  <2>2. b.pairs = IF r.cell # None /\ r.base # None THEN a.pairs \cup {<<r.cell, r.base>>} ELSE a.pairs
    BY <1>5 DEF Told
  <2> QED
    BY <1>8, <2>1, <2>2 DEF r
<1>14. AccRight(b, R)
  <2> HIDE DEF D
  <2> QED
    BY <1>1, <1>5, <1>6, <1>9, <1>10, <1>11, <1>12, <1>13 DEF AccRight
<1> QED
  BY <1>6, <1>14 DEF b, r, m

(* What tiles the cells of a group is its cells, and each once.              *)
LEMMA TilesAreCells ==
  ASSUME NEW S, NEW C, Tiles(S, C), \A c \in C : IsCell(c)
  PROVE  /\ UNION {Grouped!Inside(r) : r \in S} = C
         /\ \A r, s \in S : r # s => Grouped!Inside(r) \cap Grouped!Inside(s) = {}
<1>1. \A r \in S : IsBox(r)
  BY DEF Tiles
<1>2. ASSUME NEW r \in S, NEW y, NEW x
      PROVE  <<y, x>> \in Grouped!Inside(r) <=> y \in Int /\ x \in Int /\ Has(r, y, x)
  BY <1>1 DEF Grouped!Inside, IsBox, Has
<1>3. ASSUME NEW r \in S, NEW c \in Grouped!Inside(r) PROVE c = <<c[1], c[2]>>
  BY DEF Grouped!Inside
<1>4. ASSUME NEW c \in C PROVE \E r \in S : c \in Grouped!Inside(r)
  <2>1. c = <<c[1], c[2]>> /\ c[1] \in Int /\ c[2] \in Int
    BY DEF IsCell
  <2>2. PICK r \in S : Has(r, c[1], c[2])
    BY <1>4, <2>1 DEF Tiles
  <2>3. <<c[1], c[2]>> \in Grouped!Inside(r)
    BY <1>2, <2>1, <2>2
  <2> QED
    BY <2>1, <2>3
<1>5. ASSUME NEW r \in S, NEW c \in Grouped!Inside(r) PROVE c \in C
  <2>1. c = <<c[1], c[2]>>
    BY <1>3
  <2>2. c[1] \in Int /\ c[2] \in Int /\ Has(r, c[1], c[2])
    BY <1>2, <2>1
  <2>3. <<c[1], c[2]>> \in C
    BY <2>2 DEF Tiles
  <2> QED
    BY <2>1, <2>3
<1>6. ASSUME NEW r \in S, NEW s \in S, r # s, NEW c \in Grouped!Inside(r), c \in Grouped!Inside(s) PROVE FALSE
  <2>1. c = <<c[1], c[2]>>
    BY <1>3
  <2>2. c[1] \in Int /\ c[2] \in Int /\ Has(r, c[1], c[2]) /\ Has(s, c[1], c[2])
    BY <1>2, <1>6, <2>1
  <2> QED
    BY <1>6, <2>2 DEF Tiles
<1> QED
  BY <1>4, <1>5, <1>6

(* A codec stands for the members.                                           *)
StandsFor(codec, R) ==
  /\ Grouped!CellSet(codec) = {r.cell : r \in Grouped!ToSet(R)}
  /\ \A r, s \in codec.rectangles : r # s => Grouped!Inside(r) \cap Grouped!Inside(s) = {}
  /\ Grouped!Decoded(codec) = {<<r.cell, r.base>> : r \in Grouped!ToSet(R)}

(* The rectangles or pairs of a finished group stand for its members.       *)
LEMMA MembershipStands ==
  ASSUME NEW R, GroupRows(R), NEW a, AccRight(a, R), a.count = Len(R), ~a.malformed,
         Grouped!Membership(a) # None
  PROVE  StandsFor(Grouped!Membership(a), R)
<1> DEFINE n == Len(R)
           codec == Grouped!Membership(a)
           tiles == Grouped!Finished(a).rectangles
           C == CellsIn(R, n)
<1>1. n \in Nat /\ DOMAIN R = 1..n
  BY DEF GroupRows, IsList
<1>2. \A k \in 1..n : R[k].cell # None /\ IsCell(R[k].cell)
  BY DEF AccRight, GroupRows
<1>3. LocatedIn(R, n) = 1..n
  BY <1>2 DEF LocatedIn
<1>4. C = {R[k].cell : k \in 1..n}
  BY <1>3 DEF CellsIn
<1>5. Grouped!ToSet(R) = {R[k] : k \in 1..n}
  BY <1>1 DEF Grouped!ToSet
<1>6. {r.cell : r \in Grouped!ToSet(R)} = C
  BY <1>4, <1>5
<1>7. \A c \in C : IsCell(c)
  BY <1>2, <1>4
<1>8. Tiles(tiles, C)
  <2>1. Swept(a, C)
    BY DEF AccRight
  <2> HIDE DEF C, tiles
  <2> QED
    BY <2>1, FinishedTiles DEF tiles
<1>9. a.pairs = {<<R[k].cell, R[k].base>> : k \in BasedIn(R, n)} /\ a.offsets = {ShiftOf(R[k]) : k \in BasedIn(R, n)}
  BY DEF AccRight
<1>10. /\ UNION {Grouped!Inside(r) : r \in tiles} = C
       /\ \A r, s \in tiles : r # s => Grouped!Inside(r) \cap Grouped!Inside(s) = {}
  <2> HIDE DEF C, tiles
  <2> QED
    BY <1>7, <1>8, TilesAreCells
<1> DEFINE P == {<<r.cell, r.base>> : r \in Grouped!ToSet(R)}
<1>11. P = {<<R[k].cell, R[k].base>> : k \in 1..n}
  BY <1>5
<1>12. \/ \A k \in 1..n : R[k].base # None /\ IsCell(R[k].base)
       \/ \A k \in 1..n : R[k].base = None
  BY <1>2 DEF GroupRows
<1>13. \/ codec = [rectangles |-> tiles, shift |-> CHOOSE o \in a.offsets : TRUE, pairs |-> {}]
          /\ Cardinality(a.offsets) = 1
       \/ codec = [rectangles |-> tiles, shift |-> None, pairs |-> a.pairs]
          /\ Cardinality(a.pairs) = n
  BY DEF Grouped!Membership, Grouped!Cardinality, Cardinality
<1>14. IsFiniteSet(a.offsets) /\ IsFiniteSet(a.pairs)
  <2>1. IsFiniteSet(BasedIn(R, n))
    <3>1. BasedIn(R, n) \in SUBSET (1..n)
      BY DEF BasedIn, LocatedIn
    <3> QED
      BY <1>1, <3>1, UpTo
  <2> DEFINE B == BasedIn(R, n)
             f == [k \in B |-> ShiftOf(R[k])]
             g == [k \in B |-> <<R[k].cell, R[k].base>>]
  <2>2. DOMAIN f = B /\ DOMAIN g = B
    OBVIOUS
  <2>3. {f[k] : k \in B} = a.offsets /\ {g[k] : k \in B} = a.pairs
    BY <1>9
  <2> HIDE DEF f, g, B
  <2>4. IsFiniteSet({f[k] : k \in B}) /\ IsFiniteSet({g[k] : k \in B})
    BY <2>1, <2>2, ImageFinite DEF B
  <2> QED
    BY <2>3, <2>4
<1> HIDE DEF n, codec, tiles, C, P
<1>15. Grouped!CellSet(codec) = C /\ codec.rectangles = tiles
  BY <1>10, <1>13 DEF Grouped!CellSet
<1>16. Grouped!Decoded(codec) = P
  <2>1. CASE codec = [rectangles |-> tiles, shift |-> CHOOSE o \in a.offsets : TRUE, pairs |-> {}]
             /\ Cardinality(a.offsets) = 1
    <3>1. PICK o : a.offsets = {o}
      BY <1>14, <2>1, FS_Singleton
    <3>2. codec.shift = o
      BY <2>1, <3>1
    <3>3. PICK j \in BasedIn(R, n) : o = ShiftOf(R[j])
      BY <1>9, <3>1
    <3>4. j \in 1..n /\ R[j].base # None
      BY <3>3 DEF BasedIn, LocatedIn
    <3>5. \A k \in 1..n : R[k].base # None /\ IsCell(R[k].base)
      BY <1>12, <3>4
    <3>6. BasedIn(R, n) = 1..n
      BY <1>3, <3>5 DEF BasedIn
    <3>7. \A k \in 1..n : ShiftOf(R[k]) = o
      BY <1>9, <3>1, <3>6
    <3>8. o \in Int \X Int
      BY <1>2, <3>3, <3>4, <3>5 DEF ShiftOf, IsCell
    <3>9. o # None
      BY <3>8, PopulationConstants
    <3>10. Grouped!Decoded(codec) = {<<c, <<c[1] + o[1], c[2] + o[2]>>>> : c \in C}
      BY <1>15, <3>2, <3>9 DEF Grouped!Decoded
    <3>11. ASSUME NEW k \in 1..n
           PROVE  <<R[k].cell[1] + o[1], R[k].cell[2] + o[2]>> = R[k].base
      <4>1. o[1] = R[k].base[1] - R[k].cell[1] /\ o[2] = R[k].base[2] - R[k].cell[2]
        BY <3>7 DEF ShiftOf
      <4>2. R[k].base[1] \in Int /\ R[k].base[2] \in Int /\ R[k].cell[1] \in Int /\ R[k].cell[2] \in Int
            /\ R[k].base = <<R[k].base[1], R[k].base[2]>>
        BY <1>2, <3>5 DEF IsCell
      <4>3. R[k].cell[1] + o[1] = R[k].base[1] /\ R[k].cell[2] + o[2] = R[k].base[2]
        BY <4>1, <4>2
      <4> QED
        BY <4>2, <4>3
    <3>12. {<<c, <<c[1] + o[1], c[2] + o[2]>>>> : c \in C} = P
      BY <1>4, <1>11, <3>11
    <3> QED
      BY <3>10, <3>12
  <2>2. CASE codec = [rectangles |-> tiles, shift |-> None, pairs |-> a.pairs]
             /\ Cardinality(a.pairs) = n
    <3>1. Grouped!Decoded(codec) = a.pairs
      BY <2>2 DEF Grouped!Decoded
    <3>2. CASE \A k \in 1..n : R[k].base # None /\ IsCell(R[k].base)
      <4>1. BasedIn(R, n) = 1..n
        BY <1>3, <3>2 DEF BasedIn
      <4> QED
        BY <1>9, <1>11, <3>1, <4>1
    <3>3. CASE \A k \in 1..n : R[k].base = None
      <4>1. BasedIn(R, n) = {}
        BY <3>3, <1>3 DEF BasedIn
      <4>2. a.pairs = {}
        BY <1>9, <4>1
      <4>3. n = 0
        BY <2>2, <4>2, FS_EmptySet
      <4>4. 1..n = {}
        BY <4>3
      <4> QED
        BY <1>11, <3>1, <4>2, <4>4
    <3> QED
      BY <1>12, <3>2, <3>3
  <2> QED
    BY <1>13, <2>1, <2>2
<1>17. StandsFor(codec, R)
  BY <1>6, <1>10, <1>15, <1>16 DEF StandsFor, P
<1> QED
  BY <1>17 DEF codec

(* A sequence of anything, and one more.                                     *)
IsSeq(s) == \E E : s \in Seq(E)

(* A sequence written as a function, with one element more.                 *)
LEMMA AppendIsSeq ==
  ASSUME NEW s, IsSeq(s), NEW x
  PROVE  LET t == Append(s, x)
         IN  /\ IsSeq(t) /\ Len(t) = Len(s) + 1 /\ Len(s) \in Nat /\ t[Len(s) + 1] = x
             /\ \A k \in 1..Len(s) : t[k] = s[k]
<1>1. PICK E : s \in Seq(E)
  BY DEF IsSeq
<1> DEFINE D == E \cup {x}
<1>2. s \in Seq(D) /\ x \in D
  BY <1>1
<1> HIDE DEF D
<1>3. /\ Append(s, x) \in Seq(D) /\ Len(Append(s, x)) = Len(s) + 1 /\ Len(s) \in Nat
      /\ Append(s, x)[Len(s) + 1] = x /\ \A k \in 1..Len(s) : Append(s, x)[k] = s[k]
  BY <1>2, OfAppend
<1> QED
  BY <1>3 DEF IsSeq

(* Where the rows of each group begin among all.                             *)
GroupSizes(s) == [k \in 1..Len(s) |-> Len(s[k].rows)]
StartsOf(s) == CHOOSE g : Sums(GroupSizes(s), Len(s), g)

(* A group starts where the rows of those before it end.                    *)
LEMMA StartsAreSums ==
  ASSUME NEW s \in Candidates
  PROVE  /\ Sums(GroupSizes(s), Len(s), StartsOf(s))
         /\ StartsOf(s)[0] = 0
         /\ \A k \in 1..Len(s) : StartsOf(s)[k] = StartsOf(s)[k - 1] + Len(s[k].rows)
         /\ \A k \in 0..Len(s) : StartsOf(s)[k] \in Nat
<1> DEFINE n == Len(s)
           g == StartsOf(s)
           w == GroupSizes(s)
<1>1. n \in Nat /\ \A k \in 1..n : w[k] = Len(s[k].rows) /\ w[k] \in Nat
  BY CandidatesAre DEF IsList, GroupRows, GroupSizes
<1>2. Sums(w, n, g)
  <2>2. \A k \in 1..n : w[k] \in Int
    BY <1>1
  <2> HIDE DEF w, n, g
  <2>1. \E f \in [0..n -> Int] : Sums(w, n, f)
    BY <1>1, <2>2, SumsExist
  <2> QED
    BY <2>1 DEF StartsOf, g, w, n
<1> HIDE DEF w, n, g
<1>3. g[0] = 0 /\ \A k \in 1..n : g[k] = g[k - 1] + w[k]
  BY <1>1, <1>2 DEF Sums
<1> DEFINE S == {k \in Nat : k <= n => g[k] \in Nat}
<1>4. 0 \in S
  BY <1>3
<1>5. ASSUME NEW k \in Nat, k \in S PROVE k + 1 \in S
  <2> SUFFICES ASSUME k + 1 <= n PROVE g[k + 1] \in Nat
    OBVIOUS
  <2>1. k + 1 \in 1..n /\ (k + 1) - 1 = k /\ g[k] \in Nat
    BY <1>1, <1>5
  <2>2. g[k + 1] = g[k] + w[k + 1]
    BY <1>3, <2>1
  <2> QED
    BY <1>1, <2>1, <2>2
<1> HIDE DEF S
<1>6. \A k \in Nat : k \in S
  BY <1>4, <1>5, Induction
<1> QED
  BY <1>1, <1>2, <1>3, <1>6 DEF S, g, n, w

(* The rows read so far are copied in their order.                           *)
CopiedRight ==
  /\ IsSeq(ordered)
  /\ Len(ordered) = StartsOf(spilled)[group - 1] + acc.count
  /\ \A i \in 1..Len(spilled) : \A k \in 1..Len(spilled[i].rows) :
       i < group \/ (i = group /\ k <= acc.count) => ordered[StartsOf(spilled)[i - 1] + k] = spilled[i].rows[k]

(* Each group read so far is decided, and each population stands for one.    *)
IsPopulation(i) == \E j \in 1..Len(populations) : populations[j].group = i
DecidedRight ==
  /\ IsSeq(decisions) /\ Len(decisions) = group - 1
  /\ \A i \in 1..(group - 1) :
       /\ decisions[i].count = Len(spilled[i].rows)
       /\ decisions[i].action = "replay" <=> spilled[i].inScope /\ ~IsPopulation(i)
  /\ IsSeq(populations)
  /\ \A j \in 1..Len(populations) :
       /\ populations[j].group \in 1..(group - 1)
       /\ StandsFor(populations[j].codec, spilled[populations[j].group].rows)

PopInv ==
  /\ spilled \in Candidates
  /\ group \in 1..(Len(spilled) + 1)
  /\ group <= Len(spilled) => AccRight(acc, spilled[group].rows)
  /\ group > Len(spilled) => acc.count = 0
  /\ CopiedRight
  /\ DecidedRight
  /\ Grouped!MembersExact

(* No group has been read at first.                                         *)
LEMMA PopBegins == Grouped!PopInit => PopInv
<1> SUFFICES ASSUME Grouped!PopInit PROVE PopInv
  OBVIOUS
<1>1. /\ spilled \in Candidates /\ group = 1 /\ acc = Grouped!NewGroup
      /\ ordered = <<>> /\ decisions = <<>> /\ populations = <<>> /\ replayed = None
  BY DEF Grouped!PopInit
<1>2. /\ Len(spilled) \in Nat
      /\ \A g \in 1..Len(spilled) : GroupRows(spilled[g].rows)
      /\ StartsOf(spilled)[0] = 0
  BY <1>1, CandidatesAre, StartsAreSums DEF IsList
<1>3. acc.count = 0
  BY <1>1 DEF Grouped!NewGroup
<1>4. ASSUME group <= Len(spilled) PROVE AccRight(acc, spilled[group].rows)
  <2>1. group \in 1..Len(spilled)
    BY <1>1, <1>2, <1>4
  <2>2. IsList(spilled[group].rows)
    BY <1>2, <2>1 DEF GroupRows
  <2> QED
    BY <1>1, <2>2, NothingKnown
<1>5. IsSeq(ordered) /\ IsSeq(decisions) /\ IsSeq(populations)
      /\ Len(ordered) = 0 /\ Len(decisions) = 0 /\ Len(populations) = 0 /\ DOMAIN populations = {}
  BY <1>1 DEF IsSeq
<1>6. CopiedRight
  BY <1>1, <1>2, <1>3, <1>5 DEF CopiedRight
<1>7. DecidedRight
  BY <1>1, <1>5 DEF DecidedRight
<1>8. Grouped!MembersExact
  BY <1>1, <1>5 DEF Grouped!MembersExact
<1> QED
  BY <1>1, <1>2, <1>3, <1>4, <1>6, <1>7, <1>8 DEF PopInv

(* MembersExact follows from what is decided, until the rows are replayed.   *)
LEMMA PopulationsStand ==
  ASSUME DecidedRight, replayed = None
  PROVE  Grouped!MembersExact
<1>1. \A j \in DOMAIN populations : StandsFor(populations[j].codec, spilled[populations[j].group].rows)
  BY DEF DecidedRight, IsSeq
<1> QED
  BY <1>1 DEF Grouped!MembersExact, StandsFor

(* Later groups begin later.                                                 *)
LEMMA StartsGrow ==
  ASSUME NEW s \in Candidates, NEW i \in 0..Len(s), NEW j \in 0..Len(s), i <= j
  PROVE  StartsOf(s)[i] <= StartsOf(s)[j]
<1> DEFINE n == Len(s)
           g == StartsOf(s)
           T == {d \in Nat : i + d <= n => g[i] <= g[i + d]}
<1>1. n \in Nat /\ \A k \in 1..n : Len(s[k].rows) \in Nat
  BY CandidatesAre DEF IsList, GroupRows
<1>2. /\ \A k \in 1..n : g[k] = g[k - 1] + Len(s[k].rows)
      /\ \A k \in 0..n : g[k] \in Nat
  BY StartsAreSums
<1> HIDE DEF n, g
<1>3. 0 \in T
  <2>1. i + 0 = i /\ i \in 0..n
    BY <1>1 DEF n
  <2> QED
    BY <1>2, <2>1
<1>4. ASSUME NEW d \in Nat, d \in T PROVE d + 1 \in T
  <2> SUFFICES ASSUME i + (d + 1) <= n PROVE g[i] <= g[i + (d + 1)]
    OBVIOUS
  <2>1. i \in 0..n
    BY DEF n
  <2>2. i + d <= n /\ i + (d + 1) \in 1..n /\ (i + (d + 1)) - 1 = i + d /\ i + d \in 0..n
    BY <1>1, <2>1
  <2>3. g[i + (d + 1)] = g[i + d] + Len(s[i + (d + 1)].rows)
    BY <1>2, <2>2
  <2>4. g[i] <= g[i + d] /\ g[i] \in Nat /\ g[i + d] \in Nat
    BY <1>2, <1>4, <2>1, <2>2
  <2>5. Len(s[i + (d + 1)].rows) \in Nat
    BY <1>1, <2>2
  <2> QED
    BY <2>3, <2>4, <2>5
<1> HIDE DEF T
<1>5. \A d \in Nat : d \in T
  BY <1>3, <1>4, Induction
<1>6. j - i \in Nat /\ i + (j - i) = j /\ j <= n
  BY <1>1 DEF n
<1>7. j - i \in T
  BY <1>5, <1>6
<1> QED
  BY <1>6, <1>7 DEF T, g, n

(* Observing a row keeps what is known of the group (iter_groups).         *)
LEMMA ObserveKeeps ==
  ASSUME PopInv, Grouped!Observe
  PROVE  PopInv'
<1> DEFINE R == spilled[group].rows
           n == acc.count
           r == R[n + 1]
<1>1. /\ group \in 1..Len(spilled) /\ n < Len(R)
      /\ ordered' = Append(ordered, r) /\ acc' = Grouped!Observed(acc, r)
      /\ UNCHANGED <<spilled, group, decisions, populations, replayed>>
  BY DEF Grouped!Observe, PopInv
<1>2. /\ spilled \in Candidates /\ Len(spilled) \in Nat
      /\ \A g \in 1..Len(spilled) : GroupRows(spilled[g].rows) /\ Len(spilled[g].rows) \in Nat
  BY CandidatesAre DEF PopInv, IsList, GroupRows
<1>3. AccRight(acc', R) /\ acc'.count = n + 1
  <2>1. GroupRows(R) /\ AccRight(acc, R)
    BY <1>1, <1>2 DEF PopInv
  <2> QED
    BY <1>1, <2>1, ObservedRight
<1>4. n \in Nat /\ n <= Len(R)
  BY <1>1, <1>2 DEF PopInv, AccRight
<1> DEFINE S == StartsOf(spilled)
<1>5. /\ \A k \in 1..Len(spilled) : S[k] = S[k - 1] + Len(spilled[k].rows)
      /\ \A k \in 0..Len(spilled) : S[k] \in Nat
  BY <1>2, StartsAreSums
<1>6. CopiedRight'
  <2>1. /\ IsSeq(ordered') /\ Len(ordered') = Len(ordered) + 1 /\ Len(ordered) \in Nat
        /\ ordered'[Len(ordered) + 1] = r
        /\ \A k \in 1..Len(ordered) : ordered'[k] = ordered[k]
    BY <1>1, AppendIsSeq DEF PopInv, CopiedRight
  <2>2. Len(ordered) = S[group - 1] + n
    BY DEF PopInv, CopiedRight
  <2>3. group - 1 \in 0..Len(spilled) /\ S[group - 1] \in Nat
    BY <1>1, <1>2, <1>5
  <2>4. ASSUME NEW i \in 1..Len(spilled), NEW k \in 1..Len(spilled[i].rows),
               i < group \/ (i = group /\ k <= n)
        PROVE  ordered'[S[i - 1] + k] = spilled[i].rows[k]
    <3>1. ordered[S[i - 1] + k] = spilled[i].rows[k]
      BY <2>4 DEF PopInv, CopiedRight
    <3>2. S[i - 1] \in Nat /\ k \in Nat /\ k >= 1 /\ i \in Nat
      BY <1>2, <1>5
    <3>3. S[i - 1] + k <= S[group - 1] + n
      <4>1. CASE i = group
        BY <2>4, <4>1, <1>4, <3>2
      <4>2. CASE i < group
        <5>1. S[i] = S[i - 1] + Len(spilled[i].rows) /\ k <= Len(spilled[i].rows)
          BY <1>2, <1>5
        <5>2. S[i] <= S[group - 1]
          <6>1. i \in 0..Len(spilled) /\ i <= group - 1
            BY <1>1, <1>2, <4>2
          <6> QED
            BY <1>2, <2>3, <6>1, StartsGrow
        <5>3. S[i] \in Nat /\ Len(spilled[i].rows) \in Nat
          BY <1>2, <1>5
        <5> HIDE DEF S, n
        <5> QED
          BY <1>4, <2>3, <3>2, <5>1, <5>2, <5>3
      <4> QED
        BY <2>4, <4>1, <4>2
    <3>4. S[i - 1] + k \in 1..Len(ordered)
      BY <2>1, <2>2, <2>3, <3>2, <3>3
    <3> QED
      BY <2>1, <3>1, <3>4
  <2>5. ordered'[S[group - 1] + (n + 1)] = r
    <3>1. S[group - 1] + (n + 1) = Len(ordered) + 1
      BY <1>4, <2>2, <2>3
    <3> QED
      BY <2>1, <3>1
  <2>6. Len(ordered') = S[group - 1] + (n + 1)
    BY <1>4, <2>1, <2>2, <2>3
  <2>7. ASSUME NEW i \in 1..Len(spilled), NEW k \in 1..Len(spilled[i].rows),
               i < group \/ (i = group /\ k <= n + 1)
        PROVE  ordered'[S[i - 1] + k] = spilled[i].rows[k]
    <3>1. CASE i = group /\ k = n + 1
      BY <2>5, <3>1
    <3>2. CASE ~(i = group /\ k = n + 1)
      <4>1. i < group \/ (i = group /\ k <= n)
        BY <1>2, <1>4, <2>7, <3>2
      <4> QED
        BY <2>4, <4>1
    <3> QED
      BY <3>1, <3>2
  <2> QED
    BY <1>1, <1>3, <2>1, <2>6, <2>7 DEF CopiedRight
<1>7. DecidedRight'
  BY <1>1 DEF PopInv, DecidedRight, IsPopulation
<1>8. Grouped!MembersExact'
  BY <1>1 DEF PopInv, Grouped!MembersExact
<1>9. group <= Len(spilled)
  BY <1>1, <1>2
<1> QED
  BY <1>1, <1>3, <1>6, <1>7, <1>8, <1>9 DEF PopInv

(* So does deciding a group, which begins the next one (finalize_populations). *)
LEMMA DecideGroupKeeps ==
  ASSUME PopInv, Grouped!DecideGroup, replayed = None
  PROVE  PopInv'
<1> DEFINE g0 == spilled[group]
           R == spilled[group].rows
           action == Grouped!Action(g0, acc)
           n == acc.count
<1>1. /\ group \in 1..Len(spilled) /\ n = Len(R)
      /\ decisions' = Append(decisions, [count |-> n, action |-> action])
      /\ populations' = IF action = "population"
                        THEN Append(populations, [group |-> group, codec |-> Grouped!Membership(acc)])
                        ELSE populations
      /\ group' = group + 1 /\ acc' = Grouped!NewGroup
      /\ UNCHANGED <<spilled, ordered, replayed>>
  BY DEF Grouped!DecideGroup, PopInv
<1>2. /\ spilled \in Candidates /\ Len(spilled) \in Nat
      /\ \A g \in 1..Len(spilled) : GroupRows(spilled[g].rows) /\ Len(spilled[g].rows) \in Nat
  BY CandidatesAre DEF PopInv, IsList, GroupRows
<1>3. acc'.count = 0
  BY <1>1 DEF Grouped!NewGroup
<1>4. ASSUME group' <= Len(spilled') PROVE AccRight(acc', spilled'[group'].rows)
  <2>1. group + 1 \in 1..Len(spilled)
    BY <1>1, <1>2, <1>4
  <2>2. IsList(spilled[group + 1].rows)
    BY <1>2, <2>1 DEF GroupRows
  <2> QED
    BY <1>1, <2>2, NothingKnown
<1> DEFINE S == StartsOf(spilled)
<1>5. /\ \A k \in 1..Len(spilled) : S[k] = S[k - 1] + Len(spilled[k].rows)
      /\ \A k \in 0..Len(spilled) : S[k] \in Nat
  BY <1>2, StartsAreSums
<1>6. CopiedRight'
  <2>1. Len(ordered) = S[group - 1] + n
    BY DEF PopInv, CopiedRight
  <2>2. Len(ordered) = S[group] + 0 /\ group' - 1 = group
    BY <1>1, <1>2, <1>5, <2>1
  <2>3. ASSUME NEW i \in 1..Len(spilled), NEW k \in 1..Len(spilled[i].rows),
               i < group + 1 \/ (i = group + 1 /\ k <= 0)
        PROVE  ordered[S[i - 1] + k] = spilled[i].rows[k]
    <3>1. i < group \/ (i = group /\ k <= n)
      BY <1>1, <1>2, <2>3
    <3> QED
      BY <3>1 DEF PopInv, CopiedRight
  <2>4. IsSeq(ordered)
    BY DEF PopInv, CopiedRight
  <2>5. StartsOf(spilled)' = S /\ ordered' = ordered /\ spilled' = spilled /\ group' = group + 1
    BY <1>1
  <2> HIDE DEF S
  <2>6. Len(ordered') = StartsOf(spilled)'[group' - 1] + acc'.count
    BY <1>3, <2>2, <2>5
  <2>7. \A i \in 1..Len(spilled) : \A k \in 1..Len(spilled[i].rows) :
          i < group + 1 \/ (i = group + 1 /\ k <= 0) => ordered[S[i - 1] + k] = spilled[i].rows[k]
    BY <2>3
  <2> QED
    BY <1>3, <2>4, <2>5, <2>6, <2>7 DEF CopiedRight
<1>7. AccRight(acc, R) /\ GroupRows(R) /\ Grouped!Action(g0, acc) = action
  BY <1>1, <1>2 DEF PopInv
<1>8. action = "population" => StandsFor(Grouped!Membership(acc), R)
  <2> SUFFICES ASSUME action = "population" PROVE StandsFor(Grouped!Membership(acc), R)
    OBVIOUS
  <2>1. ~acc.malformed /\ Grouped!Membership(acc) # None
    BY DEF Grouped!Action
  <2> QED
    BY <1>1, <1>7, <2>1, MembershipStands
<1>9. /\ action = "replay" <=> g0.inScope /\ action # "population"
      /\ action = "population" => action # "replay"
  BY DEF Grouped!Action
<1> HIDE DEF action
<1>10. /\ IsSeq(decisions') /\ Len(decisions') = group /\ Len(decisions) = group - 1
       /\ decisions'[group] = [count |-> n, action |-> action]
       /\ \A i \in 1..(group - 1) : decisions'[i] = decisions[i]
  <2>1. IsSeq(decisions) /\ Len(decisions) = group - 1 /\ (group - 1) + 1 = group
    BY <1>1 DEF PopInv, DecidedRight
  <2> QED
    BY <1>1, <2>1, AppendIsSeq
<1>11. /\ IsSeq(populations') /\ Len(populations) \in Nat
       /\ \A j \in 1..Len(populations) : j \in 1..Len(populations') /\ populations'[j] = populations[j]
       /\ action = "population" =>
            /\ Len(populations') = Len(populations) + 1
            /\ populations'[Len(populations')] = [group |-> group, codec |-> Grouped!Membership(acc)]
       /\ action # "population" => Len(populations') = Len(populations)
  <2>1. IsSeq(populations)
    BY DEF PopInv, DecidedRight
  <2>2. CASE action = "population"
    <3> DEFINE x == [group |-> group, codec |-> Grouped!Membership(acc)]
    <3>1. populations' = Append(populations, x)
      BY <1>1, <2>2
    <3> HIDE DEF x
    <3>2. /\ IsSeq(populations') /\ Len(populations') = Len(populations) + 1 /\ Len(populations) \in Nat
          /\ populations'[Len(populations) + 1] = x
          /\ \A k \in 1..Len(populations) : populations'[k] = populations[k]
      BY <2>1, <3>1, AppendIsSeq
    <3> QED
      BY <2>2, <3>2 DEF x
  <2>3. CASE action # "population"
    BY <1>1, <2>1, <2>3 DEF IsSeq
  <2> QED
    BY <2>2, <2>3
<1>12. \A j \in 1..Len(populations) : populations[j].group \in 1..(group - 1)
  BY DEF PopInv, DecidedRight
<1>13. ASSUME NEW j \in 1..Len(populations')
       PROVE  \/ j \in 1..Len(populations)
              \/ action = "population" /\ j = Len(populations')
  BY <1>11
<1>14. \A i : IsPopulation(i)' <=> IsPopulation(i) \/ (action = "population" /\ i = group)
  <2>1. ASSUME NEW i, IsPopulation(i)' PROVE IsPopulation(i) \/ (action = "population" /\ i = group)
    <3>1. PICK j \in 1..Len(populations') : populations'[j].group = i
      BY <2>1 DEF IsPopulation
    <3> QED
      BY <1>11, <1>13, <3>1 DEF IsPopulation
  <2>2. ASSUME NEW i, IsPopulation(i) PROVE IsPopulation(i)'
    BY <1>11, <2>2 DEF IsPopulation
  <2>3. ASSUME NEW i, action = "population", i = group PROVE IsPopulation(i)'
    <3>1. Len(populations') \in 1..Len(populations') /\ populations'[Len(populations')].group = i
      BY <1>11, <2>3
    <3> QED
      BY <3>1 DEF IsPopulation
  <2> QED
    BY <2>1, <2>2, <2>3
<1>15. ~IsPopulation(group)
  BY <1>1, <1>12 DEF IsPopulation
<1>16. DecidedRight'
  <2>1. ASSUME NEW i \in 1..group
        PROVE  /\ decisions'[i].count = Len(spilled[i].rows)
               /\ decisions'[i].action = "replay" <=> spilled[i].inScope /\ ~IsPopulation(i)'
    <3>1. CASE i = group
      BY <1>1, <1>9, <1>10, <1>14, <1>15, <3>1
    <3>2. CASE i # group
      <4>1. i \in 1..(group - 1)
        BY <1>1, <3>2
      <4>2. /\ decisions[i].count = Len(spilled[i].rows)
            /\ decisions[i].action = "replay" <=> spilled[i].inScope /\ ~IsPopulation(i)
        BY <4>1 DEF PopInv, DecidedRight
      <4> QED
        BY <1>10, <1>14, <3>2, <4>1, <4>2
    <3> QED
      BY <3>1, <3>2
  <2>2. ASSUME NEW j \in 1..Len(populations')
        PROVE  /\ populations'[j].group \in 1..group
               /\ StandsFor(populations'[j].codec, spilled[populations'[j].group].rows)
    <3>1. CASE j \in 1..Len(populations)
      <4>1. /\ populations[j].group \in 1..(group - 1)
            /\ StandsFor(populations[j].codec, spilled[populations[j].group].rows)
        BY <3>1 DEF PopInv, DecidedRight
      <4> QED
        BY <1>1, <1>11, <3>1, <4>1
    <3>2. CASE action = "population" /\ j = Len(populations')
      BY <1>1, <1>8, <1>11, <3>2
    <3> QED
      BY <1>13, <3>1, <3>2
  <2>3. group' - 1 = group
    BY <1>1
  <2> QED
    BY <1>1, <1>10, <1>11, <2>1, <2>2, <2>3 DEF DecidedRight, IsPopulation
<1>17. Grouped!MembersExact'
  <2>1. replayed' = None
    BY <1>1
  <2>2. \A j \in DOMAIN populations' : StandsFor(populations'[j].codec, spilled'[populations'[j].group].rows)
    BY <1>16 DEF DecidedRight, IsSeq
  <2> QED
    BY <2>1, <2>2 DEF Grouped!MembersExact, StandsFor
<1>18. group' \in 1..(Len(spilled) + 1)
  BY <1>1, <1>2
<1> QED
  BY <1>1, <1>3, <1>4, <1>6, <1>16, <1>17, <1>18 DEF PopInv
(* The second pass cuts the copy where the groups begin.                     *)
LEMMA ReplayKeeps ==
  ASSUME PopInv, Grouped!Replay
  PROVE  PopInv'
<1> DEFINE n == Len(spilled)
           S == StartsOf(spilled)
           upTo == CHOOSE u : u = [i \in 0..Len(decisions) |->
                                     IF i = 0 THEN 0 ELSE u[i - 1] + decisions[i].count]
           Part(i) == IF decisions[i].action = "replay"
                      THEN SubSeq(ordered, upTo[i - 1] + 1, upTo[i]) ELSE <<>>
           asOne == {populations[i].group : i \in DOMAIN populations}
           Apart(i) == spilled[i].inScope /\ i \notin asOne
<1>1. /\ group = n + 1 /\ n \in Nat /\ spilled \in Candidates
      /\ UNCHANGED <<spilled, group, acc, ordered, decisions, populations>>
      /\ acc.count = 0
      /\ \A g \in 1..n : GroupRows(spilled[g].rows) /\ Len(spilled[g].rows) \in Nat
  <2>1. n \in Nat /\ \A g \in 1..n : GroupRows(spilled[g].rows) /\ Len(spilled[g].rows) \in Nat
    BY CandidatesAre DEF PopInv, IsList, GroupRows
  <2>2. group \in 1..(n + 1) /\ group > n
    BY DEF PopInv, Grouped!Replay
  <2>3. group = n + 1
    BY <2>1, <2>2
  <2> QED
    BY <2>1, <2>2, <2>3 DEF PopInv, Grouped!Replay
<1>2. replayed' = Grouped!FlattenSeq([i \in DOMAIN decisions |-> Part(i)])
  BY DEF Grouped!Replay
<1>3. /\ Sums(GroupSizes(spilled), n, S)
      /\ \A k \in 1..n : S[k] = S[k - 1] + Len(spilled[k].rows)
      /\ \A k \in 0..n : S[k] \in Nat
  BY <1>1, StartsAreSums
<1>4. /\ Len(decisions) = n /\ DOMAIN decisions = 1..n /\ DOMAIN spilled = 1..n
      /\ \A i \in 1..n : /\ decisions[i].count = Len(spilled[i].rows)
                         /\ decisions[i].action = "replay" <=> spilled[i].inScope /\ ~IsPopulation(i)
  <2>1. Len(decisions) = n
    BY <1>1 DEF PopInv, DecidedRight
  <2>2. DOMAIN decisions = 1..n
    BY <2>1 DEF PopInv, DecidedRight, IsSeq
  <2>3. DOMAIN spilled = 1..n
    BY <1>1, CandidatesAre DEF IsList
  <2>4. (n + 1) - 1 = n
    BY <1>1
  <2> QED
    BY <1>1, <2>1, <2>2, <2>3, <2>4 DEF PopInv, DecidedRight
<1>5. \A i \in 0..n : upTo[i] = S[i]
  <2> DEFINE Holds(u) == u = [i \in 0..n |-> IF i = 0 THEN 0 ELSE u[i - 1] + decisions[i].count]
  <2>1. upTo = CHOOSE u : Holds(u)
    BY <1>4
  <2>2. ASSUME NEW u PROVE Holds(u) <=> Sums(GroupSizes(spilled), n, u)
    <3>1. \A i \in 0..n : i # 0 => decisions[i].count = GroupSizes(spilled)[i]
      BY <1>1, <1>4 DEF GroupSizes
    <3> HIDE DEF n
    <3> QED
      BY <3>1 DEF Sums
  <2> HIDE DEF upTo, Holds, n, S
  <2>3. Holds(upTo)
    BY <1>3, <2>1, <2>2
  <2>4. Sums(GroupSizes(spilled), n, upTo)
    BY <2>2, <2>3
  <2> DEFINE w == GroupSizes(spilled)
  <2>5. n <= n /\ \A k \in 1..n : w[k] = w[k]
    BY <1>1
  <2>6. Sums(w, n, upTo) /\ Sums(w, n, S) /\ n \in Nat
    BY <1>1, <1>3, <2>4 DEF n
  <2> HIDE DEF w
  <2> QED
    BY <2>5, <2>6, SumsAgree
<1>6. ASSUME NEW i \in 1..n PROVE SubSeq(ordered, upTo[i - 1] + 1, upTo[i]) = spilled[i].rows
  <2> DEFINE R == spilled[i].rows
             q == SubSeq(ordered, S[i - 1] + 1, S[i])
  <2>1. i - 1 \in 0..n /\ i \in 0..n
    BY <1>1
  <2>2. upTo[i - 1] = S[i - 1] /\ upTo[i] = S[i]
    BY <1>5, <2>1
  <2>3. S[i - 1] \in Nat /\ S[i] \in Nat /\ S[i] = S[i - 1] + Len(R) /\ Len(R) \in Nat
    BY <1>1, <1>3, <2>1
  <2>4. IsSeq(ordered) /\ Len(ordered) = S[n] + 0
    <3>1. (n + 1) - 1 = n
      BY <1>1
    <3> QED
      BY <1>1, <3>1 DEF PopInv, CopiedRight
  <2>5. S[i] <= S[n]
    <3>1. n \in 0..n /\ i <= n
      BY <1>1
    <3> HIDE DEF n
    <3> QED
      BY <1>1, <2>1, <3>1, StartsGrow DEF n
  <2>6. PICK E : ordered \in Seq(E)
    BY <2>4 DEF IsSeq
  <2>7. S[i] <= Len(ordered)
    BY <1>1, <1>3, <2>4, <2>5
  <2>8. \A k \in 1..Len(R) : ordered[S[i - 1] + k] = R[k]
    BY <1>1 DEF PopInv, CopiedRight
  <2> HIDE DEF S, n, upTo
  <2>9. /\ q \in Seq(E) /\ Len(q) = Len(R)
        /\ \A k \in 1..Len(R) : q[k] = ordered[S[i - 1] + k]
    <3> DEFINE at0 == S[i - 1]
               many == Len(R)
    <3>1. at0 \in Nat /\ many \in Nat /\ S[i] = at0 + many /\ at0 + many <= Len(ordered)
      BY <2>3, <2>7
    <3>2. q = SubSeq(ordered, at0 + 1, at0 + many)
      BY <3>1
    <3> HIDE DEF at0, many, q
    <3>3. /\ q \in Seq(E) /\ Len(q) = many
          /\ \A k \in 1..many : q[k] = ordered[at0 + k]
      BY <2>6, <3>1, <3>2, PartOfSequence
    <3> QED
      BY <3>3 DEF at0, many
  <2>10. R = [k \in 1..Len(R) |-> R[k]]
    BY <1>1 DEF GroupRows, n
  <2> HIDE DEF q, R
  <2>11. q = [k \in 1..Len(q) |-> q[k]]
    BY <2>9
  <2>12. q = R
    BY <2>8, <2>9, <2>10, <2>11
  <2> QED
    BY <2>2, <2>12 DEF q, R
<1>7. \A i \in 1..n : Apart(i) <=> spilled[i].inScope /\ ~IsPopulation(i)
  <2>1. DOMAIN populations = 1..Len(populations)
    BY DEF PopInv, DecidedRight, IsSeq
  <2> QED
    BY <2>1 DEF IsPopulation
<1>8. \A i \in 1..n : Part(i) = IF Apart(i) THEN spilled[i].rows ELSE <<>>
  <2> HIDE DEF Apart, upTo, n
  <2> QED
    BY <1>4, <1>6, <1>7
<1>9. [i \in DOMAIN decisions |-> Part(i)] = [i \in DOMAIN spilled |-> IF Apart(i) THEN spilled[i].rows ELSE <<>>]
  <2> HIDE DEF Apart, Part, n
  <2> QED
    BY <1>4, <1>8
<1>10. replayed' = Grouped!FlattenSeq([i \in DOMAIN spilled |-> IF Apart(i) THEN spilled[i].rows ELSE <<>>])
  <2> HIDE DEF Apart, Part, n
  <2> QED
    BY <1>2, <1>9
<1>11. DecidedRight' /\ CopiedRight'
  <2>1. UNCHANGED <<spilled, group, acc, ordered, decisions, populations>>
    BY <1>1
  <2>2. DecidedRight'
    BY <2>1 DEF PopInv, DecidedRight, IsPopulation
  <2>3. CopiedRight'
    BY <2>1 DEF PopInv, CopiedRight
  <2> QED
    BY <2>2, <2>3
<1>12. Grouped!MembersExact'
  <2>1. \A j \in DOMAIN populations : StandsFor(populations[j].codec, spilled[populations[j].group].rows)
    BY DEF PopInv, DecidedRight, IsSeq
  <2> QED
    BY <1>1, <1>10, <2>1 DEF Grouped!MembersExact, StandsFor
<1> QED
  BY <1>1, <1>11, <1>12 DEF PopInv

(* Nothing is replayed before all groups are decided.                        *)
ReplayedLast == replayed # None => group > Len(spilled)

(* Every step of the population output keeps what is known of it.           *)
LEMMA PopSteps ==
  ASSUME PopInv, ReplayedLast, Grouped!PopNext
  PROVE  PopInv' /\ ReplayedLast'
<1>1. CASE Grouped!Observe
  BY <1>1, ObserveKeeps DEF Grouped!Observe, ReplayedLast
<1>2. CASE Grouped!DecideGroup
  <2>1. group \in Int /\ Len(spilled) \in Int /\ group <= Len(spilled)
    BY <1>2, CandidatesAre DEF PopInv, IsList, Grouped!DecideGroup
  <2>2. replayed = None /\ replayed' = None
    BY <1>2, <2>1 DEF ReplayedLast, Grouped!DecideGroup
  <2> QED
    BY <1>2, <2>2, DecideGroupKeeps DEF ReplayedLast
<1>3. CASE Grouped!Replay
  BY <1>3, ReplayKeeps DEF Grouped!Replay, ReplayedLast
<1> QED
  BY <1>1, <1>2, <1>3 DEF Grouped!PopNext

(* So does a step of something else.                                        *)
LEMMA PopStutters ==
  ASSUME PopInv, ReplayedLast, UNCHANGED popVars
  PROVE  PopInv' /\ ReplayedLast'
<1>1. UNCHANGED <<spilled, group, acc, ordered, decisions, populations, replayed>>
  BY DEF popVars
<1>2. CopiedRight'
  BY <1>1 DEF PopInv, CopiedRight
<1>3. DecidedRight'
  BY <1>1 DEF PopInv, DecidedRight, IsPopulation
<1>4. Grouped!MembersExact'
  BY <1>1 DEF PopInv, Grouped!MembersExact
<1> QED
  BY <1>1, <1>2, <1>3, <1>4 DEF PopInv, ReplayedLast

-----------------------------------------------------------------------------
(* What is flattened.                                                       *)

(* g is what FlattenSeq makes of the first elements of q.                   *)
Flattens(E, q, n, g) ==
  /\ g \in [0..n -> Seq(E)] /\ g[0] = <<>>
  /\ \A k \in 1..n : g[k] = g[k - 1] \o q[k]

(* Flattening is a function of the number of sequences.                     *)
LEMMA FlattensExists ==
  ASSUME NEW E, NEW q \in Seq(Seq(E))
  PROVE  \E g : Flattens(E, q, Len(q), g)
<1> DEFINE n == Len(q)
           F == [p \in Nat \X Seq(E) |-> IF p[1] \in 1..n THEN p[2] \o q[p[1]] ELSE p[2]]
<1>1. n \in Nat /\ \A k \in 1..n : q[k] \in Seq(E)
  OBVIOUS
<1> HIDE DEF n
<1>2. F \in [Nat \X Seq(E) -> Seq(E)]
  <2>1. ASSUME NEW p \in Nat \X Seq(E) PROVE (IF p[1] \in 1..n THEN p[2] \o q[p[1]] ELSE p[2]) \in Seq(E)
    <3>1. p[2] \in Seq(E)
      OBVIOUS
    <3>2. ASSUME p[1] \in 1..n PROVE p[2] \o q[p[1]] \in Seq(E)
      <4>1. q[p[1]] \in Seq(E)
        BY <1>1, <3>2
      <4> QED
        BY <3>1, <4>1, Joined
    <3> QED
      BY <3>1, <3>2
  <2> QED
    BY <2>1
<1>3. <<>> \in Seq(E)
  OBVIOUS
<1>4. ASSUME NEW k \in 1..n, NEW s \in Seq(E) PROVE F[<<k, s>>] = s \o q[k]
  <2> DEFINE p == <<k, s>>
  <2>1. p \in Nat \X Seq(E) /\ p[1] = k /\ p[2] = s
    BY <1>1
  <2> HIDE DEF p
  <2>2. F[p] = s \o q[k]
    BY <2>1
  <2> QED
    BY <2>2 DEF p
<1> HIDE DEF F
<1>5. PICK g \in [0..n -> Seq(E)] : Recursive(F, <<>>, n, g)
  BY <1>1, <1>2, <1>3, RecursiveExists
<1>6. g[0] = <<>>
  BY <1>1, <1>5 DEF Recursive
<1>7. ASSUME NEW k \in 1..n PROVE g[k] = g[k - 1] \o q[k]
  <2>1. k \in 0..n /\ k # 0 /\ k - 1 \in 0..n
    BY <1>1
  <2>2. g[k] = F[<<k, g[k - 1]>>]
    BY <1>5, <2>1 DEF Recursive
  <2>3. g[k - 1] \in Seq(E)
    BY <1>5, <2>1
  <2> QED
    BY <1>4, <2>2, <2>3
<1> QED
  BY <1>5, <1>6, <1>7 DEF Flattens, n

(* Whatever flattens the elements gives what FlattenSeq gives.              *)
LEMMA FlattenIs ==
  ASSUME NEW E, NEW q \in Seq(Seq(E)), NEW g, Flattens(E, q, Len(q), g)
  PROVE  Spilled!FlattenSeq(q) = g[Len(q)]
<1> DEFINE n == Len(q)
           Body(f) == [i \in 1..n |-> IF i = 1 THEN q[i] ELSE f[i - 1] \o q[i]]
           Is(f) == f = Body(f)
           flat == CHOOSE f : Is(f)
<1>1. n \in Nat /\ \A k \in 1..n : q[k] \in Seq(E)
  OBVIOUS
<1>2. CASE n = 0
  <2>1. q = <<>>
    BY <1>2
  <2>2. g[0] = <<>>
    BY DEF Flattens
  <2> QED
    BY <1>2, <2>1, <2>2 DEF Spilled!FlattenSeq
<1>3. CASE n # 0
  <2>1. Spilled!FlattenSeq(q) = flat[n]
    BY <1>3 DEF Spilled!FlattenSeq
  <2> HIDE DEF n
  <2> DEFINE h == [i \in 1..n |-> g[i]]
  <2>2. Is(h)
    <3>1. ASSUME NEW i \in 1..n PROVE g[i] = IF i = 1 THEN q[i] ELSE h[i - 1] \o q[i]
      <4>1. g[i] = g[i - 1] \o q[i]
        BY DEF Flattens, n
      <4>2. CASE i = 1
        <5>1. g[0] = <<>> /\ <<>> \o q[i] = q[i]
          BY <1>1 DEF Flattens
        <5>2. i - 1 = 0
          BY <4>2
        <5> QED
          BY <4>1, <4>2, <5>1, <5>2
      <4>3. CASE i # 1
        <5>1. i - 1 \in 1..n
          BY <1>1, <4>3
        <5> QED
          BY <4>1, <4>3, <5>1
      <4> QED
        BY <4>2, <4>3
    <3> QED
      BY <3>1
  <2> HIDE DEF Is, h
  <2>3. Is(flat)
    BY <2>2
  <2> HIDE DEF flat
  <2>4. \A i \in 1..n : flat[i] = IF i = 1 THEN q[i] ELSE flat[i - 1] \o q[i]
    BY <2>3 DEF Is
  <2> DEFINE T == {k \in Nat : k \in 1..n => flat[k] = g[k]}
  <2>5. 0 \in T
    OBVIOUS
  <2>6. ASSUME NEW k \in Nat, k \in T PROVE k + 1 \in T
    <3> SUFFICES ASSUME k + 1 \in 1..n PROVE flat[k + 1] = g[k + 1]
      OBVIOUS
    <3>0. (k + 1) - 1 = k
      OBVIOUS
    <3>1. (k + 1) - 1 = k /\ g[k + 1] = g[k] \o q[k + 1]
      <4>1. g[k + 1] = g[(k + 1) - 1] \o q[k + 1]
        BY DEF Flattens, n
      <4> QED
        BY <3>0, <4>1
    <3>2. CASE k = 0
      <4>1. g[0] = <<>> /\ <<>> \o q[1] = q[1] /\ flat[1] = q[1]
        BY <1>1, <2>4, <3>2 DEF Flattens
      <4> QED
        BY <3>1, <3>2, <4>1
    <3>3. CASE k # 0
      <4>1. k \in 1..n /\ k + 1 # 1
        BY <1>1, <3>3
      <4>2. flat[k + 1] = flat[k] \o q[k + 1]
        BY <2>4, <3>1, <4>1
      <4>3. flat[k] = g[k]
        BY <2>6, <4>1
      <4> QED
        BY <3>1, <4>2, <4>3
    <3> QED
      BY <3>2, <3>3
  <2> HIDE DEF T
  <2>7. \A k \in Nat : k \in T
    BY <2>5, <2>6, Induction
  <2>8. n \in 1..n
    BY <1>1, <1>3
  <2> QED
    BY <1>1, <2>1, <2>7, <2>8 DEF T, n
<1> QED
  BY <1>2, <1>3

(* What has no element twice, put after what has none of it.                *)
LEMMA JoinedOnce ==
  ASSUME NEW E, NEW s \in Seq(E), NEW t \in Seq(E), NoneTwice(s), NoneTwice(t), Of(s) \cap Of(t) = {}
  PROVE  NoneTwice(s \o t)
<1> DEFINE c == s \o t
           m == Len(s)
           n == Len(t)
<1>1. /\ c \in Seq(E) /\ Len(c) = m + n /\ m \in Nat /\ n \in Nat
      /\ \A k \in 1..m : c[k] = s[k]
      /\ \A k \in 1..n : c[m + k] = t[k]
  BY Joined
<1>2. DOMAIN c = 1..(m + n) /\ DOMAIN s = 1..m /\ DOMAIN t = 1..n
  BY <1>1
<1> HIDE DEF c, m, n
<1>3. ASSUME NEW k \in 1..(m + n)
      PROVE  \/ k \in 1..m /\ c[k] = s[k] /\ c[k] \in Of(s)
             \/ k \notin 1..m /\ k - m \in 1..n /\ c[k] = t[k - m] /\ c[k] \in Of(t)
  <2>1. CASE k \in 1..m
    BY <1>1, <1>2, <2>1 DEF Of
  <2>2. CASE k \notin 1..m
    <3>1. k - m \in 1..n /\ m + (k - m) = k
      BY <1>1, <2>2
    <3>2. c[k] = t[k - m]
      BY <1>1, <3>1
    <3> QED
      BY <1>2, <2>2, <3>1, <3>2 DEF Of
  <2> QED
    BY <2>1, <2>2
<1>4. ASSUME NEW j \in 1..(m + n), NEW k \in 1..(m + n), c[j] = c[k] PROVE j = k
  <2>1. CASE j \in 1..m /\ k \in 1..m
    BY <1>2, <1>3, <1>4, <2>1 DEF NoneTwice
  <2>2. CASE j \notin 1..m /\ k \notin 1..m
    <3>1. j - m \in 1..n /\ k - m \in 1..n /\ t[j - m] = t[k - m]
      BY <1>3, <1>4, <2>2
    <3>2. j - m = k - m
      BY <1>2, <3>1 DEF NoneTwice
    <3> QED
      BY <1>1, <3>2
  <2>3. CASE j \in 1..m /\ k \notin 1..m
    BY <1>3, <1>4, <2>3
  <2>4. CASE j \notin 1..m /\ k \in 1..m
    BY <1>3, <1>4, <2>4
  <2> QED
    BY <2>1, <2>2, <2>3, <2>4
<1>5. NoneTwice(c)
  BY <1>2, <1>4 DEF NoneTwice
<1> QED
  BY <1>5 DEF c

(* What is flattened has the elements of all, and none twice if each has    *)
(* none twice and no two share one.                                         *)
LEMMA FlattenHasAll ==
  ASSUME NEW E, NEW q \in Seq(Seq(E))
  PROVE  /\ Spilled!FlattenSeq(q) \in Seq(E)
         /\ \A x : x \in Of(Spilled!FlattenSeq(q)) <=> \E k \in 1..Len(q) : x \in Of(q[k])
<1> DEFINE n == Len(q)
<1>1. n \in Nat /\ \A k \in 1..n : q[k] \in Seq(E)
  OBVIOUS
<1>2. PICK g : Flattens(E, q, n, g)
  BY FlattensExists
<1>3. Spilled!FlattenSeq(q) = g[n]
  BY <1>2, FlattenIs
<1> HIDE DEF n
<1> DEFINE T == {k \in Nat : k <= n => \A x : x \in Of(g[k]) <=> \E j \in 1..k : x \in Of(q[j])}
<1>4. 0 \in T
  <2>1. Of(g[0]) = {}
    BY <1>2 DEF Flattens, Of
  <2> QED
    BY <2>1
<1>5. ASSUME NEW k \in Nat, k \in T PROVE k + 1 \in T
  <2> SUFFICES ASSUME k + 1 <= n PROVE \A x : x \in Of(g[k + 1]) <=> \E j \in 1..(k + 1) : x \in Of(q[j])
    OBVIOUS
  <2>1. /\ k + 1 \in 1..n /\ (k + 1) - 1 = k /\ k \in 0..n /\ k <= n
        /\ 1..(k + 1) = (1..k) \cup {k + 1}
    BY <1>1
  <2>2. g[k] \in Seq(E) /\ q[k + 1] \in Seq(E) /\ g[k + 1] = g[k] \o q[k + 1]
    BY <1>1, <1>2, <2>1 DEF Flattens
  <2>3. Of(g[k + 1]) = Of(g[k]) \cup Of(q[k + 1])
    BY <2>2, OfJoined
  <2>4. \A x : x \in Of(g[k]) <=> \E j \in 1..k : x \in Of(q[j])
    BY <1>5, <2>1
  <2> QED
    BY <2>1, <2>3, <2>4
<1> HIDE DEF T
<1>6. \A k \in Nat : k \in T
  BY <1>4, <1>5, Induction
<1>7. n <= n /\ n \in 0..n
  BY <1>1
<1>8. g[n] \in Seq(E)
  BY <1>2, <1>7 DEF Flattens
<1> QED
  BY <1>1, <1>3, <1>6, <1>7, <1>8 DEF T, n

(* Sequences without doubles that share no element, flattened, have no doubles. *)
LEMMA FlattenOnce ==
  ASSUME NEW E, NEW q \in Seq(Seq(E)),
         \A k \in 1..Len(q) : NoneTwice(q[k]),
         \A j, k \in 1..Len(q) : j # k => Of(q[j]) \cap Of(q[k]) = {}
  PROVE  NoneTwice(Spilled!FlattenSeq(q))
<1> DEFINE n == Len(q)
<1>1. n \in Nat /\ \A k \in 1..n : q[k] \in Seq(E)
  OBVIOUS
<1>2. PICK g : Flattens(E, q, n, g)
  BY FlattensExists
<1>3. Spilled!FlattenSeq(q) = g[n]
  BY <1>2, FlattenIs
<1> HIDE DEF n
<1> DEFINE T == {k \in Nat : k <= n => NoneTwice(g[k]) /\ \A x \in Of(g[k]) : \E j \in 1..k : x \in Of(q[j])}
<1>4. 0 \in T
  <2>1. g[0] = <<>>
    BY <1>2 DEF Flattens
  <2>2. Of(g[0]) = {} /\ NoneTwice(g[0])
    BY <2>1 DEF Of, NoneTwice
  <2> QED
    BY <2>2
<1>5. ASSUME NEW k \in Nat, k \in T PROVE k + 1 \in T
  <2> SUFFICES ASSUME k + 1 <= n
               PROVE  NoneTwice(g[k + 1]) /\ \A x \in Of(g[k + 1]) : \E j \in 1..(k + 1) : x \in Of(q[j])
    OBVIOUS
  <2>1. /\ k + 1 \in 1..n /\ (k + 1) - 1 = k /\ k \in 0..n /\ k <= n
        /\ 1..(k + 1) = (1..k) \cup {k + 1} /\ k + 1 \notin 1..k /\ \A j \in 1..k : j \in 1..n
    BY <1>1
  <2>2. g[k] \in Seq(E) /\ q[k + 1] \in Seq(E) /\ g[k + 1] = g[k] \o q[k + 1]
    BY <1>1, <1>2, <2>1 DEF Flattens
  <2>3. Of(g[k + 1]) = Of(g[k]) \cup Of(q[k + 1])
    BY <2>2, OfJoined
  <2>4. NoneTwice(g[k]) /\ \A x \in Of(g[k]) : \E j \in 1..k : x \in Of(q[j])
    BY <1>5, <2>1
  <2>5. Of(g[k]) \cap Of(q[k + 1]) = {}
    <3> SUFFICES ASSUME NEW x, x \in Of(g[k]), x \in Of(q[k + 1]) PROVE FALSE
      OBVIOUS
    <3>1. PICK j \in 1..k : x \in Of(q[j])
      BY <2>4
    <3>2. j \in 1..n /\ j # k + 1
      BY <2>1
    <3> QED
      BY <2>1, <3>1, <3>2 DEF n
  <2>6. NoneTwice(q[k + 1])
    BY <2>1 DEF n
  <2>7. NoneTwice(g[k + 1])
    BY <2>2, <2>4, <2>5, <2>6, JoinedOnce
  <2> QED
    BY <2>1, <2>3, <2>4, <2>7
<1> HIDE DEF T
<1>6. \A k \in Nat : k \in T
  BY <1>4, <1>5, Induction
<1>7. n <= n
  BY <1>1
<1> QED
  BY <1>1, <1>3, <1>6, <1>7 DEF T, n

(* A function on the first numbers is a sequence.                           *)
LEMMA MadeSequence ==
  ASSUME NEW E, NEW n \in Nat, NEW u, u = [k \in 1..n |-> u[k]], \A k \in 1..n : u[k] \in E
  PROVE  u \in Seq(E) /\ Len(u) = n /\ DOMAIN u = 1..n
<1>1. u \in [1..n -> E]
  OBVIOUS
<1> QED
  BY <1>1

-----------------------------------------------------------------------------
(* What ascends.                                                            *)
Ascending(s) == \A i, j \in DOMAIN s : i < j => s[i] < s[j]

(* An ascending sequence has no doubles.                                    *)
LEMMA AscendingOnce ==
  ASSUME NEW s \in Seq(Nat), Ascending(s)
  PROVE  NoneTwice(s)
<1>1. \A i \in DOMAIN s : i \in Nat /\ s[i] \in Nat
  OBVIOUS
<1> QED
  BY <1>1 DEF Ascending, NoneTwice

(* Of numbers none of which is twice, the sorted ones are all and ascend.   *)
LEMMA SortedAscends ==
  ASSUME NEW t \in Seq(Nat), NoneTwice(t)
  PROVE  /\ Spilled!Sorted(t) \in Seq(Nat) /\ Len(Spilled!Sorted(t)) = Len(t)
         /\ Ascending(Spilled!Sorted(t)) /\ Of(Spilled!Sorted(t)) = Of(t)
<1> DEFINE S == Of(t)
           n == Len(t)
           u == Spilled!Sorted(t)
<1>1. n \in Nat /\ DOMAIN t = 1..n /\ \A k \in 1..n : t[k] \in Nat
  OBVIOUS
<1>2. IsFiniteSet(S) /\ Cardinality(S) = n /\ \A x \in S : x \in Nat
  <2>1. IsFiniteSet({t[k] : k \in 1..n}) /\ Cardinality({t[k] : k \in 1..n}) = Cardinality(1..n)
    <3>1. IsFiniteSet(1..n)
      BY <1>1, UpTo
    <3> QED
      BY <1>1, <3>1, ImageFinite
  <2>2. {t[k] : k \in 1..n} = S
    BY <1>1 DEF Of
  <2>3. Cardinality(1..n) = n
    BY <1>1, UpTo
  <2> HIDE DEF n
  <2> QED
    BY <1>1, <2>1, <2>2, <2>3 DEF Of
<1>3. u = [k \in 1..n |-> CHOOSE x \in S : RankOf(S, x) = k - 1]
  BY <1>1 DEF Spilled!Sorted, Spilled!ToSet, Of, RankOf, Spilled!Cardinality, Cardinality
<1> HIDE DEF u, n, S
<1>4. ASSUME NEW k \in 1..n PROVE u[k] \in S /\ RankOf(S, u[k]) = k - 1
  <2>1. k - 1 \in 0..(Cardinality(S) - 1)
    BY <1>1, <1>2
  <2>2. \E x \in S : RankOf(S, x) = k - 1
    BY <1>2, <2>1, RankOnto
  <2> DEFINE x0 == CHOOSE x \in S : RankOf(S, x) = k - 1
  <2>3. x0 \in S /\ RankOf(S, x0) = k - 1
    BY <2>2
  <2>4. u[k] = x0
    BY <1>3
  <2> QED
    BY <2>3, <2>4
<1>5. DOMAIN u = 1..n /\ u = [k \in 1..n |-> u[k]] /\ \A k \in 1..n : u[k] \in Nat
  <2>1. DOMAIN u = 1..n /\ u = [k \in 1..n |-> u[k]]
    BY <1>3
  <2> QED
    BY <1>2, <1>4, <2>1
<1>6. u \in Seq(Nat) /\ Len(u) = n
  BY <1>1, <1>5, MadeSequence
<1>7. ASSUME NEW i \in 1..n, NEW j \in 1..n, i < j PROVE u[i] < u[j]
  <2>1. u[i] \in S /\ u[j] \in S /\ RankOf(S, u[i]) < RankOf(S, u[j])
    BY <1>1, <1>4, <1>7
  <2>2. u[i] \in Nat /\ u[j] \in Nat /\ u[i] # u[j]
    BY <1>2, <1>4, <1>7, <2>1
  <2>3. CASE u[j] < u[i]
    <3>1. RankOf(S, u[j]) < RankOf(S, u[i])
      BY <1>2, <2>1, <2>3, RankGrows
    <3> QED
      BY <1>4, <2>1, <3>1
  <2> QED
    BY <2>2, <2>3
<1>8. Ascending(u)
  BY <1>5, <1>7 DEF Ascending
<1>9. Of(u) \subseteq S
  BY <1>4, <1>5 DEF Of
<1>10. Of(u) = S
  <2>1. NoneTwice(u) /\ u \in Seq(S)
    <3>1. u \in Seq(S)
      BY <1>1, <1>4, <1>5, MadeSequence
    <3> QED
      BY <1>6, <1>8, <3>1, AscendingOnce
  <2> QED
    BY <1>2, <1>6, <2>1, OfAll
<1> QED
  BY <1>6, <1>8, <1>10 DEF u, n, S

(* Two that ascend and have the same elements are the same.                 *)
LEMMA AscendingSame ==
  ASSUME NEW s \in Seq(Nat), NEW u \in Seq(Nat), Ascending(s), Ascending(u), Of(s) = Of(u)
  PROVE  s = u
<1> DEFINE S == Of(s)
           n == Len(s)
<1>1. NoneTwice(s) /\ NoneTwice(u) /\ (\A x \in S : x \in Nat)
  BY AscendingOnce DEF Of
<1>2. IsFiniteSet(S) /\ Cardinality(S) = Len(s) /\ Cardinality(S) = Len(u)
  <2>1. ASSUME NEW v \in Seq(Nat), NoneTwice(v) PROVE IsFiniteSet(Of(v)) /\ Cardinality(Of(v)) = Len(v)
    <3>1. DOMAIN v = 1..Len(v) /\ Len(v) \in Nat
      OBVIOUS
    <3>2. IsFiniteSet(1..Len(v)) /\ Cardinality(1..Len(v)) = Len(v)
      BY <3>1, UpTo
    <3>3. IsFiniteSet({v[k] : k \in 1..Len(v)}) /\ Cardinality({v[k] : k \in 1..Len(v)}) = Cardinality(1..Len(v))
      BY <2>1, <3>1, <3>2, ImageFinite
    <3>4. {v[k] : k \in 1..Len(v)} = Of(v)
      BY <3>1 DEF Of
    <3> QED
      BY <3>2, <3>3, <3>4
  <2> QED
    BY <1>1, <2>1
<1>3. ASSUME NEW v \in Seq(Nat), Ascending(v), Of(v) = S, NEW k \in 1..Len(v)
      PROVE  v[k] \in S /\ RankOf(S, v[k]) = k - 1
  <2>1. /\ Len(v) \in Nat /\ DOMAIN v = 1..Len(v) /\ NoneTwice(v) /\ \A j \in 1..Len(v) : v[j] \in Nat
        /\ k - 1 \in Nat
    BY <1>3, AscendingOnce
  <2>2. {y \in S : y < v[k]} = {v[j] : j \in 1..(k - 1)}
    <3>1. ASSUME NEW j \in 1..(k - 1) PROVE v[j] \in S /\ v[j] < v[k]
      <4>1. j \in 1..Len(v) /\ j < k
        BY <2>1
      <4> QED
        BY <1>3, <2>1, <4>1 DEF Ascending, Of
    <3>2. ASSUME NEW y \in S, y < v[k] PROVE \E j \in 1..(k - 1) : y = v[j]
      <4>1. PICK j \in 1..Len(v) : y = v[j]
        BY <1>3, <2>1 DEF Of
      <4>4. ASSUME k < j PROVE FALSE
        <5>1. v[k] < v[j]
          BY <1>3, <2>1, <4>4 DEF Ascending
        <5> QED
          BY <1>3, <2>1, <3>2, <4>1, <5>1
      <4>5. ASSUME k = j PROVE FALSE
        BY <1>3, <2>1, <3>2, <4>1, <4>5
      <4>2. ~(k < j) /\ k # j
        BY <4>4, <4>5
      <4>3. j \in 1..(k - 1)
        BY <2>1, <4>1, <4>2
      <4> QED
        BY <4>1, <4>3
    <3> QED
      BY <3>1, <3>2
  <2> DEFINE w == [j \in 1..(k - 1) |-> v[j]]
  <2>3. DOMAIN w = 1..(k - 1) /\ NoneTwice(w) /\ {w[j] : j \in 1..(k - 1)} = {v[j] : j \in 1..(k - 1)}
    <3>1. \A j \in 1..(k - 1) : j \in 1..Len(v)
      BY <2>1
    <3> QED
      BY <2>1, <3>1 DEF NoneTwice
  <2> HIDE DEF w
  <2>4. IsFiniteSet(1..(k - 1)) /\ Cardinality(1..(k - 1)) = k - 1
    BY <2>1, UpTo
  <2> DEFINE below == 1..(k - 1)
  <2>6. DOMAIN w = below /\ IsFiniteSet(below) /\ Cardinality(below) = k - 1
    BY <2>3, <2>4
  <2>5. Cardinality({w[j] : j \in 1..(k - 1)}) = k - 1
    <3> HIDE DEF below
    <3>2. NoneTwice(w) /\ DOMAIN w = below /\ IsFiniteSet(below)
      BY <2>3, <2>6
    <3>3. Cardinality({w[j] : j \in below}) = Cardinality(below)
      BY <3>2, ImageFinite
    <3>1. Cardinality({w[j] : j \in below}) = k - 1
      BY <2>6, <3>3
    <3> QED
      BY <3>1 DEF below
  <2> QED
    BY <1>3, <2>1, <2>2, <2>3, <2>5 DEF RankOf, Of
<1>4. ASSUME NEW k \in 1..Len(s) PROVE s[k] = u[k]
  <2>1. s[k] \in S /\ RankOf(S, s[k]) = k - 1 /\ u[k] \in S /\ RankOf(S, u[k]) = k - 1
    BY <1>2, <1>3
  <2> HIDE DEF S
  <2>2. \A x \in S : x \in Int
    BY <1>1
  <2> QED
    BY <1>2, <2>1, <2>2, RankOneToOne
<1> QED
  BY <1>2, <1>4, SameSequence

(* What ascends is what sorting makes of its elements in any order.         *)
LEMMA AscendingIsSorted ==
  ASSUME NEW s \in Seq(Nat), Ascending(s), NEW t \in Seq(Nat), NoneTwice(t), Of(t) = Of(s)
  PROVE  Spilled!Sorted(t) = s
BY SortedAscends, AscendingSame

-----------------------------------------------------------------------------
(* Blocks.                                                                  *)

(* How many blocks of n hold s, and where block i ends.                     *)
Blocks(s, n) == (Len(s) + n - 1) \div n
EndOf(s, n, i) == IF i * n <= Len(s) THEN i * n ELSE Len(s)

(* Block i is its part of s. *)
ChunkRight(s, n, i) ==
  /\ (i - 1) * n \in Nat /\ (i - 1) * n < EndOf(s, n, i) /\ EndOf(s, n, i) \in 1..Len(s)
  /\ Len(Spilled!Chunks(s, n)[i]) = EndOf(s, n, i) - (i - 1) * n
  /\ Spilled!Chunks(s, n)[i] = SubSeq(s, (i - 1) * n + 1, EndOf(s, n, i))
  /\ \A k \in 1..(EndOf(s, n, i) - (i - 1) * n) : Spilled!Chunks(s, n)[i][k] = s[(i - 1) * n + k]

(* There are enough blocks and not one more, and each is right.             *)
LEMMA ChunksAre ==
  ASSUME NEW E, NEW s \in Seq(E), NEW n \in Nat \ {0}
  PROVE  /\ Spilled!Chunks(s, n) \in Seq(Seq(E)) /\ Len(Spilled!Chunks(s, n)) = Blocks(s, n)
         /\ Blocks(s, n) \in Nat /\ Len(s) <= Blocks(s, n) * n /\ (Blocks(s, n) - 1) * n < Len(s)
         /\ \A i \in 1..Blocks(s, n) : ChunkRight(s, n, i)
<1> DEFINE L == Len(s)
           K == Blocks(s, n)
           q == Spilled!Chunks(s, n)
           e == [i \in 1..K |-> EndOf(s, n, i)]
<1>1. L \in Nat
  OBVIOUS
<1>2. K \in Nat /\ L <= K * n /\ (K - 1) * n < L
  BY <1>1 DEF Blocks
<1> HIDE DEF L, K
<1>3. ASSUME NEW i \in 1..K
      PROVE  /\ (i - 1) * n \in Nat /\ (i - 1) * n < EndOf(s, n, i) /\ EndOf(s, n, i) \in 1..L
             /\ Spilled!Min({i * n, L}) = EndOf(s, n, i)
  <2>1. i * n = (i - 1) * n + n /\ (i - 1) * n \in Nat
    OBVIOUS
  <2>2. (i - 1) * n <= (K - 1) * n
    <3>1. i - 1 \in Int /\ K - 1 \in Int /\ i - 1 <= K - 1 /\ n \in Nat
      BY <1>2
    <3> QED
      BY <3>1, ProductGrows
  <2>3. (K - 1) * n \in Int /\ i * n \in Int /\ n >= 1
    BY <1>2
  <2>4. (i - 1) * n < L
    BY <1>1, <1>2, <2>1, <2>2, <2>3
  <2>5. EndOf(s, n, i) = IF i * n <= L THEN i * n ELSE L
    BY DEF EndOf, L
  <2> DEFINE at0 == (i - 1) * n
             to == i * n
  <2>6. at0 \in Nat /\ to \in Int /\ to = at0 + n /\ at0 < L
    BY <2>1, <2>3, <2>4
  <2> HIDE DEF at0, to
  <2>7. at0 < (IF to <= L THEN to ELSE L) /\ (IF to <= L THEN to ELSE L) \in 1..L
    BY <1>1, <2>3, <2>6
  <2>8. Spilled!Min({to, L}) = IF to <= L THEN to ELSE L
    BY <1>1, <2>6 DEF Spilled!Min
  <2> QED
    BY <2>1, <2>5, <2>7, <2>8 DEF at0, to
<1>4. q = [i \in 1..K |-> SubSeq(s, (i - 1) * n + 1, EndOf(s, n, i))]
  <2>1. q = [i \in 1..K |-> SubSeq(s, (i - 1) * n + 1, Spilled!Min({i * n, L}))]
    BY DEF Spilled!Chunks, K, L, Blocks
  <2> HIDE DEF q
  <2> QED
    BY <1>3, <2>1
<1> HIDE DEF q
<1>5. ASSUME NEW i \in 1..K
      PROVE  /\ q[i] \in Seq(E) /\ Len(q[i]) = EndOf(s, n, i) - (i - 1) * n
             /\ q[i] = SubSeq(s, (i - 1) * n + 1, EndOf(s, n, i))
             /\ \A k \in 1..(EndOf(s, n, i) - (i - 1) * n) : q[i][k] = s[(i - 1) * n + k]
  <2> DEFINE a == (i - 1) * n
             m == EndOf(s, n, i) - (i - 1) * n
  <2>1. a \in Nat /\ m \in Nat /\ EndOf(s, n, i) = a + m /\ a + m <= Len(s)
    <3>1. a \in Nat /\ a < EndOf(s, n, i) /\ EndOf(s, n, i) \in 1..Len(s) /\ Len(s) \in Nat
      BY <1>1, <1>3 DEF L
    <3> HIDE DEF a
    <3> QED
      BY <3>1 DEF a
  <2>2. q[i] = SubSeq(s, a + 1, EndOf(s, n, i))
    BY <1>4
  <2> HIDE DEF a, m
  <2>3. /\ q[i] \in Seq(E) /\ Len(q[i]) = m
        /\ \A k \in 1..m : q[i][k] = s[a + k]
    BY <2>1, <2>2, PartOfSequence
  <2> QED
    BY <2>2, <2>3 DEF a, m
<1>6. q \in Seq(Seq(E)) /\ Len(q) = K
  <2>1. q = [i \in 1..K |-> q[i]]
    BY <1>4
  <2> DEFINE D == Seq(E)
  <2>2. \A i \in 1..K : q[i] \in D
    BY <1>5
  <2> HIDE DEF D
  <2>3. q \in Seq(D) /\ Len(q) = K
    BY <1>2, <2>1, <2>2, MadeSequence
  <2> QED
    BY <2>3 DEF D
<1>7. ASSUME NEW i \in 1..Blocks(s, n) PROVE ChunkRight(s, n, i)
  BY <1>3, <1>5 DEF ChunkRight, q, K, L
<1> QED
  BY <1>2, <1>6, <1>7 DEF q, K, L

(* The beginning of a sequence, and what comes next of it.                   *)
LEMMA PartsJoin ==
  ASSUME NEW E, NEW s \in Seq(E), NEW a \in Nat, NEW c \in Nat, a <= c, c <= Len(s)
  PROVE  /\ SubSeq(s, 1, a) \in Seq(E) /\ Len(SubSeq(s, 1, a)) = a
         /\ SubSeq(s, 1, c) = SubSeq(s, 1, a) \o SubSeq(s, a + 1, c)
<1> DEFINE x == SubSeq(s, 1, a)
           y == SubSeq(s, a + 1, c)
           z == SubSeq(s, 1, c)
           m == c - a
<1>1. m \in Nat /\ c = a + m /\ 0 + a = a /\ 0 + c = c /\ 0 + 1 = 1 /\ 0 \in Nat /\ a <= Len(s)
  OBVIOUS
<1>2. x \in Seq(E) /\ Len(x) = a /\ \A k \in 1..a : x[k] = s[k]
  <2>1. /\ SubSeq(s, 0 + 1, 0 + a) \in Seq(E) /\ Len(SubSeq(s, 0 + 1, 0 + a)) = a
        /\ \A k \in 1..a : SubSeq(s, 0 + 1, 0 + a)[k] = s[0 + k]
    BY <1>1, PartOfSequence
  <2>2. \A k \in 1..a : 0 + k = k
    OBVIOUS
  <2> QED
    BY <1>1, <2>1, <2>2
<1>3. z \in Seq(E) /\ Len(z) = c /\ \A k \in 1..c : z[k] = s[k]
  <2>1. /\ SubSeq(s, 0 + 1, 0 + c) \in Seq(E) /\ Len(SubSeq(s, 0 + 1, 0 + c)) = c
        /\ \A k \in 1..c : SubSeq(s, 0 + 1, 0 + c)[k] = s[0 + k]
    BY <1>1, PartOfSequence
  <2>2. \A k \in 1..c : 0 + k = k
    OBVIOUS
  <2> QED
    BY <1>1, <2>1, <2>2
<1>4. y \in Seq(E) /\ Len(y) = m /\ \A k \in 1..m : y[k] = s[a + k]
  <2> HIDE DEF m
  <2>1. /\ SubSeq(s, a + 1, a + m) \in Seq(E) /\ Len(SubSeq(s, a + 1, a + m)) = m
        /\ \A k \in 1..m : SubSeq(s, a + 1, a + m)[k] = s[a + k]
    BY <1>1, PartOfSequence
  <2> QED
    BY <1>1, <2>1
<1> HIDE DEF x, y, z, m
<1> DEFINE w == x \o y
<1>5. /\ w \in Seq(E) /\ Len(w) = Len(x) + Len(y)
      /\ \A k \in 1..Len(x) : w[k] = x[k]
      /\ \A k \in 1..Len(y) : w[Len(x) + k] = y[k]
  <2>1. x \in Seq(E) /\ y \in Seq(E)
    BY <1>2, <1>4
  <2> QED
    BY <2>1, Joined
<1> HIDE DEF w
<1>6. ASSUME NEW k \in 1..c PROVE z[k] = w[k]
  <2>1. CASE k <= a
    <3>1. k \in 1..a
      BY <2>1
    <3>2. w[k] = x[k] /\ x[k] = s[k] /\ z[k] = s[k]
      BY <1>2, <1>3, <1>5, <3>1
    <3> QED
      BY <3>2
  <2>2. CASE k > a
    <3>1. k - a \in 1..m /\ a + (k - a) = k
      BY <1>1, <2>2
    <3>2. w[a + (k - a)] = y[k - a] /\ y[k - a] = s[a + (k - a)]
      BY <1>2, <1>4, <1>5, <3>1
    <3> QED
      BY <1>3, <3>1, <3>2
  <2> QED
    BY <2>1, <2>2
<1>7. z = w
  BY <1>1, <1>2, <1>3, <1>4, <1>5, <1>6, SameSequence
<1> QED
  BY <1>2, <1>7 DEF x, y, z, w

(* Block i, by itself.                                                       *)
LEMMA ChunkIs ==
  ASSUME NEW E, NEW s \in Seq(E), NEW n \in Nat \ {0}, NEW i \in 1..Blocks(s, n)
  PROVE  /\ (i - 1) * n \in Nat /\ (i - 1) * n < EndOf(s, n, i) /\ EndOf(s, n, i) \in 1..Len(s)
         /\ Len(Spilled!Chunks(s, n)[i]) = EndOf(s, n, i) - (i - 1) * n
         /\ Spilled!Chunks(s, n)[i] = SubSeq(s, (i - 1) * n + 1, EndOf(s, n, i))
         /\ \A k \in 1..(EndOf(s, n, i) - (i - 1) * n) : Spilled!Chunks(s, n)[i][k] = s[(i - 1) * n + k]
<1>1. \A k \in 1..Blocks(s, n) : ChunkRight(s, n, k)
  BY ChunksAre, Zenon
<1>2. ChunkRight(s, n, i)
  BY <1>1
<1> QED
  BY <1>2 DEF ChunkRight

(* Chunk i of a sequence has the elements from (i - 1) * n up to its end.      *)
ChunkShows(s, n, i) ==
  /\ (i - 1) * n \in Nat /\ (i - 1) * n < EndOf(s, n, i) /\ EndOf(s, n, i) \in 1..Len(s)
  /\ Len(Spilled!Chunks(s, n)[i]) = EndOf(s, n, i) - (i - 1) * n
  /\ \A k \in 1..(EndOf(s, n, i) - (i - 1) * n) : Spilled!Chunks(s, n)[i][k] = s[(i - 1) * n + k]

(* Every chunk does. *)
LEMMA ChunksShow ==
  ASSUME NEW E, NEW s \in Seq(E), NEW n \in Nat \ {0}, NEW i \in 1..Blocks(s, n)
  PROVE  ChunkShows(s, n, i)
<1>1. \A k \in 1..Blocks(s, n) : ChunkRight(s, n, k)
  BY ChunksAre, Zenon
<1>2. ChunkRight(s, n, i)
  BY <1>1
<1> QED
  BY <1>2 DEF ChunkRight, ChunkShows

(* The blocks of a sequence, flattened, are its beginnings up to their ends. *)
LEMMA ChunksFlatten ==
  ASSUME NEW E, NEW s \in Seq(E), NEW n \in Nat \ {0}
  PROVE  \E g : /\ Flattens(E, Spilled!Chunks(s, n), Blocks(s, n), g)
                /\ \A i \in 0..Blocks(s, n) : g[i] = SubSeq(s, 1, EndOf(s, n, i)) /\ Len(g[i]) = EndOf(s, n, i)
<1> DEFINE K == Blocks(s, n)
           q == Spilled!Chunks(s, n)
           g == [i \in 0..K |-> SubSeq(s, 1, EndOf(s, n, i))]
<1>1. /\ K \in Nat /\ Len(s) \in Nat
      /\ \A i \in 1..K : /\ (i - 1) * n \in Nat /\ (i - 1) * n < EndOf(s, n, i) /\ EndOf(s, n, i) \in 1..Len(s)
                         /\ q[i] = SubSeq(s, (i - 1) * n + 1, EndOf(s, n, i))
  <2>1. Blocks(s, n) \in Nat
    BY ChunksAre
  <2>2. ASSUME NEW i \in 1..Blocks(s, n)
        PROVE  /\ (i - 1) * n \in Nat /\ (i - 1) * n < EndOf(s, n, i) /\ EndOf(s, n, i) \in 1..Len(s)
               /\ Spilled!Chunks(s, n)[i] = SubSeq(s, (i - 1) * n + 1, EndOf(s, n, i))
    BY ChunkIs
  <2> QED
    BY <2>1, <2>2
<1>2. EndOf(s, n, 0) = 0
  <2>1. 0 * n = 0
    OBVIOUS
  <2> QED
    BY <1>1, <2>1 DEF EndOf
<1>3. \A i \in 0..K : EndOf(s, n, i) \in 0..Len(s)
  <2>1. ASSUME NEW i \in 0..K, i # 0 PROVE EndOf(s, n, i) \in 0..Len(s)
    <3>1. i \in 1..K
      BY <2>1
    <3> QED
      BY <1>1, <3>1
  <2> QED
    BY <1>1, <1>2, <2>1
<1> HIDE DEF K, q
<1>4. ASSUME NEW i \in 0..K PROVE g[i] \in Seq(E) /\ Len(g[i]) = EndOf(s, n, i)
  <2> DEFINE c == EndOf(s, n, i)
  <2>1. c \in Nat /\ c <= Len(s) /\ c <= c
    BY <1>1, <1>3
  <2> HIDE DEF c
  <2>2. SubSeq(s, 1, c) \in Seq(E) /\ Len(SubSeq(s, 1, c)) = c
    BY <2>1, PartsJoin
  <2> QED
    BY <2>2 DEF c
<1>5. g[0] = <<>>
  <2>1. g[0] \in Seq(E) /\ Len(g[0]) = 0
    BY <1>1, <1>2, <1>4
  <2> QED
    BY <2>1
<1>6. ASSUME NEW i \in 1..K PROVE g[i] = g[i - 1] \o q[i]
  <2> DEFINE a == (i - 1) * n
             c == EndOf(s, n, i)
  <2>1. /\ a \in Nat /\ c \in Nat /\ a <= c /\ c <= Len(s)
        /\ q[i] = SubSeq(s, a + 1, c)
    BY <1>1
  <2>2. i - 1 \in 0..K /\ i \in 0..K
    BY <1>1
  <2>3. EndOf(s, n, i - 1) = a
    <3>1. a <= Len(s)
      BY <1>1, <2>1
    <3> QED
      BY <3>1 DEF EndOf
  <2> HIDE DEF a, c
  <2>4. SubSeq(s, 1, c) = SubSeq(s, 1, a) \o SubSeq(s, a + 1, c)
    BY <2>1, PartsJoin
  <2> QED
    BY <2>1, <2>2, <2>3, <2>4 DEF c
<1>7. Flattens(E, q, K, g)
  <2>1. DOMAIN g = 0..K /\ g = [i \in 0..K |-> g[i]]
    OBVIOUS
  <2> HIDE DEF g
  <2>2. g \in [0..K -> Seq(E)]
    BY <1>4, <2>1
  <2> QED
    BY <1>5, <1>6, <2>2 DEF Flattens
<1>8. \A i \in 0..K : g[i] = SubSeq(s, 1, EndOf(s, n, i)) /\ Len(g[i]) = EndOf(s, n, i)
  BY <1>4
<1> HIDE DEF g
<1> QED
  BY <1>7, <1>8 DEF K, q

(* Together they are all of it.                                              *)
LEMMA ChunksJoin ==
  ASSUME NEW E, NEW s \in Seq(E), NEW n \in Nat \ {0}
  PROVE  Spilled!FlattenSeq(Spilled!Chunks(s, n)) = s
<1> DEFINE K == Blocks(s, n)
           q == Spilled!Chunks(s, n)
<1>1. /\ q \in Seq(Seq(E)) /\ Len(q) = K /\ K \in Nat /\ Len(s) <= K * n /\ Len(s) \in Nat
  BY ChunksAre
<1>2. PICK g : /\ Flattens(E, q, K, g)
               /\ \A i \in 0..K : g[i] = SubSeq(s, 1, EndOf(s, n, i)) /\ Len(g[i]) = EndOf(s, n, i)
  BY ChunksFlatten
<1>3. EndOf(s, n, K) = Len(s)
  <2> DEFINE to == K * n
  <2>1. to \in Int /\ Len(s) <= to
    BY <1>1
  <2>2. EndOf(s, n, K) = IF to <= Len(s) THEN to ELSE Len(s)
    BY DEF EndOf
  <2> HIDE DEF to
  <2> QED
    BY <1>1, <2>1, <2>2
<1> HIDE DEF q, K
<1>4. Spilled!FlattenSeq(q) = g[K]
  BY <1>1, <1>2, FlattenIs
<1>5. K \in 0..K
  BY <1>1
<1>6. g[K] = SubSeq(s, 1, Len(s))
  BY <1>2, <1>3, <1>5
<1>7. SubSeq(s, 1, Len(s)) = s
  <2>1. Len(s) \in Nat /\ 0 + Len(s) <= Len(s) /\ 0 + 1 = 1 /\ 0 + Len(s) = Len(s)
    BY <1>1
  <2> DEFINE z == SubSeq(s, 1, Len(s))
  <2>2. z \in Seq(E) /\ Len(z) = Len(s) /\ \A k \in 1..Len(s) : z[k] = s[0 + k]
    BY <2>1, PartOfSequence
  <2>3. \A k \in 1..Len(s) : 0 + k = k
    OBVIOUS
  <2> HIDE DEF z
  <2>4. z = s
    BY <2>2, <2>3, SameSequence
  <2> QED
    BY <2>4 DEF z
<1> QED
  BY <1>4, <1>6, <1>7 DEF q

(* The rows before block i are those of the blocks before it.                *)
LEMMA ChunkStarts ==
  ASSUME NEW E, NEW s \in Seq(E), NEW n \in Nat \ {0}, NEW i \in 1..Blocks(s, n)
  PROVE  Len(Spilled!FlattenSeq(SubSeq(Spilled!Chunks(s, n), 1, i - 1))) = (i - 1) * n
<1> DEFINE K == Blocks(s, n)
           q == Spilled!Chunks(s, n)
           m == i - 1
           p == SubSeq(q, 1, m)
<1>1. /\ q \in Seq(Seq(E)) /\ Len(q) = K /\ K \in Nat /\ Len(s) \in Nat
      /\ m * n \in Nat /\ m * n < EndOf(s, n, i) /\ EndOf(s, n, i) \in 1..Len(s)
  <2>1. Spilled!Chunks(s, n) \in Seq(Seq(E)) /\ Len(Spilled!Chunks(s, n)) = Blocks(s, n) /\ Blocks(s, n) \in Nat
    BY ChunksAre
  <2>2. (i - 1) * n \in Nat /\ (i - 1) * n < EndOf(s, n, i) /\ EndOf(s, n, i) \in 1..Len(s)
    BY ChunkIs
  <2>3. Len(s) \in Nat
    OBVIOUS
  <2> QED
    BY <2>1, <2>2, <2>3
<1>2. PICK g : /\ Flattens(E, q, K, g)
               /\ \A j \in 0..K : g[j] = SubSeq(s, 1, EndOf(s, n, j)) /\ Len(g[j]) = EndOf(s, n, j)
  BY ChunksFlatten
<1>3. m \in Nat /\ m <= K /\ m \in 0..K
  BY <1>1
<1>4. EndOf(s, n, m) = m * n
  <2> DEFINE a == m * n
  <2>1. a <= Len(s)
    BY <1>1
  <2> QED
    BY <2>1 DEF EndOf
<1> HIDE DEF q, K, m
<1>5. p \in Seq(Seq(E)) /\ Len(p) = m /\ \A k \in 1..m : p[k] = q[k]
  <2>1. 0 + m <= Len(q) /\ 0 \in Nat /\ 0 + 1 = 1 /\ 0 + m = m
    BY <1>1, <1>3
  <2> DEFINE D == Seq(E)
  <2> HIDE DEF D
  <2>2. q \in Seq(D)
    BY <1>1 DEF D
  <2>3. /\ SubSeq(q, 0 + 1, 0 + m) \in Seq(D) /\ Len(SubSeq(q, 0 + 1, 0 + m)) = m
        /\ \A k \in 1..m : SubSeq(q, 0 + 1, 0 + m)[k] = q[0 + k]
    BY <1>3, <2>1, <2>2, PartOfSequence
  <2>4. \A k \in 1..m : 0 + k = k
    BY <1>3
  <2> QED
    BY <2>1, <2>3, <2>4 DEF D
<1> HIDE DEF p
<1> DEFINE h == [j \in 0..m |-> g[j]]
<1>6. Flattens(E, p, m, h)
  <2>1. \A j \in 0..m : j \in 0..K
    BY <1>1, <1>3
  <2>2. h \in [0..m -> Seq(E)]
    BY <1>2, <2>1 DEF Flattens
  <2>3. h[0] = <<>>
    BY <1>2, <1>3 DEF Flattens
  <2>4. ASSUME NEW k \in 1..m PROVE h[k] = h[k - 1] \o p[k]
    <3>1. k \in 0..m /\ k - 1 \in 0..m /\ k \in 1..K
      BY <1>1, <1>3
    <3>2. g[k] = g[k - 1] \o q[k]
      BY <1>2, <3>1 DEF Flattens
    <3> QED
      BY <1>5, <3>1, <3>2
  <2> HIDE DEF h
  <2> QED
    BY <2>2, <2>3, <2>4 DEF Flattens
<1>7. h[m] = g[m]
  BY <1>3
<1> HIDE DEF h
<1>8. Spilled!FlattenSeq(p) = g[m]
  BY <1>5, <1>6, <1>7, FlattenIs
<1> QED
  BY <1>2, <1>3, <1>4, <1>8 DEF p, q, m

-----------------------------------------------------------------------------
(* Merging.                                                                 *)

(* What is left of streams r, the ith of which is r[i].                     *)
Held(r) == UNION {Of(r[i]) : i \in DOMAIN r}

(* How many elements a sequence without repetition has.                     *)
LEMMA OnceCount ==
  ASSUME NEW s \in Seq(Nat), NoneTwice(s)
  PROVE  IsFiniteSet(Of(s)) /\ Cardinality(Of(s)) = Len(s)
<1>1. DOMAIN s = 1..Len(s) /\ Len(s) \in Nat
  OBVIOUS
<1>2. IsFiniteSet(1..Len(s)) /\ Cardinality(1..Len(s)) = Len(s)
  BY <1>1, UpTo
<1>3. IsFiniteSet({s[k] : k \in 1..Len(s)}) /\ Cardinality({s[k] : k \in 1..Len(s)}) = Cardinality(1..Len(s))
  BY <1>1, <1>2, ImageFinite
<1>4. {s[k] : k \in 1..Len(s)} = Of(s)
  BY <1>1 DEF Of
<1> QED
  BY <1>2, <1>3, <1>4

(* The first of what ascends is the least, and the rest ascends.            *)
LEMMA HeadOfAscending ==
  ASSUME NEW s \in Seq(Nat), Ascending(s), s # <<>>
  PROVE  /\ Head(s) \in Of(s) /\ Head(s) \in Nat /\ \A x \in Of(s) : Head(s) <= x
         /\ Tail(s) \in Seq(Nat) /\ Ascending(Tail(s)) /\ Of(Tail(s)) = Of(s) \ {Head(s)}
<1> DEFINE t == Tail(s)
           n == Len(s)
<1>1. /\ n \in Nat /\ n >= 1 /\ DOMAIN s = 1..n /\ Head(s) = s[1] /\ \A k \in 1..n : s[k] \in Nat
      /\ t \in Seq(Nat) /\ Len(t) = n - 1 /\ DOMAIN t = 1..(n - 1)
  OBVIOUS
<1>2. \A k \in 1..(n - 1) : t[k] = s[k + 1]
  OBVIOUS
<1> HIDE DEF t, n
<1>3. ASSUME NEW k \in 1..n, k # 1 PROVE s[1] < s[k]
  <2>1. 1 \in DOMAIN s /\ k \in DOMAIN s /\ 1 < k
    BY <1>1, <1>3
  <2> QED
    BY <2>1 DEF Ascending
<1>4. Ascending(t)
  <2> SUFFICES ASSUME NEW i \in 1..(n - 1), NEW j \in 1..(n - 1), i < j PROVE t[i] < t[j]
    BY <1>1 DEF Ascending
  <2>1. i + 1 \in 1..n /\ j + 1 \in 1..n /\ i + 1 < j + 1
    BY <1>1
  <2>2. s[i + 1] < s[j + 1]
    BY <1>1, <2>1 DEF Ascending
  <2> QED
    BY <1>2, <2>2
<1>5. Of(t) = Of(s) \ {s[1]}
  <2>1. ASSUME NEW x \in Of(t) PROVE x \in Of(s) /\ x # s[1]
    <3>1. PICK k \in 1..(n - 1) : x = t[k]
      BY <1>1 DEF Of
    <3>2. k + 1 \in 1..n /\ k + 1 # 1 /\ x = s[k + 1]
      BY <1>1, <1>2, <3>1
    <3>3. s[1] < x /\ x \in Nat /\ s[1] \in Nat
      BY <1>1, <1>3, <3>2
    <3>4. x # s[1]
      BY <3>3
    <3>5. x \in Of(s)
      BY <1>1, <3>2 DEF Of
    <3> QED
      BY <3>4, <3>5
  <2>2. ASSUME NEW x \in Of(s), x # s[1] PROVE x \in Of(t)
    <3>1. PICK k \in 1..n : x = s[k]
      BY <1>1 DEF Of
    <3>2. k - 1 \in 1..(n - 1) /\ (k - 1) + 1 = k
      BY <1>1, <2>2, <3>1
    <3>3. x = t[k - 1]
      BY <1>2, <3>1, <3>2
    <3> QED
      BY <1>1, <3>2, <3>3 DEF Of
  <2> QED
    BY <2>1, <2>2
<1>6. ASSUME NEW x \in Of(s) PROVE s[1] <= x
  <2>1. PICK k \in 1..n : x = s[k]
    BY <1>1 DEF Of
  <2> QED
    BY <1>1, <1>3, <2>1
<1>7. s[1] \in Of(s) /\ s[1] \in Nat
  BY <1>1 DEF Of
<1> QED
  BY <1>1, <1>4, <1>5, <1>6, <1>7 DEF t

(* m streams ascend, and no two share an element; c elements are left.      *)
Merging(r, m, c) ==
  /\ r \in [1..m -> Seq(Nat)]
  /\ \A i \in 1..m : Ascending(r[i])
  /\ \A i, j \in 1..m : i # j => Of(r[i]) \cap Of(r[j]) = {}
  /\ IsFiniteSet(Held(r)) /\ Cardinality(Held(r)) = c

(* The streams without the first of the foremost. *)
Taken(r) == [r EXCEPT ![Spilled!Foremost(r)] = Tail(@)]

(* The first of the foremost is the least of all, and is taken from them.   *)
LEMMA MergeStep ==
  ASSUME NEW m \in Nat, NEW c \in Nat \ {0}, NEW r, Merging(r, m, c)
  PROVE  LET x == Head(r[Spilled!Foremost(r)])
         IN  /\ x \in Held(r) /\ x \in Nat /\ \A y \in Held(r) : x <= y
             /\ Merging(Taken(r), m, c - 1) /\ Held(Taken(r)) = Held(r) \ {x}
<1> DEFINE Good(i) == i \in 1..m /\ r[i] # <<>>
           first == {Head(r[i]) : i \in {k \in 1..m : Good(k)}}
           a == Spilled!Foremost(r)
           x == Head(r[a])
           u == Taken(r)
<1>1. /\ DOMAIN r = 1..m /\ r = [i \in 1..m |-> r[i]] /\ \A i \in 1..m : r[i] \in Seq(Nat) /\ Ascending(r[i])
  BY DEF Merging
<1>2. \A i : Good(i) =>
        /\ Head(r[i]) \in Of(r[i]) /\ Head(r[i]) \in Nat /\ \A y \in Of(r[i]) : Head(r[i]) <= y
        /\ Tail(r[i]) \in Seq(Nat) /\ Ascending(Tail(r[i])) /\ Of(Tail(r[i])) = Of(r[i]) \ {Head(r[i])}
  <2> SUFFICES ASSUME NEW i \in 1..m, r[i] # <<>>
               PROVE  /\ Head(r[i]) \in Of(r[i]) /\ Head(r[i]) \in Nat /\ \A y \in Of(r[i]) : Head(r[i]) <= y
                      /\ Tail(r[i]) \in Seq(Nat) /\ Ascending(Tail(r[i])) /\ Of(Tail(r[i])) = Of(r[i]) \ {Head(r[i])}
    OBVIOUS
  <2> DEFINE s == r[i]
  <2>1. s \in Seq(Nat) /\ Ascending(s) /\ s # <<>>
    BY <1>1
  <2> HIDE DEF s
  <2>2. /\ Head(s) \in Of(s) /\ Head(s) \in Nat /\ \A y \in Of(s) : Head(s) <= y
        /\ Tail(s) \in Seq(Nat) /\ Ascending(Tail(s)) /\ Of(Tail(s)) = Of(s) \ {Head(s)}
    BY <2>1, HeadOfAscending
  <2> QED
    BY <2>2 DEF s
<1>3. \A y : y \in Held(r) <=> \E i \in 1..m : y \in Of(r[i])
  BY <1>1 DEF Held
<1>4. \E i : Good(i)
  <2>1. Held(r) # {}
    <3>1. Cardinality(Held(r)) # 0
      BY DEF Merging
    <3> QED
      BY <3>1, FS_EmptySet
  <2>2. PICK i \in 1..m : Of(r[i]) # {}
    BY <1>3, <2>1
  <2>3. r[i] # <<>>
    BY <2>2 DEF Of
  <2> QED
    BY <2>2, <2>3
<1>5. Good(a) /\ \A j : Good(j) => Head(r[a]) <= Head(r[j])
  <2>1. first \subseteq Nat /\ first # {}
    BY <1>2, <1>4
  <2>2. PICK y \in first : \A z \in first : y <= z
    BY <2>1, LeastNatural
  <2>3. PICK i : Good(i) /\ y = Head(r[i])
    BY <2>2
  <2> DEFINE Is(k) == k \in DOMAIN r /\ r[k] # <<>>
                      /\ \A j \in DOMAIN r : r[j] # <<>> => Head(r[k]) <= Head(r[j])
  <2>4. Is(i)
    BY <1>1, <2>2, <2>3
  <2> DEFINE got == CHOOSE k : Is(k)
  <2>5. a = got
    BY DEF Spilled!Foremost
  <2> HIDE DEF Is
  <2>6. Is(got)
    BY <2>4
  <2> HIDE DEF got, a
  <2> QED
    BY <1>1, <2>5, <2>6 DEF Is
<1>6. u = [r EXCEPT ![a] = Tail(r[a])]
  BY DEF Taken
<1> HIDE DEF a, first, u
<1>7. /\ u \in [1..m -> Seq(Nat)] /\ DOMAIN u = 1..m /\ u[a] = Tail(r[a])
      /\ \A i \in 1..m : i # a => u[i] = r[i]
  BY <1>1, <1>2, <1>5, <1>6
<1>8. x \in Held(r) /\ x \in Nat /\ x \in Of(r[a])
  BY <1>2, <1>3, <1>5
<1>9. ASSUME NEW y \in Held(r) PROVE x <= y
  <2>1. PICK i \in 1..m : y \in Of(r[i])
    BY <1>3
  <2>2. Good(i)
    BY <2>1 DEF Of
  <2>3. Head(r[a]) <= Head(r[i]) /\ Head(r[i]) <= y /\ Head(r[i]) \in Nat /\ Head(r[a]) \in Nat
    BY <1>2, <1>5, <2>1, <2>2
  <2>4. y \in Nat
    BY <1>1, <2>1 DEF Of
  <2> QED
    BY <2>3, <2>4
<1>10. Of(u[a]) = Of(r[a]) \ {x} /\ Ascending(u[a])
  BY <1>2, <1>5, <1>7
<1>11. \A i, j \in 1..m : i # j => Of(r[i]) \cap Of(r[j]) = {}
  BY DEF Merging
<1>12. a \in 1..m
  BY <1>5
<1> HIDE DEF x
<1>13. ASSUME NEW i \in 1..m PROVE Of(u[i]) = Of(r[i]) \ {x} /\ Ascending(u[i])
  <2>1. CASE i = a
    BY <1>10, <2>1
  <2>2. CASE i # a
    BY <1>1, <1>7, <1>8, <1>11, <1>12, <2>2
  <2> QED
    BY <2>1, <2>2
<1>14. Held(u) = Held(r) \ {x}
  <2>1. \A y : y \in Held(u) <=> \E i \in 1..m : y \in Of(u[i])
    BY <1>7 DEF Held
  <2> QED
    BY <1>3, <1>13, <2>1
<1>15. IsFiniteSet(Held(u)) /\ Cardinality(Held(u)) = c - 1
  <2>1. IsFiniteSet(Held(r)) /\ Cardinality(Held(r)) = c
    BY DEF Merging
  <2> QED
    BY <1>8, <1>14, <2>1, FS_RemoveElement
<1>16. Merging(u, m, c - 1)
  BY <1>7, <1>11, <1>13, <1>15 DEF Merging
<1> QED
  BY <1>8, <1>9, <1>14, <1>16 DEF x, u, a

(* Whatever begins with the streams and goes on by taking the foremost      *)
(* while something is left has one less left after each step.               *)
LEMMA MergingGoesOn ==
  ASSUME NEW m \in Nat, NEW c \in Nat, NEW r, Merging(r, m, c),
         NEW h, h[0] = r, \A n \in 1..c : Merging(h[n - 1], m, c - (n - 1)) => h[n] = Taken(h[n - 1])
  PROVE  \A n \in 0..c : Merging(h[n], m, c - n)
<1> DEFINE T == {n \in Nat : n <= c => Merging(h[n], m, c - n)}
<1>1. 0 \in T
  <2>1. c - 0 = c
    OBVIOUS
  <2> QED
    BY <2>1
<1>2. ASSUME NEW n \in Nat, n \in T PROVE n + 1 \in T
  <2> SUFFICES ASSUME n + 1 <= c PROVE Merging(h[n + 1], m, c - (n + 1))
    OBVIOUS
  <2>1. n + 1 \in 1..c /\ (n + 1) - 1 = n /\ c - n \in Nat \ {0} /\ (c - n) - 1 = c - (n + 1) /\ n <= c
    OBVIOUS
  <2>2. Merging(h[n], m, c - n)
    BY <1>2, <2>1
  <2>3. h[n + 1] = Taken(h[n])
    <3>1. Merging(h[(n + 1) - 1], m, c - ((n + 1) - 1)) => h[n + 1] = Taken(h[(n + 1) - 1])
      BY <2>1
    <3> QED
      BY <2>1, <2>2, <3>1
  <2>4. Merging(Taken(h[n]), m, (c - n) - 1)
    <3> DEFINE e == c - n
               v == h[n]
    <3>1. e \in Nat \ {0} /\ Merging(v, m, e)
      BY <2>1, <2>2
    <3> HIDE DEF e, v
    <3>2. Merging(Taken(v), m, e - 1)
      BY <3>1, MergeStep
    <3> QED
      BY <3>2 DEF e, v
  <2> QED
    BY <2>1, <2>3, <2>4
<1> HIDE DEF T
<1>3. \A n \in Nat : n \in T
  BY <1>1, <1>2, Induction
<1> QED
  BY <1>3 DEF T

(* g is what the recursive definition in Merged gives. *)
Merges(r, c, g) == g = [n \in 0..c |-> IF n = 0 THEN r ELSE Taken(g[n - 1])]

(* There is such a g, and as it goes on, what is left gets less.            *)
LEMMA MergesExist ==
  ASSUME NEW m \in Nat, NEW c \in Nat, NEW r, Merging(r, m, c)
  PROVE  \E g : Merges(r, c, g)
<1> DEFINE X == [1..m -> Seq(Nat)]
           More(v) == \E e \in Nat \ {0} : Merging(v, m, e)
           F == [p \in Nat \X X |-> IF More(p[2]) THEN Taken(p[2]) ELSE p[2]]
<1>1. ASSUME NEW v, More(v) PROVE Taken(v) \in X
  <2>1. PICK e \in Nat \ {0} : Merging(v, m, e)
    BY <1>1
  <2>2. Merging(Taken(v), m, e - 1)
    BY <2>1, MergeStep
  <2> QED
    BY <2>2 DEF Merging
<1>2. r \in X
  BY DEF Merging
<1>3. F \in [Nat \X X -> X]
  <2> HIDE DEF X, More
  <2>1. ASSUME NEW p \in Nat \X X PROVE (IF More(p[2]) THEN Taken(p[2]) ELSE p[2]) \in X
    BY <1>1
  <2> QED
    BY <2>1
<1>4. ASSUME NEW k \in Nat, NEW v \in X PROVE F[<<k, v>>] = IF More(v) THEN Taken(v) ELSE v
  <2> HIDE DEF X, More
  <2> QED
    OBVIOUS
<1> HIDE DEF F, X
<1>5. PICK g \in [0..c -> X] : Recursive(F, r, c, g)
  BY <1>2, <1>3, RecursiveExists
<1>6. g[0] = r /\ g = [n \in 0..c |-> g[n]]
  BY <1>5 DEF Recursive
<1>7. ASSUME NEW n \in 1..c PROVE g[n] = IF More(g[n - 1]) THEN Taken(g[n - 1]) ELSE g[n - 1]
  <2>1. n \in 0..c /\ n # 0 /\ n - 1 \in 0..c /\ n \in Nat
    OBVIOUS
  <2>2. g[n] = F[<<n, g[n - 1]>>]
    BY <1>5, <2>1 DEF Recursive
  <2>3. g[n - 1] \in X
    BY <1>5, <2>1
  <2> HIDE DEF More
  <2> QED
    BY <1>4, <2>1, <2>2, <2>3
<1>8. ASSUME NEW n \in 1..c, Merging(g[n - 1], m, c - (n - 1)) PROVE g[n] = Taken(g[n - 1])
  <2>1. c - (n - 1) \in Nat \ {0}
    OBVIOUS
  <2>2. More(g[n - 1])
    BY <1>8, <2>1
  <2> HIDE DEF More
  <2> QED
    BY <1>7, <2>2
<1>9. \A n \in 1..c : Merging(g[n - 1], m, c - (n - 1)) => g[n] = Taken(g[n - 1])
  BY <1>8
<1>10. \A n \in 0..c : Merging(g[n], m, c - n)
  BY <1>6, <1>9, MergingGoesOn
<1>11. ASSUME NEW n \in 0..c PROVE g[n] = IF n = 0 THEN r ELSE Taken(g[n - 1])
  <2>1. CASE n = 0
    BY <1>6, <2>1
  <2>2. CASE n # 0
    <3>1. n \in 1..c /\ n - 1 \in 0..c
      BY <2>2
    <3>2. Merging(g[n - 1], m, c - (n - 1))
      BY <1>10, <3>1
    <3> QED
      BY <1>8, <2>2, <3>1, <3>2
  <2> QED
    BY <2>1, <2>2
<1> QED
  BY <1>6, <1>11 DEF Merges

(* Merging takes all of the streams, from the least to the greatest.        *)
LEMMA MergedRight ==
  ASSUME NEW q \in Seq(Seq(Seq(Nat))),
         \A i \in 1..Len(q) : Ascending(Spilled!FlattenSeq(q[i])),
         \A i, j \in 1..Len(q) : i # j => Of(Spilled!FlattenSeq(q[i])) \cap Of(Spilled!FlattenSeq(q[j])) = {}
  PROVE  /\ Spilled!Merged(q) \in Seq(Nat) /\ Ascending(Spilled!Merged(q))
         /\ \A x : x \in Of(Spilled!Merged(q)) <=> \E i \in 1..Len(q) : x \in Of(Spilled!FlattenSeq(q[i]))
<1> DEFINE m == Len(q)
           r == [i \in DOMAIN q |-> Spilled!FlattenSeq(q[i])]
           c == Len(Spilled!FlattenSeq(r))
           g == CHOOSE f : Merges(r, c, f)
           out == [n \in 1..c |-> Head(g[n - 1][Spilled!Foremost(g[n - 1])])]
<1>1. m \in Nat /\ DOMAIN q = 1..m /\ \A i \in 1..m : q[i] \in Seq(Seq(Nat))
  OBVIOUS
<1>2. ASSUME NEW i \in 1..m PROVE Spilled!FlattenSeq(q[i]) \in Seq(Nat)
  BY <1>1, FlattenHasAll
<1>3. /\ r = [i \in 1..m |-> r[i]] /\ r \in Seq(Seq(Nat)) /\ Len(r) = m /\ DOMAIN r = 1..m
      /\ \A i \in 1..m : r[i] = Spilled!FlattenSeq(q[i]) /\ r[i] \in Seq(Nat)
  <2>1. r = [i \in 1..m |-> r[i]] /\ \A i \in 1..m : r[i] = Spilled!FlattenSeq(q[i]) /\ r[i] \in Seq(Nat)
    BY <1>1, <1>2
  <2> HIDE DEF r, m
  <2> DEFINE D == Seq(Nat)
  <2>2. \A i \in 1..m : r[i] \in D
    BY <2>1
  <2> HIDE DEF D
  <2>3. r \in Seq(D) /\ Len(r) = m /\ DOMAIN r = 1..m
    BY <1>1, <2>1, <2>2, MadeSequence
  <2> QED
    BY <2>1, <2>3 DEF D
<1>4. Spilled!Merged(q) = out
  BY DEF Spilled!Merged, Merges, Taken
<1> HIDE DEF r
<1>5. /\ \A i \in 1..m : Ascending(r[i]) /\ NoneTwice(r[i])
      /\ \A i, j \in 1..m : i # j => Of(r[i]) \cap Of(r[j]) = {}
  <2>1. ASSUME NEW i \in 1..m PROVE Ascending(r[i])
    BY <1>3, <2>1
  <2> QED
    BY <1>3, <2>1, AscendingOnce
<1>6. c \in Nat /\ Spilled!FlattenSeq(r) \in Seq(Nat) /\ Merging(r, m, c)
  <2>1. /\ Spilled!FlattenSeq(r) \in Seq(Nat)
        /\ \A x : x \in Of(Spilled!FlattenSeq(r)) <=> \E i \in 1..Len(r) : x \in Of(r[i])
    <3>1. r \in Seq(Seq(Nat))
      BY <1>3
    <3> HIDE DEF c, g, out, m
    <3> QED
      BY <3>1, FlattenHasAll
  <2>2. Held(r) = Of(Spilled!FlattenSeq(r))
    <3>1. \A x : x \in Held(r) <=> \E i \in 1..m : x \in Of(r[i])
      BY <1>3 DEF Held
    <3> QED
      BY <1>3, <2>1, <3>1
  <2>3. NoneTwice(Spilled!FlattenSeq(r))
    <3>1. \A i \in 1..Len(r) : NoneTwice(r[i])
      BY <1>3, <1>5
    <3>2. \A i, j \in 1..Len(r) : i # j => Of(r[i]) \cap Of(r[j]) = {}
      BY <1>3, <1>5
    <3> QED
      BY <1>3, <3>1, <3>2, FlattenOnce
  <2>4. IsFiniteSet(Held(r)) /\ Cardinality(Held(r)) = c
    <3> DEFINE v == Spilled!FlattenSeq(r)
    <3> HIDE DEF v
    <3>1. IsFiniteSet(Of(v)) /\ Cardinality(Of(v)) = Len(v)
      BY <2>1, <2>3, OnceCount DEF v
    <3> QED
      BY <2>2, <3>1 DEF v
  <2>5. r \in [1..m -> Seq(Nat)]
    BY <1>3
  <2> QED
    BY <1>5, <2>1, <2>4, <2>5 DEF Merging
<1> HIDE DEF m, c
<1>7. Merges(r, c, g)
  <2>1. \E f : Merges(r, c, f)
    BY <1>1, <1>6, MergesExist
  <2> QED
    BY <2>1
<1> HIDE DEF g
<1>8. g[0] = r /\ \A n \in 1..c : g[n] = Taken(g[n - 1])
  BY <1>6, <1>7 DEF Merges
<1>9. \A n \in 0..c : Merging(g[n], m, c - n)
  <2>1. \A n \in 1..c : Merging(g[n - 1], m, c - (n - 1)) => g[n] = Taken(g[n - 1])
    BY <1>8
  <2> QED
    BY <1>1, <1>6, <1>8, <2>1, MergingGoesOn
<1> DEFINE Remain(n) == Held(g[n])
<1>10. ASSUME NEW n \in 1..c
       PROVE  /\ out[n] \in Remain(n - 1) /\ out[n] \in Nat /\ \A y \in Remain(n - 1) : out[n] <= y
              /\ Remain(n) = Remain(n - 1) \ {out[n]}
  <2>1. n - 1 \in 0..c /\ c - (n - 1) \in Nat \ {0}
    BY <1>6
  <2>2. Merging(g[n - 1], m, c - (n - 1))
    BY <1>9, <2>1
  <2> DEFINE v == g[n - 1]
             e == c - (n - 1)
             x == Head(v[Spilled!Foremost(v)])
  <2>3. e \in Nat \ {0} /\ Merging(v, m, e) /\ g[n] = Taken(v)
    BY <1>8, <2>1, <2>2
  <2> HIDE DEF v, e
  <2>4. x \in Held(v) /\ x \in Nat /\ (\A y \in Held(v) : x <= y) /\ Held(Taken(v)) = Held(v) \ {x}
    BY <1>1, <2>3, MergeStep
  <2>5. out[n] = x
    BY DEF v
  <2> HIDE DEF x, out
  <2> QED
    BY <2>3, <2>4, <2>5 DEF v
<1>11. out \in Seq(Nat) /\ Len(out) = c /\ DOMAIN out = 1..c
  <2>1. out = [n \in 1..c |-> out[n]]
    OBVIOUS
  <2> HIDE DEF out, Remain
  <2> QED
    BY <1>6, <1>10, <2>1, MadeSequence
<1> HIDE DEF out, Remain
<1>12. \A i \in 0..c : \A x : x \in Remain(i) => x \in Remain(0)
  <2> DEFINE T == {i \in Nat : i <= c => \A x : x \in Remain(i) => x \in Remain(0)}
  <2>1. 0 \in T
    OBVIOUS
  <2>2. ASSUME NEW i \in Nat, i \in T PROVE i + 1 \in T
    <3> SUFFICES ASSUME i + 1 <= c, NEW x \in Remain(i + 1) PROVE x \in Remain(0)
      OBVIOUS
    <3>1. i + 1 \in 1..c /\ (i + 1) - 1 = i /\ i <= c
      BY <1>6
    <3>2. Remain(i + 1) = Remain(i) \ {out[i + 1]}
      BY <1>10, <3>1
    <3> QED
      BY <2>2, <3>1, <3>2
  <2> HIDE DEF T
  <2>3. \A i \in Nat : i \in T
    BY <2>1, <2>2, Induction
  <2> QED
    BY <1>6, <2>3 DEF T
<1>13. ASSUME NEW i \in 1..c, NEW j \in 1..c, i < j PROVE out[i] < out[j]
  <2> DEFINE T == {k \in Nat : k <= c => \A x : x \in Remain(k) => k < i \/ (x \in Remain(i))}
  <2>1. 0 \in T
    OBVIOUS
  <2>2. ASSUME NEW k \in Nat, k \in T PROVE k + 1 \in T
    <3> SUFFICES ASSUME k + 1 <= c, NEW x \in Remain(k + 1), ~(k + 1 < i) PROVE x \in Remain(i)
      OBVIOUS
    <3>1. k + 1 \in 1..c /\ (k + 1) - 1 = k /\ k <= c
      BY <1>6
    <3>2. Remain(k + 1) = Remain(k) \ {out[k + 1]}
      BY <1>10, <3>1
    <3>3. CASE k + 1 = i
      BY <3>3
    <3>4. CASE k + 1 # i
      BY <2>2, <3>1, <3>2, <3>4
    <3> QED
      BY <3>3, <3>4
  <2> HIDE DEF T
  <2>3. \A k \in Nat : k \in T
    BY <2>1, <2>2, Induction
  <2>4. j - 1 \in Nat /\ j - 1 <= c /\ ~(j - 1 < i)
    BY <1>6, <1>13
  <2>5. out[j] \in Remain(j - 1) /\ out[j] \in Nat
    BY <1>10
  <2>6. out[j] \in Remain(i)
    BY <2>3, <2>4, <2>5 DEF T
  <2>7. Remain(i) = Remain(i - 1) \ {out[i]} /\ out[i] \in Nat /\ \A y \in Remain(i - 1) : out[i] <= y
    BY <1>10
  <2>8. out[i] # out[j] /\ out[i] <= out[j]
    BY <2>6, <2>7
  <2> QED
    BY <2>5, <2>7, <2>8
<1>14. Ascending(out)
  BY <1>11, <1>13 DEF Ascending
<1>15. Of(out) = Remain(0)
  <2>1. \A n \in 1..c : out[n] \in Remain(0)
    <3> SUFFICES ASSUME NEW n \in 1..c PROVE out[n] \in Remain(0)
      OBVIOUS
    <3>1. n - 1 \in 0..c
      BY <1>6
    <3> QED
      BY <1>10, <1>12, <3>1
  <2>2. out = [n \in 1..c |-> out[n]]
    BY <1>11
  <2> DEFINE S == Remain(0)
  <2>3. IsFiniteSet(S) /\ Cardinality(S) = c
    BY <1>6, <1>8 DEF Remain, Merging
  <2> HIDE DEF S
  <2>4. out \in Seq(S)
    BY <1>6, <2>1, <2>2, MadeSequence DEF S
  <2>5. NoneTwice(out)
    BY <1>11, <1>14, AscendingOnce
  <2> QED
    BY <1>11, <2>3, <2>4, <2>5, OfAll DEF S
<1>16. \A x : x \in Of(out) <=> \E i \in 1..m : x \in Of(Spilled!FlattenSeq(q[i]))
  <2>1. \A x : x \in Held(r) <=> \E i \in 1..m : x \in Of(r[i])
    BY <1>3 DEF Held, m
  <2>2. Remain(0) = Held(r)
    BY <1>8 DEF Remain
  <2>3. \A i \in 1..m : r[i] = Spilled!FlattenSeq(q[i])
    BY <1>3
  <2> HIDE DEF m, Remain
  <2> QED
    BY <1>15, <2>1, <2>2, <2>3
<1> QED
  BY <1>4, <1>11, <1>14, <1>16 DEF m

-----------------------------------------------------------------------------
(* The spill file, the runs and the store.                                  *)

(* The rows of a run. *)
Rows(run) == Of(Spilled!FlattenSeq(run))

(* Blocks that ascend and share nothing. *)
BlocksRight(bs) ==
  /\ bs \in Seq(Seq(Nat))
  /\ \A i \in 1..Len(bs) : Ascending(bs[i])
  /\ \A i, j \in 1..Len(bs) : i # j => Of(bs[i]) \cap Of(bs[j]) = {}

(* Runs that ascend, share nothing and have what the blocks have. *)
RunsRight(bs, rs) ==
  /\ rs \in Seq(Seq(Seq(Nat)))
  /\ \A i \in 1..Len(rs) : Ascending(Spilled!FlattenSeq(rs[i]))
  /\ \A i, j \in 1..Len(rs) : i # j => Rows(rs[i]) \cap Rows(rs[j]) = {}
  /\ \A x : (\E i \in 1..Len(rs) : x \in Rows(rs[i])) <=> x \in Rows(bs)

(* What is written in order, in blocks. *)
StoredRight(bs, st) ==
  \E s \in Seq(Nat) : Ascending(s) /\ Of(s) = Rows(bs) /\ st = Spilled!Chunks(s, BlockRows)

SpillInv ==
  /\ todo \in Seq(Nat) /\ NoneTwice(todo)
  /\ buffer \in Seq(Nat) /\ NoneTwice(buffer)
  /\ BlocksRight(blocks) /\ passes \in Nat
  /\ Of(todo) \cap Of(buffer) = {}
  /\ \A i \in 1..Len(blocks) : Of(blocks[i]) \cap Of(todo) = {} /\ Of(blocks[i]) \cap Of(buffer) = {}
  /\ runs = None => stored = None /\ passes = 0
  /\ runs # None => /\ todo = <<>> /\ buffer = <<>>
                    /\ RunsRight(blocks, runs) /\ passes + Len(runs) <= Len(blocks)
  /\ stored # None => StoredRight(blocks, stored)

(* The first of a sequence without repetition is not in the rest.           *)
LEMMA HeadOfOnce ==
  ASSUME NEW s \in Seq(Nat), NoneTwice(s), s # <<>>
  PROVE  /\ Head(s) \in Of(s) /\ Head(s) \in Nat
         /\ Tail(s) \in Seq(Nat) /\ NoneTwice(Tail(s)) /\ Of(Tail(s)) = Of(s) \ {Head(s)}
<1> DEFINE t == Tail(s)
           n == Len(s)
<1>1. /\ n \in Nat /\ n >= 1 /\ DOMAIN s = 1..n /\ Head(s) = s[1] /\ \A k \in 1..n : s[k] \in Nat
      /\ t \in Seq(Nat) /\ Len(t) = n - 1 /\ DOMAIN t = 1..(n - 1)
  OBVIOUS
<1>2. \A k \in 1..(n - 1) : t[k] = s[k + 1]
  OBVIOUS
<1> HIDE DEF t, n
<1>3. ASSUME NEW k \in 1..n, k # 1 PROVE s[1] # s[k]
  <2>1. 1 \in DOMAIN s /\ k \in DOMAIN s
    BY <1>1, <1>3
  <2> QED
    BY <1>3, <2>1 DEF NoneTwice
<1>4. NoneTwice(t)
  <2> SUFFICES ASSUME NEW i \in 1..(n - 1), NEW j \in 1..(n - 1), t[i] = t[j] PROVE i = j
    BY <1>1 DEF NoneTwice
  <2>1. i + 1 \in DOMAIN s /\ j + 1 \in DOMAIN s /\ s[i + 1] = s[j + 1]
    BY <1>1, <1>2
  <2>2. i + 1 = j + 1
    BY <2>1 DEF NoneTwice
  <2> QED
    BY <1>1, <2>2
<1>5. Of(t) = Of(s) \ {s[1]}
  <2>1. ASSUME NEW x \in Of(t) PROVE x \in Of(s) /\ x # s[1]
    <3>1. PICK k \in 1..(n - 1) : x = t[k]
      BY <1>1 DEF Of
    <3>2. k + 1 \in 1..n /\ k + 1 # 1 /\ x = s[k + 1]
      BY <1>1, <1>2, <3>1
    <3>3. x # s[1]
      BY <1>3, <3>2
    <3>4. x \in Of(s)
      BY <1>1, <3>2 DEF Of
    <3> QED
      BY <3>3, <3>4
  <2>2. ASSUME NEW x \in Of(s), x # s[1] PROVE x \in Of(t)
    <3>1. PICK k \in 1..n : x = s[k]
      BY <1>1 DEF Of
    <3>2. k - 1 \in 1..(n - 1) /\ (k - 1) + 1 = k
      BY <1>1, <2>2, <3>1
    <3>3. x = t[k - 1]
      BY <1>2, <3>1, <3>2
    <3> QED
      BY <1>1, <3>2, <3>3 DEF Of
  <2> QED
    BY <2>1, <2>2
<1>6. s[1] \in Of(s) /\ s[1] \in Nat
  BY <1>1 DEF Of
<1> QED
  BY <1>1, <1>4, <1>5, <1>6 DEF t

(* A flushed block keeps the blocks right, and apart from what was apart.    *)
LEMMA FlushedRight ==
  ASSUME BlocksRight(blocks), NEW s \in Seq(Nat), NoneTwice(s),
         \A i \in 1..Len(blocks) : Of(blocks[i]) \cap Of(s) = {}
  PROVE  /\ BlocksRight(Spilled!Flushed(s))
         /\ \A Z : /\ \A i \in 1..Len(blocks) : Of(blocks[i]) \cap Z = {}
                   /\ Of(s) \cap Z = {}
                   => \A i \in 1..Len(Spilled!Flushed(s)) : Of(Spilled!Flushed(s)[i]) \cap Z = {}
<1>1. CASE s = <<>>
  BY <1>1 DEF Spilled!Flushed
<1>2. CASE s # <<>>
  <2> DEFINE w == Spilled!Flushed(s)
             b == Spilled!Sorted(s)
             n == Len(blocks)
             D == Seq(Nat)
  <2>1. b \in D /\ Ascending(b) /\ Of(b) = Of(s)
    BY SortedAscends
  <2>2. w = Append(blocks, b)
    BY <1>2 DEF Spilled!Flushed
  <2>3. blocks \in Seq(D)
    BY DEF BlocksRight
  <2> HIDE DEF w, b, D
  <2>4. w \in Seq(D) /\ Len(w) = n + 1 /\ n \in Nat /\ w[n + 1] = b /\ \A k \in 1..n : w[k] = blocks[k]
    BY <2>1, <2>2, <2>3, OfAppend
  <2> HIDE DEF n
  <2>5. \A i \in 1..(n + 1) : i \in 1..n \/ i = n + 1
    BY <2>4
  <2>6. /\ \A i \in 1..n : Ascending(blocks[i])
        /\ \A i, j \in 1..n : i # j => Of(blocks[i]) \cap Of(blocks[j]) = {}
        /\ \A i \in 1..n : Of(blocks[i]) \cap Of(b) = {}
    BY <2>1 DEF BlocksRight, n
  <2>7. BlocksRight(w)
    <3>1. \A i \in 1..(n + 1) : Ascending(w[i])
      BY <2>1, <2>4, <2>5, <2>6
    <3>2. ASSUME NEW i \in 1..(n + 1), NEW j \in 1..(n + 1), i # j PROVE Of(w[i]) \cap Of(w[j]) = {}
      BY <2>4, <2>5, <2>6, <3>2
    <3> QED
      BY <2>4, <3>1, <3>2 DEF BlocksRight, D
  <2>8. ASSUME NEW Z, \A i \in 1..n : Of(blocks[i]) \cap Z = {}, Of(s) \cap Z = {}
        PROVE  \A i \in 1..(n + 1) : Of(w[i]) \cap Z = {}
    BY <2>1, <2>4, <2>5, <2>8
  <2> QED
    BY <2>4, <2>7, <2>8 DEF w, n
<1> QED
  BY <1>1, <1>2

(* A run of one block has its rows.                                         *)
LEMMA FlattenSingle ==
  ASSUME NEW b \in Seq(Nat)
  PROVE  <<b>> \in Seq(Seq(Nat)) /\ Spilled!FlattenSeq(<<b>>) = b
<1> DEFINE D == Seq(Nat)
           q == <<b>>
           g == [k \in 0..1 |-> IF k = 0 THEN <<>> ELSE b]
<1>1. q \in Seq(D) /\ Len(q) = 1 /\ q[1] = b
  <2> HIDE DEF D
  <2>1. b \in D
    BY DEF D
  <2> QED
    BY <2>1
<1>2. g[0] = <<>> /\ g[1] = b /\ g \in [0..1 -> Seq(Nat)]
  <2>1. <<>> \in Seq(Nat)
    OBVIOUS
  <2> QED
    BY <2>1
<1>3. <<>> \o b = b
  OBVIOUS
<1> HIDE DEF g, q
<1>4. Flattens(Nat, q, Len(q), g)
  <2>1. ASSUME NEW k \in 1..1 PROVE g[k] = g[k - 1] \o q[k]
    <3>1. k = 1 /\ k - 1 = 0
      OBVIOUS
    <3> QED
      BY <1>1, <1>2, <1>3, <3>1
  <2> QED
    BY <1>1, <1>2, <2>1 DEF Flattens
<1>5. Spilled!FlattenSeq(q) = g[Len(q)]
  BY <1>1, <1>4, FlattenIs DEF D
<1> QED
  BY <1>1, <1>2, <1>5 DEF q, D

(* Nothing is spilled twice at the beginning.                               *)
LEMMA SpillBegins == Spilled!SpillInit => SpillInv
<1> SUFFICES ASSUME Spilled!SpillInit PROVE SpillInv
  OBVIOUS
<1>1. /\ todo \in Seq(Nat) /\ (\A i, j \in DOMAIN todo : i # j => todo[i] # todo[j])
      /\ buffer = <<>> /\ blocks = <<>> /\ runs = None /\ passes = 0 /\ stored = None
  BY SpillConstants DEF Spilled!SpillInit
<1>2. NoneTwice(todo)
  BY <1>1 DEF NoneTwice
<1>3. buffer \in Seq(Nat) /\ NoneTwice(buffer) /\ Of(buffer) = {}
  BY <1>1 DEF NoneTwice, Of
<1>4. Len(blocks) = 0 /\ 1..0 = {} /\ blocks \in Seq(Seq(Nat))
  BY <1>1
<1>5. BlocksRight(blocks)
  BY <1>4 DEF BlocksRight
<1> QED
  BY <1>1, <1>2, <1>3, <1>4, <1>5 DEF SpillInv

(* Spill.                                                                   *)
LEMMA SpillKeeps ==
  ASSUME SpillInv, Spilled!Spill
  PROVE  SpillInv'
<1> DEFINE x == Head(todo)
           filled == Append(buffer, x)
<1>1. /\ todo \in Seq(Nat) /\ NoneTwice(todo) /\ todo # <<>> /\ todo' = Tail(todo)
      /\ buffer \in Seq(Nat) /\ NoneTwice(buffer) /\ Of(todo) \cap Of(buffer) = {}
      /\ runs' = runs /\ passes' = passes /\ stored' = stored
      /\ BlocksRight(blocks) /\ passes \in Nat /\ runs = None /\ stored = None /\ passes = 0
  BY DEF SpillInv, Spilled!Spill
<1>2. \/ Len(filled) >= BlockRows /\ buffer' = <<>> /\ blocks' = Spilled!Flushed(filled)
      \/ ~(Len(filled) >= BlockRows) /\ buffer' = filled /\ blocks' = blocks
  BY DEF Spilled!Spill
<1>3. \A i \in 1..Len(blocks) : Of(blocks[i]) \cap Of(todo) = {} /\ Of(blocks[i]) \cap Of(buffer) = {}
  BY DEF SpillInv
<1>4. /\ x \in Of(todo) /\ x \in Nat
      /\ Tail(todo) \in Seq(Nat) /\ NoneTwice(Tail(todo)) /\ Of(Tail(todo)) = Of(todo) \ {x}
  BY <1>1, HeadOfOnce
<1> HIDE DEF x
<1>5. filled \in Seq(Nat) /\ Of(filled) = Of(buffer) \cup {x} /\ NoneTwice(filled)
  <2>1. x \notin Of(buffer)
    BY <1>1, <1>4
  <2> QED
    BY <1>1, <1>4, <2>1, OfAppend
<1> HIDE DEF filled
<1>6. todo' \in Seq(Nat) /\ NoneTwice(todo') /\ Of(todo') = Of(todo) \ {x} /\ Of(filled) \cap Of(todo') = {}
  BY <1>1, <1>4, <1>5
<1>7. \A i \in 1..Len(blocks) : Of(blocks[i]) \cap Of(todo') = {} /\ Of(blocks[i]) \cap Of(filled) = {}
  BY <1>3, <1>4, <1>5, <1>6
<1>8. /\ buffer' \in Seq(Nat) /\ NoneTwice(buffer') /\ BlocksRight(blocks')
      /\ Of(todo') \cap Of(buffer') = {}
      /\ \A i \in 1..Len(blocks') : Of(blocks'[i]) \cap Of(todo') = {} /\ Of(blocks'[i]) \cap Of(buffer') = {}
  <2>1. CASE buffer' = <<>> /\ blocks' = Spilled!Flushed(filled)
    <3>1. /\ BlocksRight(Spilled!Flushed(filled))
          /\ \A Z : /\ \A i \in 1..Len(blocks) : Of(blocks[i]) \cap Z = {}
                    /\ Of(filled) \cap Z = {}
                    => \A i \in 1..Len(Spilled!Flushed(filled)) : Of(Spilled!Flushed(filled)[i]) \cap Z = {}
      BY <1>1, <1>5, <1>7, FlushedRight
    <3>2. Of(buffer') = {} /\ NoneTwice(buffer') /\ buffer' \in Seq(Nat)
      BY <2>1 DEF Of, NoneTwice
    <3>3. \A i \in 1..Len(Spilled!Flushed(filled)) : Of(Spilled!Flushed(filled)[i]) \cap Of(todo') = {}
      BY <1>6, <1>7, <3>1
    <3> QED
      BY <2>1, <3>1, <3>2, <3>3
  <2>2. CASE buffer' = filled /\ blocks' = blocks
    BY <1>1, <1>5, <1>6, <1>7, <2>2
  <2> QED
    BY <1>2, <2>1, <2>2
<1>9. runs' = None /\ stored' = None /\ passes' = 0 /\ passes' \in Nat
  BY <1>1
<1> QED
  BY <1>6, <1>8, <1>9 DEF SpillInv, BlocksRight

(* Close: every block is a run.                                             *)
LEMMA CloseSpillKeeps ==
  ASSUME SpillInv, Spilled!Close
  PROVE  SpillInv'
<1>1. /\ todo = <<>> /\ todo' = todo /\ runs = None /\ passes' = passes /\ stored' = stored
      /\ blocks' = Spilled!Flushed(buffer) /\ buffer' = <<>>
      /\ runs' = [i \in DOMAIN blocks' |-> <<blocks'[i]>>]
  BY DEF Spilled!Close
<1>2. /\ buffer \in Seq(Nat) /\ NoneTwice(buffer) /\ BlocksRight(blocks) /\ stored = None /\ passes = 0
      /\ \A i \in 1..Len(blocks) : Of(blocks[i]) \cap Of(buffer) = {}
  BY <1>1 DEF SpillInv
<1>3. BlocksRight(blocks')
  BY <1>1, <1>2, FlushedRight
<1> DEFINE bs == blocks'
           n == Len(bs)
           rs == [i \in DOMAIN bs |-> <<bs[i]>>]
<1>4. /\ bs \in Seq(Seq(Nat)) /\ n \in Nat /\ DOMAIN bs = 1..n /\ \A i \in 1..n : bs[i] \in Seq(Nat) /\ Ascending(bs[i])
      /\ \A i, j \in 1..n : i # j => Of(bs[i]) \cap Of(bs[j]) = {}
  <2>1. BlocksRight(bs)
    BY <1>3
  <2> HIDE DEF bs
  <2>2. bs \in Seq(Seq(Nat)) /\ \A i \in 1..n : Ascending(bs[i])
    BY <2>1 DEF BlocksRight
  <2>3. \A i, j \in 1..n : i # j => Of(bs[i]) \cap Of(bs[j]) = {}
    BY <2>1 DEF BlocksRight
  <2>4. n \in Nat /\ DOMAIN bs = 1..n /\ \A i \in 1..n : bs[i] \in Seq(Nat)
    BY <2>2
  <2> QED
    BY <2>2, <2>3, <2>4
<1>5. runs' = rs
  BY <1>1
<1> HIDE DEF bs, n
<1>6. ASSUME NEW i \in 1..n PROVE rs[i] \in Seq(Seq(Nat)) /\ Spilled!FlattenSeq(rs[i]) = bs[i]
  <2>1. rs[i] = <<bs[i]>> /\ bs[i] \in Seq(Nat)
    BY <1>4
  <2>2. <<bs[i]>> \in Seq(Seq(Nat)) /\ Spilled!FlattenSeq(<<bs[i]>>) = bs[i]
    BY <2>1, FlattenSingle
  <2> QED
    BY <2>1, <2>2
<1>7. rs \in Seq(Seq(Seq(Nat))) /\ Len(rs) = n
  <2> DEFINE D == Seq(Seq(Nat))
  <2>1. rs = [i \in 1..n |-> rs[i]]
    BY <1>4
  <2> HIDE DEF rs
  <2>2. \A i \in 1..n : rs[i] \in D
    BY <1>6
  <2> HIDE DEF D
  <2>3. rs \in Seq(D) /\ Len(rs) = n
    BY <1>4, <2>1, <2>2, MadeSequence
  <2> QED
    BY <2>3 DEF D
<1> HIDE DEF rs
<1>8. RunsRight(bs, rs)
  <2>1. \A x : x \in Of(Spilled!FlattenSeq(bs)) <=> \E k \in 1..Len(bs) : x \in Of(bs[k])
    BY <1>4, FlattenHasAll
  <2>2. ASSUME NEW i \in 1..n PROVE Ascending(Spilled!FlattenSeq(rs[i])) /\ Rows(rs[i]) = Of(bs[i])
    BY <1>4, <1>6 DEF Rows
  <2>3. \A x : (\E i \in 1..n : x \in Rows(rs[i])) <=> x \in Rows(bs)
    BY <2>1, <2>2 DEF Rows, n
  <2> QED
    BY <1>4, <1>7, <2>2, <2>3 DEF RunsRight
<1>9. /\ todo' = <<>> /\ buffer' = <<>> /\ todo' \in Seq(Nat) /\ NoneTwice(todo') /\ Of(todo') = {}
      /\ passes' \in Nat /\ passes' + Len(runs') <= Len(blocks') /\ stored' = None
  <2>1. todo' = <<>>
    BY <1>1
  <2>2. NoneTwice(<<>>) /\ Of(<<>>) = {} /\ <<>> \in Seq(Nat)
    BY DEF NoneTwice, Of
  <2>3. passes' = 0 /\ Len(runs') = n /\ n = Len(blocks') /\ 0 + n <= n /\ stored' = None
    BY <1>1, <1>2, <1>4, <1>5, <1>7 DEF n, bs
  <2> QED
    BY <1>1, <2>1, <2>2, <2>3
<1>10. RunsRight(blocks', runs')
  BY <1>5, <1>8 DEF bs
<1>11. passes' = 0
  BY <1>1, <1>2
<1> QED
  BY <1>3, <1>9, <1>10, <1>11 DEF SpillInv, BlocksRight, RunsRight, Rows

(* Of more than f there are fewer blocks of f.                              *)
LEMMA FewerBlocks ==
  ASSUME NEW n \in Nat, NEW f \in Nat, f >= 2, n > f, NEW k, k = (n + f - 1) \div f
  PROVE  k \in Nat /\ k < n
OBVIOUS

(* A pass makes fewer runs of what it merges.                               *)
LEMMA FewerGroups ==
  ASSUME NEW s \in Seq(Seq(Seq(Nat))), Len(s) > FanIn
  PROVE  Blocks(s, FanIn) \in Nat /\ Blocks(s, FanIn) < Len(s)
<1>1. FanIn \in Nat /\ FanIn >= 2 /\ Len(s) \in Nat
  BY SpillConstants
<1> DEFINE n == Len(s)
           f == FanIn
<1> HIDE DEF n, f
<1>2. n \in Nat /\ f \in Nat /\ f >= 2 /\ n > f
  BY <1>1 DEF n, f
<1> DEFINE k == (n + f - 1) \div f
<1>4. k = (n + f - 1) \div f
  OBVIOUS
<1> HIDE DEF k
<1>5. k \in Nat /\ k < n
  BY <1>2, <1>4, FewerBlocks
<1>3. (n + f - 1) \div f \in Nat /\ (n + f - 1) \div f < n
  BY <1>5 DEF k
<1> QED
  BY <1>3 DEF Blocks, n, f

(* Where an element of a group is in the whole.                             *)
PlaceOf(n, i, k) == (i - 1) * n + k

(* Group i has a kth element. *)
Placed(s, n, i, k) == i \in 1..Blocks(s, n) /\ k \in 1..Len(Spilled!Chunks(s, n)[i])

(* It is the element at its place, and no other element has that place. *)
PlacedApart(s, n, i, k, j, l) ==
  /\ PlaceOf(n, i, k) \in 1..Len(s) /\ s[PlaceOf(n, i, k)] = Spilled!Chunks(s, n)[i][k]
  /\ PlaceOf(n, i, k) = PlaceOf(n, j, l) => i = j /\ k = l

(* No place is in two groups.                                               *)
LEMMA PlacesApart ==
  ASSUME NEW E, NEW s \in Seq(E), NEW n \in Nat \ {0},
         NEW i, NEW k, Placed(s, n, i, k), NEW j, NEW l, Placed(s, n, j, l)
  PROVE  PlacedApart(s, n, i, k, j, l)
<1>1. Blocks(s, n) \in Nat /\ Len(s) \in Nat
  BY ChunksAre
<1>2. ASSUME NEW g \in 1..Blocks(s, n), NEW p \in 1..Len(Spilled!Chunks(s, n)[g])
      PROVE  /\ PlaceOf(n, g, p) \in 1..Len(s) /\ s[PlaceOf(n, g, p)] = Spilled!Chunks(s, n)[g][p]
             /\ g \in Nat /\ g >= 1 /\ p \in Nat /\ p >= 1 /\ p <= n /\ (g - 1) * n \in Nat
  <2> DEFINE a == (g - 1) * n
             e == EndOf(s, n, g)
             c == Spilled!Chunks(s, n)[g]
  <2>1. /\ a \in Nat /\ a < e /\ e \in 1..Len(s) /\ Len(c) = e - a
        /\ \A k0 \in 1..(e - a) : c[k0] = s[a + k0]
    <3>1. ChunkShows(s, n, g)
      BY ChunksShow
    <3> QED
      BY <3>1 DEF ChunkShows
  <2>2. e <= a + n
    <3>1. g * n = a + n /\ a + n \in Nat
      BY <1>1
    <3>2. e = IF a + n <= Len(s) THEN a + n ELSE Len(s)
      BY <3>1 DEF EndOf
    <3> HIDE DEF a, e
    <3> QED
      BY <1>1, <3>1, <3>2
  <2> HIDE DEF a, e, c
  <2>3. p \in 1..(e - a)
    BY <2>1 DEF c
  <2>4. p \in Nat /\ p >= 1 /\ p <= n /\ a + p \in 1..Len(s) /\ c[p] = s[a + p]
    BY <1>1, <2>1, <2>2, <2>3
  <2> QED
    BY <1>1, <2>1, <2>4 DEF PlaceOf, a, c
<1>3. ASSUME PlaceOf(n, i, k) = PlaceOf(n, j, l)
      PROVE  i = j /\ k = l
  <2> DEFINE a == (i - 1) * n
             b == (j - 1) * n
  <2>1. /\ i \in Nat /\ k \in Nat /\ k >= 1 /\ k <= n /\ a \in Nat
        /\ j \in Nat /\ l \in Nat /\ l >= 1 /\ l <= n /\ b \in Nat
    BY <1>2 DEF Placed
  <2>2. a + k = b + l
    BY <1>3 DEF PlaceOf
  <2>3. i < j => a + n <= b
    <3> SUFFICES ASSUME i < j PROVE a + n <= b
      OBVIOUS
    <3>1. i * n <= (j - 1) * n
      <4>1. i \in Int /\ j - 1 \in Int /\ i <= j - 1 /\ n \in Nat
        BY <2>1
      <4> QED
        BY <4>1, ProductGrows
    <3>2. i * n = a + n
      BY <2>1
    <3> QED
      BY <3>1, <3>2
  <2>4. j < i => b + n <= a
    <3> SUFFICES ASSUME j < i PROVE b + n <= a
      OBVIOUS
    <3>1. j * n <= (i - 1) * n
      <4>1. j \in Int /\ i - 1 \in Int /\ j <= i - 1 /\ n \in Nat
        BY <2>1
      <4> QED
        BY <4>1, ProductGrows
    <3>2. j * n = b + n
      BY <2>1
    <3> QED
      BY <3>1, <3>2
  <2>5. i = j => a = b
    OBVIOUS
  <2> HIDE DEF a, b
  <2> QED
    BY <2>1, <2>2, <2>3, <2>4, <2>5
<1> QED
  BY <1>2, <1>3 DEF Placed, PlacedApart

(* What a pass merges of right runs is right, group by group.               *)
LEMMA GroupMerges ==
  ASSUME NEW bs, NEW rs, RunsRight(bs, rs), NEW i \in 1..Blocks(rs, FanIn)
  PROVE  LET c == Spilled!Chunks(rs, FanIn)[i]
             made == Spilled!Merged(c)
         IN  /\ made \in Seq(Nat) /\ Ascending(made)
             /\ \A x : x \in Of(made) <=> \E k \in 1..Len(c) : x \in Rows(c[k])
<1> DEFINE D == Seq(Seq(Nat))
           q == Spilled!Chunks(rs, FanIn)
           c == q[i]
<1>1. FanIn \in Nat \ {0} /\ rs \in Seq(Seq(Seq(Nat)))
  BY SpillConstants DEF RunsRight
<1>2. /\ \A k \in 1..Len(rs) : Ascending(Spilled!FlattenSeq(rs[k]))
      /\ \A k, l \in 1..Len(rs) : k # l => Rows(rs[k]) \cap Rows(rs[l]) = {}
  BY DEF RunsRight
<1>3. ASSUME NEW k \in 1..Len(c), NEW l \in 1..Len(c)
      PROVE  /\ PlaceOf(FanIn, i, k) \in 1..Len(rs) /\ rs[PlaceOf(FanIn, i, k)] = c[k]
             /\ PlaceOf(FanIn, i, k) = PlaceOf(FanIn, i, l) => k = l
  <2>1. Placed(rs, FanIn, i, k) /\ Placed(rs, FanIn, i, l)
    BY DEF Placed
  <2>2. FanIn \in Nat \ {0} /\ rs \in Seq(D)
    BY <1>1
  <2> HIDE DEF D
  <2>3. PlacedApart(rs, FanIn, i, k, i, l)
    BY <2>1, <2>2, PlacesApart
  <2> QED
    BY <2>3 DEF PlacedApart
<1>4. c \in Seq(D)
  <2> HIDE DEF D
  <2>1. rs \in Seq(D)
    BY <1>1 DEF D
  <2>2. q \in Seq(Seq(D)) /\ Len(q) = Blocks(rs, FanIn)
    BY <1>1, <2>1, ChunksAre
  <2> HIDE DEF q
  <2> QED
    BY <2>2
<1> HIDE DEF c, q
<1>5. \A k \in 1..Len(c) : Ascending(Spilled!FlattenSeq(c[k]))
  BY <1>2, <1>3
<1>6. \A k, l \in 1..Len(c) : k # l => Rows(c[k]) \cap Rows(c[l]) = {}
  <2> SUFFICES ASSUME NEW k \in 1..Len(c), NEW l \in 1..Len(c), k # l PROVE Rows(c[k]) \cap Rows(c[l]) = {}
    OBVIOUS
  <2>1. PlaceOf(FanIn, i, k) # PlaceOf(FanIn, i, l)
    BY <1>3
  <2> QED
    BY <1>2, <1>3, <2>1
<1>7. \A k, l \in 1..Len(c) : k # l => Of(Spilled!FlattenSeq(c[k])) \cap Of(Spilled!FlattenSeq(c[l])) = {}
  BY <1>6 DEF Rows
<1>8. c \in Seq(Seq(Seq(Nat)))
  BY <1>4
<1>9. /\ Spilled!Merged(c) \in Seq(Nat) /\ Ascending(Spilled!Merged(c))
      /\ \A x : x \in Of(Spilled!Merged(c)) <=> \E k \in 1..Len(c) : x \in Of(Spilled!FlattenSeq(c[k]))
  BY <1>5, <1>7, <1>8, MergedRight
<1> QED
  BY <1>9 DEF Rows, c, q

(* The groups of the runs have what the runs have.                           *)
LEMMA GroupsCover ==
  ASSUME NEW rs \in Seq(Seq(Seq(Nat))), NEW j \in 1..Len(rs)
  PROVE  \E i \in 1..Blocks(rs, FanIn) : \E k \in 1..Len(Spilled!Chunks(rs, FanIn)[i]) :
           Spilled!Chunks(rs, FanIn)[i][k] = rs[j]
<1> DEFINE D == Seq(Seq(Nat))
           q == Spilled!Chunks(rs, FanIn)
<1>1. FanIn \in Nat \ {0} /\ rs \in Seq(D) /\ DOMAIN rs = 1..Len(rs)
  BY SpillConstants
<1> HIDE DEF D
<1>2. q \in Seq(Seq(D)) /\ Len(q) = Blocks(rs, FanIn)
  BY <1>1, ChunksAre
<1>3. Spilled!FlattenSeq(q) = rs
  BY <1>1, ChunksJoin
<1> HIDE DEF q
<1>4. \A x : x \in Of(Spilled!FlattenSeq(q)) <=> \E k \in 1..Len(q) : x \in Of(q[k])
  BY <1>2, FlattenHasAll
<1>5. rs[j] \in Of(rs)
  BY <1>1 DEF Of
<1>6. PICK i \in 1..Len(q) : rs[j] \in Of(q[i])
  BY <1>3, <1>4, <1>5
<1>7. q[i] \in Seq(D)
  BY <1>2
<1>8. DOMAIN q[i] = 1..Len(q[i])
  BY <1>7
<1> QED
  BY <1>2, <1>6, <1>8 DEF Of, q

(* Pass.                                                                    *)
LEMMA PassKeeps ==
  ASSUME SpillInv, Spilled!Pass
  PROVE  SpillInv'
<1>1. /\ runs # None /\ Len(runs) > FanIn /\ passes' = passes + 1
      /\ todo' = todo /\ buffer' = buffer /\ blocks' = blocks /\ stored' = stored
  BY DEF Spilled!Pass
<1>2. /\ todo = <<>> /\ buffer = <<>> /\ RunsRight(blocks, runs) /\ passes + Len(runs) <= Len(blocks)
      /\ passes \in Nat
  BY <1>1 DEF SpillInv
<1> DEFINE rs == runs
           K == Blocks(rs, FanIn)
           q == Spilled!Chunks(rs, FanIn)
           made == [i \in 1..K |-> Spilled!Merged(q[i])]
           us == [i \in 1..K |-> Spilled!Chunks(Spilled!Merged(q[i]), BlockRows)]
<1>3. rs \in Seq(Seq(Seq(Nat))) /\ K \in Nat /\ K < Len(rs) /\ Len(q) = K /\ FanIn \in Nat \ {0} /\ BlockRows \in Nat \ {0}
  <2>1. rs \in Seq(Seq(Seq(Nat))) /\ FanIn \in Nat \ {0} /\ BlockRows \in Nat \ {0}
    BY <1>2, SpillConstants DEF RunsRight
  <2>2. Len(q) = K
    BY <2>1, ChunksAre
  <2> HIDE DEF K, q
  <2>3. K \in Nat /\ K < Len(rs)
    BY <1>1, <2>1, FewerGroups DEF K
  <2> QED
    BY <2>1, <2>2, <2>3
<1>4. runs' = us
  <2>1. runs' = [g \in 1..Len(q) |-> Spilled!Chunks(Spilled!Merged(q[g]), BlockRows)]
    BY DEF Spilled!Pass
  <2> QED
    BY <1>3, <2>1
<1>5. ASSUME NEW i \in 1..K
      PROVE  /\ made[i] \in Seq(Nat) /\ Ascending(made[i])
             /\ \A x : x \in Of(made[i]) <=> \E k \in 1..Len(q[i]) : x \in Rows(q[i][k])
  BY <1>2, GroupMerges
<1>6. ASSUME NEW i \in 1..K PROVE us[i] = Spilled!Chunks(made[i], BlockRows)
  OBVIOUS
<1>7. us = [i \in 1..K |-> us[i]]
  OBVIOUS
<1> HIDE DEF us, made
<1>8. ASSUME NEW i \in 1..K PROVE us[i] \in Seq(Seq(Nat)) /\ Spilled!FlattenSeq(us[i]) = made[i]
  <2> DEFINE s == made[i]
  <2>1. s \in Seq(Nat) /\ us[i] = Spilled!Chunks(s, BlockRows)
    BY <1>5, <1>6
  <2> HIDE DEF s
  <2>2. Spilled!Chunks(s, BlockRows) \in Seq(Seq(Nat)) /\ Spilled!FlattenSeq(Spilled!Chunks(s, BlockRows)) = s
    BY <1>3, <2>1, ChunksAre, ChunksJoin
  <2> QED
    BY <2>1, <2>2 DEF s
<1>9. us \in Seq(Seq(Seq(Nat))) /\ Len(us) = K
  <2> DEFINE D == Seq(Seq(Nat))
  <2>1. \A i \in 1..K : us[i] \in D
    BY <1>8
  <2> HIDE DEF D, K
  <2>2. us \in Seq(D) /\ Len(us) = K
    BY <1>3, <1>7, <2>1, MadeSequence
  <2> QED
    BY <2>2 DEF D
<1>10. ASSUME NEW i \in 1..K, NEW k \in 1..Len(q[i]), NEW j \in 1..K, NEW l \in 1..Len(q[j])
       PROVE  /\ PlaceOf(FanIn, i, k) \in 1..Len(rs) /\ rs[PlaceOf(FanIn, i, k)] = q[i][k]
              /\ PlaceOf(FanIn, i, k) = PlaceOf(FanIn, j, l) => i = j /\ k = l
  <2> DEFINE D == Seq(Seq(Nat))
  <2>1. Placed(rs, FanIn, i, k) /\ Placed(rs, FanIn, j, l)
    BY DEF Placed
  <2>2. FanIn \in Nat \ {0} /\ rs \in Seq(D)
    BY <1>3
  <2> HIDE DEF D, rs, K, q
  <2>3. PlacedApart(rs, FanIn, i, k, j, l)
    BY <2>1, <2>2, PlacesApart
  <2> QED
    BY <2>3 DEF PlacedApart, K, q
<1>11. ASSUME NEW x, NEW j \in 1..Len(rs), x \in Rows(rs[j]) PROVE \E i \in 1..K : x \in Of(made[i])
  <2>1. \E i \in 1..K : \E k \in 1..Len(q[i]) : q[i][k] = rs[j]
    BY <1>3, GroupsCover
  <2> HIDE DEF rs, K, q
  <2>2. PICK i \in 1..K : \E k \in 1..Len(q[i]) : q[i][k] = rs[j]
    BY <2>1
  <2>3. x \in Of(made[i])
    BY <1>5, <1>11, <2>2
  <2> QED
    BY <2>3
<1> HIDE DEF K, q
<1>12. /\ \A k, l \in 1..Len(rs) : k # l => Rows(rs[k]) \cap Rows(rs[l]) = {}
       /\ \A x : (\E k \in 1..Len(rs) : x \in Rows(rs[k])) <=> x \in Rows(blocks)
  BY <1>2 DEF RunsRight
<1> HIDE DEF rs
<1>13. ASSUME NEW i \in 1..K PROVE Rows(us[i]) = Of(made[i])
  BY <1>8 DEF Rows
<1>14. \A x : (\E i \in 1..K : x \in Rows(us[i])) <=> x \in Rows(blocks)
  <2>1. ASSUME NEW x, NEW i \in 1..K, x \in Rows(us[i]) PROVE x \in Rows(blocks)
    <3>1. PICK k \in 1..Len(q[i]) : x \in Rows(q[i][k])
      BY <1>5, <1>13, <2>1
    <3>2. PlaceOf(FanIn, i, k) \in 1..Len(rs) /\ x \in Rows(rs[PlaceOf(FanIn, i, k)])
      BY <1>10, <3>1
    <3> QED
      BY <1>12, <3>2
  <2>2. ASSUME NEW x \in Rows(blocks) PROVE \E i \in 1..K : x \in Rows(us[i])
    BY <1>11, <1>12, <1>13
  <2> QED
    BY <2>1, <2>2
<1>15. ASSUME NEW i \in 1..K, NEW j \in 1..K, i # j PROVE Rows(us[i]) \cap Rows(us[j]) = {}
  <2> SUFFICES ASSUME NEW x \in Rows(us[i]), x \in Rows(us[j]) PROVE FALSE
    OBVIOUS
  <2>0. x \in Of(made[i]) /\ x \in Of(made[j])
    BY <1>13
  <2>1. PICK k \in 1..Len(q[i]) : x \in Rows(q[i][k])
    BY <1>5, <2>0
  <2>2. PICK l \in 1..Len(q[j]) : x \in Rows(q[j][l])
    BY <1>5, <2>0
  <2>3. /\ PlaceOf(FanIn, i, k) \in 1..Len(rs) /\ x \in Rows(rs[PlaceOf(FanIn, i, k)])
        /\ PlaceOf(FanIn, j, l) \in 1..Len(rs) /\ x \in Rows(rs[PlaceOf(FanIn, j, l)])
    BY <1>10, <2>1, <2>2
  <2>4. PlaceOf(FanIn, i, k) # PlaceOf(FanIn, j, l)
    BY <1>10, <1>15
  <2> QED
    BY <1>12, <2>3, <2>4
<1>16. RunsRight(blocks, us)
  <2>1. \A i \in 1..Len(us) : Ascending(Spilled!FlattenSeq(us[i]))
    BY <1>5, <1>8, <1>9
  <2> QED
    BY <1>9, <1>14, <1>15, <2>1 DEF RunsRight
<1>17. passes' \in Nat /\ passes' + Len(runs') <= Len(blocks')
  <2>1. blocks \in Seq(Seq(Nat)) /\ Len(runs) = Len(rs) /\ Len(rs) \in Nat
    <3>1. blocks \in Seq(Seq(Nat))
      BY DEF SpillInv, BlocksRight
    <3> QED
      BY <1>3, <3>1 DEF rs
  <2>2. Len(blocks) \in Nat
    BY <2>1
  <2>3. passes + Len(rs) <= Len(blocks)
    BY <1>2, <2>1
  <2> QED
    BY <1>1, <1>2, <1>3, <1>4, <1>9, <2>1, <2>2, <2>3
<1>18. runs' # None
  BY <1>4, <1>9, SpillConstants
<1>19. RunsRight(blocks', runs') /\ todo' = <<>> /\ buffer' = <<>>
  BY <1>1, <1>2, <1>4, <1>16
<1>20. /\ todo' \in Seq(Nat) /\ NoneTwice(todo') /\ buffer' \in Seq(Nat) /\ NoneTwice(buffer')
       /\ BlocksRight(blocks') /\ Of(todo') \cap Of(buffer') = {}
       /\ \A i \in 1..Len(blocks') : Of(blocks'[i]) \cap Of(todo') = {} /\ Of(blocks'[i]) \cap Of(buffer') = {}
       /\ (stored' # None => StoredRight(blocks', stored'))
  BY <1>1 DEF SpillInv
<1> QED
  BY <1>17, <1>18, <1>19, <1>20 DEF SpillInv, BlocksRight, RunsRight, StoredRight, Rows

(* Store.                                                                   *)
LEMMA StoreKeeps ==
  ASSUME SpillInv, Spilled!Store
  PROVE  SpillInv'
<1>1. /\ runs # None /\ stored = None /\ stored' = Spilled!Chunks(Spilled!Merged(runs), BlockRows)
      /\ todo' = todo /\ buffer' = buffer /\ blocks' = blocks /\ runs' = runs /\ passes' = passes
  BY DEF Spilled!Store
<1>2. RunsRight(blocks, runs)
  BY <1>1 DEF SpillInv
<1> DEFINE rs == runs
           s == Spilled!Merged(rs)
<1>3. /\ rs \in Seq(Seq(Seq(Nat)))
      /\ \A k \in 1..Len(rs) : Ascending(Spilled!FlattenSeq(rs[k]))
      /\ \A k, l \in 1..Len(rs) : k # l => Of(Spilled!FlattenSeq(rs[k])) \cap Of(Spilled!FlattenSeq(rs[l])) = {}
      /\ \A x : (\E k \in 1..Len(rs) : x \in Of(Spilled!FlattenSeq(rs[k]))) <=> x \in Rows(blocks)
  BY <1>2 DEF RunsRight, Rows
<1> HIDE DEF rs
<1>4. /\ s \in Seq(Nat) /\ Ascending(s)
      /\ \A x : x \in Of(s) <=> \E k \in 1..Len(rs) : x \in Of(Spilled!FlattenSeq(rs[k]))
  BY <1>3, MergedRight
<1> HIDE DEF s
<1>5. Of(s) = Rows(blocks)
  BY <1>3, <1>4
<1>6. stored' = Spilled!Chunks(s, BlockRows)
  BY <1>1 DEF s, rs
<1>7. StoredRight(blocks, stored')
  BY <1>4, <1>5, <1>6 DEF StoredRight
<1>8. StoredRight(blocks', stored')
  BY <1>1, <1>7
<1>9. /\ todo' \in Seq(Nat) /\ NoneTwice(todo') /\ buffer' \in Seq(Nat) /\ NoneTwice(buffer')
      /\ BlocksRight(blocks') /\ Of(todo') \cap Of(buffer') = {} /\ passes' \in Nat /\ runs' # None
      /\ \A i \in 1..Len(blocks') : Of(blocks'[i]) \cap Of(todo') = {} /\ Of(blocks'[i]) \cap Of(buffer') = {}
      /\ todo' = <<>> /\ buffer' = <<>> /\ RunsRight(blocks', runs') /\ passes' + Len(runs') <= Len(blocks')
  BY <1>1 DEF SpillInv
<1> QED
  BY <1>8, <1>9 DEF SpillInv, BlocksRight, RunsRight, StoredRight, Rows

(* Every step keeps the invariant.                                          *)
LEMMA SpillSteps ==
  ASSUME SpillInv, Spilled!SpillNext \/ UNCHANGED spillVars
  PROVE  SpillInv'
<1>1. CASE UNCHANGED spillVars
  BY <1>1 DEF SpillInv, BlocksRight, RunsRight, StoredRight, Rows, spillVars
<1> QED
  BY <1>1, SpillKeeps, CloseSpillKeeps, PassKeeps, StoreKeeps DEF Spilled!SpillNext

-----------------------------------------------------------------------------
(* Reading by number.                                                       *)

(* What the search for n has found of K blocks after so many turns: the     *)
(* block is between, and at each turn there is less between.                *)
Between(K, n, turns, b) ==
  /\ b = [low |-> b.low, high |-> b.high] /\ b.low \in 1..K /\ b.high \in 1..K /\ b.low <= b.high
  /\ (b.low - 1) * BlockRows < n /\ (b.high = K \/ n <= b.high * BlockRows)
  /\ b.low = b.high \/ b.high - b.low <= K - 1 - turns

(* One turn.                                                                *)
LEMMA HalvedBetween ==
  ASSUME NEW K \in Nat, Len(stored) = K, NEW n \in Nat, \A b \in 1..K : Spilled!Starts[b] = (b - 1) * BlockRows,
         NEW turns \in Nat, NEW b, Between(K, n, turns, b)
  PROVE  Between(K, n, turns + 1, Spilled!Halved(b, n))
<1> DEFINE lo == b.low
           hi == b.high
           mid == (lo + hi + 1) \div 2
           h == Spilled!Halved(b, n)
<1>1. /\ b = [low |-> lo, high |-> hi] /\ lo \in 1..K /\ hi \in 1..K /\ lo <= hi
      /\ (lo - 1) * BlockRows < n /\ (hi = K \/ n <= hi * BlockRows)
      /\ lo = hi \/ hi - lo <= K - 1 - turns
  BY DEF Between
<1>2. h = IF lo = hi THEN b ELSE IF Spilled!Starts[mid] < n THEN [b EXCEPT !.low = mid] ELSE [b EXCEPT !.high = mid - 1]
  BY DEF Spilled!Halved
<1> HIDE DEF lo, hi, h
<1>3. CASE lo = hi
  <2>1. h = b
    BY <1>2, <1>3
  <2> QED
    BY <1>1, <1>3, <2>1 DEF Between, lo, hi, h
<1>4. CASE lo # hi
  <2>1. mid \in Int /\ lo < mid /\ mid <= hi /\ hi - mid < hi - lo /\ (mid - 1) - lo < hi - lo
    BY <1>1, <1>4
  <2> HIDE DEF mid
  <2>2. mid \in 1..K /\ mid - 1 \in 1..K
    BY <1>1, <2>1
  <2>3. Spilled!Starts[mid] = (mid - 1) * BlockRows
    BY <2>2
  <2>4. BlockRows \in Nat /\ (mid - 1) * BlockRows \in Int
    BY <2>2, SpillConstants
  <2>5. CASE Spilled!Starts[mid] < n
    <3>1. h = [low |-> mid, high |-> hi]
      BY <1>1, <1>2, <1>4, <2>5
    <3>2. h.low = mid /\ h.high = hi
      BY <3>1
    <3>3. mid = hi \/ hi - mid <= K - 1 - (turns + 1)
      BY <1>1, <1>4, <2>1
    <3>4. (mid - 1) * BlockRows < n
      BY <2>3, <2>5
    <3>5. h = [low |-> h.low, high |-> h.high] /\ h.low \in 1..K /\ h.high \in 1..K /\ h.low <= h.high
      BY <1>1, <2>1, <2>2, <3>1, <3>2
    <3>6. (h.low - 1) * BlockRows < n /\ (h.high = K \/ n <= h.high * BlockRows)
      BY <1>1, <3>2, <3>4
    <3>7. h.low = h.high \/ h.high - h.low <= K - 1 - (turns + 1)
      BY <3>2, <3>3
    <3>8. Between(K, n, turns + 1, h)
      BY <3>5, <3>6, <3>7 DEF Between
    <3> QED
      BY <3>8 DEF h
  <2>6. CASE ~(Spilled!Starts[mid] < n)
    <3>1. h = [low |-> lo, high |-> mid - 1]
      BY <1>1, <1>2, <1>4, <2>6
    <3>2. h.low = lo /\ h.high = mid - 1
      BY <3>1
    <3>3. lo = mid - 1 \/ (mid - 1) - lo <= K - 1 - (turns + 1)
      BY <1>1, <1>4, <2>1
    <3>4. n <= (mid - 1) * BlockRows
      BY <2>3, <2>4, <2>6
    <3>5. h = [low |-> h.low, high |-> h.high] /\ h.low \in 1..K /\ h.high \in 1..K /\ h.low <= h.high
      BY <1>1, <2>1, <2>2, <3>1, <3>2
    <3>6. (h.low - 1) * BlockRows < n /\ (h.high = K \/ n <= h.high * BlockRows)
      BY <1>1, <3>2, <3>4
    <3>7. h.low = h.high \/ h.high - h.low <= K - 1 - (turns + 1)
      BY <3>2, <3>3
    <3>8. Between(K, n, turns + 1, h)
      BY <3>5, <3>6, <3>7 DEF Between
    <3> QED
      BY <3>8 DEF h
  <2> QED
    BY <2>5, <2>6
<1> QED
  BY <1>3, <1>4

(* The search comes to the block with the number.                           *)
LEMMA LocateRight ==
  ASSUME NEW K \in Nat, Len(stored) = K, NEW n \in Nat, \A b \in 1..K : Spilled!Starts[b] = (b - 1) * BlockRows,
         K >= 1, n >= 1
  PROVE  LET b == Spilled!Locate(n)
         IN  b \in 1..K /\ (b - 1) * BlockRows < n /\ (b = K \/ n <= b * BlockRows)
<1> DEFINE X == [low : Int, high : Int]
           F == [p \in Nat \X X |-> Spilled!Halved(p[2], n)]
           from == [low |-> 1, high |-> K]
           g == CHOOSE f : Recursive(F, from, K, f)
           Is(f) == f = [t \in 0..K |-> IF t = 0 THEN from ELSE Spilled!Halved(f[t - 1], n)]
           search == CHOOSE f : Is(f)
<1>1. Spilled!Locate(n) = search[K].low
  BY DEF Spilled!Locate
<1>2. ASSUME NEW b \in X PROVE Spilled!Halved(b, n) \in X
  <2> DEFINE mid == (b.low + b.high + 1) \div 2
  <2>1. mid \in Int
    OBVIOUS
  <2> HIDE DEF mid
  <2>2. [b EXCEPT !.low = mid] \in X /\ [b EXCEPT !.high = mid - 1] \in X
    BY <2>1
  <2> QED
    BY <2>2 DEF Spilled!Halved, mid
<1>3. from \in X
  OBVIOUS
<1> HIDE DEF X
<1>4. F \in [Nat \X X -> X]
  BY <1>2
<1>5. \E f \in [0..K -> X] : Recursive(F, from, K, f)
  BY <1>3, <1>4, RecursiveExists
<1>6. ASSUME NEW f \in [0..K -> X], Recursive(F, from, K, f) PROVE Is(f)
  <2>1. f = [t \in 0..K |-> IF t = 0 THEN from ELSE F[<<t, f[t - 1]>>]]
    BY <1>6 DEF Recursive
  <2>2. ASSUME NEW t \in 0..K, t # 0 PROVE F[<<t, f[t - 1]>>] = Spilled!Halved(f[t - 1], n)
    <3>1. t - 1 \in 0..K /\ t \in Nat
      BY <2>2
    <3>2. f[t - 1] \in X
      BY <3>1
    <3> QED
      BY <3>1, <3>2
  <2> HIDE DEF F, from
  <2>3. f = [t \in 0..K |-> IF t = 0 THEN from ELSE Spilled!Halved(f[t - 1], n)]
    BY <2>1, <2>2
  <2> QED
    BY <2>3
<1> HIDE DEF Is
<1>7. Is(search)
  BY <1>5, <1>6
<1> HIDE DEF search, F
<1>8. search[0] = from /\ \A t \in 1..K : search[t] = Spilled!Halved(search[t - 1], n)
  BY <1>7 DEF Is
<1> DEFINE T == {t \in Nat : t <= K => Between(K, n, t, search[t])}
<1>9. 0 \in T
  <2>1. from = [low |-> 1, high |-> K] /\ from.low = 1 /\ from.high = K
    OBVIOUS
  <2> HIDE DEF from
  <2>2. BlockRows \in Nat /\ 0 * BlockRows = 0 /\ (1 - 1) * BlockRows = 0
    BY SpillConstants
  <2>3. Between(K, n, 0, from)
    BY <2>1, <2>2 DEF Between
  <2> QED
    BY <1>8, <2>3
<1>10. ASSUME NEW t \in Nat, t \in T PROVE t + 1 \in T
  <2> SUFFICES ASSUME t + 1 <= K PROVE Between(K, n, t + 1, search[t + 1])
    OBVIOUS
  <2>1. t + 1 \in 1..K /\ (t + 1) - 1 = t /\ t <= K
    OBVIOUS
  <2>2. search[t + 1] = Spilled!Halved(search[t], n)
    <3>1. search[t + 1] = Spilled!Halved(search[(t + 1) - 1], n)
      BY <1>8, <2>1
    <3> QED
      BY <2>1, <3>1
  <2>3. Between(K, n, t, search[t])
    BY <1>10, <2>1
  <2>4. Between(K, n, t + 1, Spilled!Halved(search[t], n))
    BY <2>3, HalvedBetween
  <2> QED
    BY <2>2, <2>4
<1> HIDE DEF T
<1>11. \A t \in Nat : t \in T
  BY <1>9, <1>10, Induction
<1>12. Between(K, n, K, search[K])
  BY <1>11 DEF T
<1> DEFINE b == search[K]
<1>13. Between(K, n, K, b)
  BY <1>12
<1> HIDE DEF b
<1>14. /\ b.low \in 1..K /\ b.high \in 1..K /\ b.low <= b.high
       /\ (b.low - 1) * BlockRows < n /\ (b.high = K \/ n <= b.high * BlockRows)
       /\ b.low = b.high \/ b.high - b.low <= K - 1 - K
  BY <1>13 DEF Between
<1>15. b.low = b.high
  BY <1>14
<1> QED
  BY <1>1, <1>14, <1>15 DEF b

(* Whatever the order of production, a finding is found by its number       *)
(* (finding_by_id).                                                         *)
LEMMA SpilledAreNumbered == SpillInv => Spilled!NumberedInOrder
<1> SUFFICES ASSUME SpillInv PROVE Spilled!NumberedInOrder
  OBVIOUS
<1>1. passes <= Len(blocks)
  <2>1. blocks \in Seq(Seq(Nat)) /\ passes \in Nat
    BY DEF SpillInv, BlocksRight
  <2>2. Len(blocks) \in Nat
    BY <2>1
  <2>3. CASE runs = None
    BY <2>1, <2>2, <2>3 DEF SpillInv
  <2>4. CASE runs # None
    <3>1. runs \in Seq(Seq(Seq(Nat))) /\ passes + Len(runs) <= Len(blocks)
      BY <2>4 DEF SpillInv, RunsRight
    <3>2. Len(runs) \in Nat
      BY <3>1
    <3> QED
      BY <2>1, <2>2, <3>1, <3>2
  <2> QED
    BY <2>3, <2>4
<1> SUFFICES ASSUME stored # None
             PROVE  LET spilled0 == Spilled!Sorted(Spilled!FlattenSeq(blocks))
                    IN  /\ Len(Spilled!FlattenSeq(stored)) = Len(spilled0)
                        /\ \A n \in DOMAIN spilled0 : Spilled!FindingAt(n) = spilled0[n]
  BY <1>1 DEF Spilled!NumberedInOrder
<1>2. PICK s \in Seq(Nat) : Ascending(s) /\ Of(s) = Rows(blocks) /\ stored = Spilled!Chunks(s, BlockRows)
  BY DEF SpillInv, StoredRight
<1>3. Spilled!Sorted(Spilled!FlattenSeq(blocks)) = s
  <2>1. /\ blocks \in Seq(Seq(Nat)) /\ \A i \in 1..Len(blocks) : Ascending(blocks[i])
        /\ \A i, j \in 1..Len(blocks) : i # j => Of(blocks[i]) \cap Of(blocks[j]) = {}
    BY DEF SpillInv, BlocksRight
  <2>2. \A i \in 1..Len(blocks) : NoneTwice(blocks[i])
    <3> SUFFICES ASSUME NEW i \in 1..Len(blocks) PROVE NoneTwice(blocks[i])
      OBVIOUS
    <3>1. blocks[i] \in Seq(Nat) /\ Ascending(blocks[i])
      BY <2>1
    <3> QED
      BY <3>1, AscendingOnce
  <2>3. Spilled!FlattenSeq(blocks) \in Seq(Nat)
    BY <2>1, FlattenHasAll
  <2>4. NoneTwice(Spilled!FlattenSeq(blocks))
    BY <2>1, <2>2, FlattenOnce
  <2> QED
    BY <1>2, <2>3, <2>4, AscendingIsSorted DEF Rows
<1> DEFINE B == BlockRows
           q == Spilled!Chunks(s, B)
           K == Blocks(s, B)
<1>4. B \in Nat \ {0} /\ Len(s) \in Nat /\ DOMAIN s = 1..Len(s)
  BY SpillConstants
<1>5. q \in Seq(Seq(Nat)) /\ Len(q) = K /\ K \in Nat /\ Len(s) <= K * B
  BY <1>4, ChunksAre
<1>6. Spilled!FlattenSeq(stored) = s
  BY <1>2, <1>4, ChunksJoin
<1>7. stored = q /\ Len(stored) = K /\ DOMAIN stored = 1..K
  BY <1>2, <1>5
<1>8. \A b \in 1..K : Spilled!Starts[b] = (b - 1) * B
  <2> SUFFICES ASSUME NEW b \in 1..K PROVE Spilled!Starts[b] = (b - 1) * B
    OBVIOUS
  <2>1. Spilled!Starts[b] = Len(Spilled!FlattenSeq(SubSeq(stored, 1, b - 1)))
    BY <1>7 DEF Spilled!Starts
  <2>2. Len(Spilled!FlattenSeq(SubSeq(q, 1, b - 1))) = (b - 1) * B
    BY <1>4, ChunkStarts
  <2> QED
    BY <1>7, <2>1, <2>2
<1>9. ASSUME NEW n \in 1..Len(s) PROVE Spilled!FindingAt(n) = s[n]
  <2>1. K >= 1
    <3>1. K = 0 => K * B = 0
      BY <1>4
    <3> HIDE DEF K, B
    <3> QED
      BY <1>4, <1>5, <3>1
  <2> DEFINE b == Spilled!Locate(n)
  <2>2. b \in 1..K /\ (b - 1) * B < n /\ (b = K \/ n <= b * B)
    <3>1. n \in Nat /\ n >= 1
      OBVIOUS
    <3> HIDE DEF K
    <3>2. \A c \in 1..K : Spilled!Starts[c] = (c - 1) * BlockRows
      BY <1>8
    <3> QED
      BY <1>5, <1>7, <2>1, <3>1, <3>2, LocateRight
  <2> HIDE DEF b
  <2> DEFINE a == (b - 1) * B
             e == EndOf(s, B, b)
             k == n - a
  <2>3. /\ a \in Nat /\ a < e /\ e \in 1..Len(s)
        /\ \A l \in 1..(e - a) : q[b][l] = s[a + l]
    <3>1. b \in 1..Blocks(s, B)
      BY <2>2
    <3> HIDE DEF B
    <3> HIDE DEF a, e, k, q, K
    <3>2. \A i \in 1..Blocks(s, B) : ChunkRight(s, B, i)
      BY <1>4, ChunksAre, Zenon
    <3>3. ChunkRight(s, B, b)
      BY <3>1, <3>2
    <3> QED
      BY <3>3 DEF ChunkRight, a, e, q
  <2>4. n <= e
    <3>1. e = IF b * B <= Len(s) THEN b * B ELSE Len(s)
      BY DEF EndOf
    <3> DEFINE to == b * B
    <3>2. b = K => Len(s) <= to
      BY <1>5
    <3>3. to \in Int
      BY <1>4, <1>5, <2>2
    <3>4. b = K \/ n <= to
      BY <2>2
    <3> HIDE DEF to, e, K
    <3>5. e = IF to <= Len(s) THEN to ELSE Len(s)
      BY <3>1 DEF to
    <3> HIDE DEF B
    <3>6. n \in Int /\ n <= Len(s) /\ Len(s) \in Int
      BY <1>4
    <3> QED
      BY <3>2, <3>3, <3>4, <3>5, <3>6
  <2> HIDE DEF e
  <2>5. a < n
    BY <2>2
  <2>6. Spilled!Starts[b] = a
    BY <1>8, <2>2
  <2> HIDE DEF a
  <2>7. k \in 1..(e - a) /\ a + k = n
    BY <2>3, <2>4, <2>5
  <2>8. q[b][k] = s[n]
    BY <2>3, <2>7
  <2>9. Spilled!FindingAt(n) = stored[b][n - Spilled!Starts[b]]
    BY DEF Spilled!FindingAt, b
  <2> QED
    BY <1>7, <2>6, <2>8, <2>9
<1> QED
  BY <1>3, <1>4, <1>6, <1>9
==============================================================================
