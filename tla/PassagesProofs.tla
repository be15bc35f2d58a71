--------------------------- MODULE PassagesProofs ----------------------------
(****************************************************************************)
(* Proofs about Passages, for every length of text, size of chunk, budget   *)
(* and number of citations: no part of a text is lost between its chunks,   *)
(* the ranges of a hit are what it cites and never touch, and a bundle is   *)
(* within its budget and quotes no point of a hit twice.  That the search   *)
(* by halves finds the longest prefix is left to the runs: it is recursive. *)
(****************************************************************************)
EXTENDS Passages, FiniteSetTheorems, TLAPS

(* Chunking comes first; then ranges are what is cited and not quoted yet. *)
Phases ==
  /\ pc = "chunk" => start \in Points /\ cited = {} /\ ranges = {}
  /\ pc = "empty" => length = 0
  /\ IsFiniteSet(cited)

Split == TypeOK /\ Phases /\ ChunksCover

(* Until the bundle ends, what is quoted of the hit at hand is not offered again. *)
QuotedOnce ==
  /\ pc \in {"empty", "chunk", "cite"} => Bundled(hit) = {}
  /\ pc = "pack" => Quoted \cap Covered(ranges) = {}

Offered == RangesApart /\ RangesExact

-----------------------------------------------------------------------------
(* The lemmas on which the invariants rest. *)

(* A chunk ends past its start, within Size, and past the overlap unless it is the last. *)
LEMMA EndBounds ==
  ASSUME PassagesAssumption, TypeOK, start \in Points, NEW e \in 1 .. length, EndsAt(e)
  PROVE  /\ start < e /\ e <= start + Size
         /\ e = length \/ (e < length /\ e - Overlap > start)
<1>1. /\ length \in Nat /\ start \in Nat /\ start < length /\ Size \in Nat /\ Size >= 2
      /\ Overlap \in Nat /\ 2 * Overlap < Size
  BY DEF PassagesAssumption, TypeOK, Points
<1>2. Far \in Nat /\ start < Far /\ Far <= start + Size /\ Far <= length
      /\ (Far = length \/ Far = start + Size)
  BY <1>1 DEF Far, Least
<1>3. CASE e = Far
  BY <1>1, <1>2, <1>3
<1>4. CASE e \in Cuts
  BY <1>1, <1>2, <1>4 DEF Cuts
<1> QED
  BY <1>3, <1>4 DEF EndsAt

(* The range that joins a citation with ranges that touch it covers what they cover. *)
LEMMA JoinCovers ==
  ASSUME NEW joined, NEW c,
         c.start \in Int, c.end \in Int, c.start < c.end,
         \A r \in joined : r.start \in Int /\ r.end \in Int /\ r.start < r.end /\ Touches(r, c),
         NEW s \in Int, NEW e \in Int,
         \E r \in joined \cup {c} : s = r.start,
         \E r \in joined \cup {c} : e = r.end,
         \A r \in joined \cup {c} : s <= r.start /\ r.end <= e,
         length \in Nat,
         NEW n, n.start = s, n.end = e
  PROVE  Of(n) = Covered(joined) \cup Of(c)
<1>1. ASSUME NEW p \in Of(n) PROVE p \in Covered(joined) \cup Of(c)
  <2>1. p \in Points /\ p \in Int /\ s <= p /\ p < e
    BY <1>1 DEF Of, Points
  <2>2. CASE p < c.start
    <3>1. PICK a \in joined \cup {c} : s = a.start
      OBVIOUS
    <3>2. a \in joined /\ a.start <= p
      BY <2>1, <2>2, <3>1
    <3>3. p < a.end
      BY <2>1, <2>2, <3>2 DEF Touches
    <3> QED
      BY <2>1, <3>2, <3>3 DEF Of, Covered
  <2>3. CASE c.end <= p
    <3>1. PICK b \in joined \cup {c} : e = b.end
      OBVIOUS
    <3>2. b \in joined /\ p < b.end
      BY <2>1, <2>3, <3>1
    <3>3. b.start <= p
      BY <2>1, <2>3, <3>2 DEF Touches
    <3> QED
      BY <2>1, <3>2, <3>3 DEF Of, Covered
  <2>4. CASE c.start <= p /\ p < c.end
    BY <2>1, <2>4 DEF Of
  <2> QED
    BY <2>1, <2>2, <2>3, <2>4
<1>2. ASSUME NEW r \in joined \cup {c}, NEW p \in Of(r) PROVE p \in Of(n)
  <2>1. p \in Points /\ p \in Int /\ r.start <= p /\ p < r.end
    BY <1>2 DEF Of, Points
  <2>2. s <= r.start /\ r.end <= e /\ r.start \in Int /\ r.end \in Int
    OBVIOUS
  <2> QED
    BY <2>1, <2>2 DEF Of
<1> QED
  BY <1>1, <1>2 DEF Covered

(* What a citation does not touch, the range it is joined into does not touch either. *)
LEMMA JoinApart ==
  ASSUME NEW c, NEW q, NEW a, NEW b,
         \A r \in {a, b, c, q} : r.start \in Int /\ r.end \in Int /\ r.start < r.end,
         \A r \in {a, b} : r = c \/ Touches(r, c),
         \A r \in {a, b, c} : ~Touches(q, r),
         NEW n, n.start = a.start, n.end = b.end
  PROVE  ~Touches(q, n) /\ ~Touches(n, q)
BY DEF Touches

(* A longer prefix has no fewer bytes. *)
LEMMA BytesGrow ==
  ASSUME PassagesAssumption, TypeOK, NEW r, r.start \in Nat, NEW m \in Nat, NEW n \in Nat, m <= n
  PROVE  Bytes(r, m) \in Nat /\ Bytes(r, n) \in Nat /\ Bytes(r, m) <= Bytes(r, n)
<1>1. length \in Nat /\ Element \in Nat
  BY DEF TypeOK, PassagesAssumption
<1>2. IsFiniteSet(Points)
  BY <1>1, FS_Interval DEF Points
<1>3. ASSUME NEW k \in Nat
      PROVE  IsFiniteSet(Prefix(r, k)) /\ IsFiniteSet(Prefix(r, k) \ blank)
  <2>1. Prefix(r, k) \subseteq Points /\ Prefix(r, k) \ blank \subseteq Points
    BY DEF Prefix
  <2> QED
    BY <1>2, <2>1, FS_Subset
<1>4. Prefix(r, m) \subseteq Prefix(r, n)
  BY <1>1 DEF Prefix, Points
<1>5. Prefix(r, m) \ blank \subseteq Prefix(r, n) \ blank
  BY <1>4
<1>6. /\ Cardinality(Prefix(r, m)) \in Nat /\ Cardinality(Prefix(r, n)) \in Nat
      /\ Cardinality(Prefix(r, m)) <= Cardinality(Prefix(r, n))
  BY <1>3, <1>4, FS_Subset, FS_CardinalityType
<1>7. /\ Cardinality(Prefix(r, m) \ blank) \in Nat /\ Cardinality(Prefix(r, n) \ blank) \in Nat
      /\ Cardinality(Prefix(r, m) \ blank) <= Cardinality(Prefix(r, n) \ blank)
  BY <1>3, <1>5, FS_Subset, FS_CardinalityType
<1> QED
  BY <1>1, <1>6, <1>7 DEF Bytes

-----------------------------------------------------------------------------
(* The text is split: types, phases and coverage. *)

LEMMA InitSplit == PassagesAssumption /\ Init => Split
<1> SUFFICES ASSUME PassagesAssumption, Init PROVE Split
  OBVIOUS
<1>1. IsFiniteSet({})
  BY FS_EmptySet
<1>2. TypeOK
  <2>1. length \in Nat /\ (length = 0 \/ 0 \in Points) /\ pc \in {"empty", "chunk"}
    BY DEF PassagesAssumption, Init, Points
  <2>2. excerpts \in Seq([hit : Nat, start : Points, end : 1 .. length, whole : BOOLEAN]) /\ DOMAIN excerpts = {}
    BY DEF Init
  <2>3. used \in Nat /\ limit \in Budgets /\ hit \in Nat \ {0}
    BY DEF PassagesAssumption, Init
  <2> QED
    BY <2>1, <2>2, <2>3 DEF Init, TypeOK
<1>3. Phases
  BY <1>1 DEF PassagesAssumption, Init, Phases, Points
<1>4. ChunksCover
  BY DEF PassagesAssumption, Init, ChunksCover, Points
<1> QED
  BY <1>2, <1>3, <1>4 DEF Split

LEMMA ChunkSplit == PassagesAssumption /\ Split /\ Chunk => Split'
<1> SUFFICES ASSUME PassagesAssumption, Split, Chunk PROVE Split'
  OBVIOUS
<1>1. PICK e \in 1 .. length :
        LET chunk == [start |-> start, end |-> e] IN
        /\ EndsAt(e)
        /\ chunks' = IF Of(chunk) \subseteq blank THEN chunks ELSE chunks \cup {chunk}
        /\ IF e = length THEN pc' = "cite" /\ start' = start ELSE pc' = pc /\ start' = e - Overlap
  BY DEF Chunk
<1> DEFINE chunk == [start |-> start, end |-> e]
<1>2. /\ pc = "chunk" /\ start \in Points /\ cited = {} /\ ranges = {}
      /\ UNCHANGED <<length, blank, hit, cited, ranges, excerpts, used, limit, truncated>>
      /\ TypeOK /\ ChunksCover /\ IsFiniteSet(cited)
  BY DEF Split, Phases, Chunk, text, bundle
<1>3. /\ start < e /\ e <= start + Size
      /\ e = length \/ (e < length /\ e - Overlap > start)
  BY <1>1, <1>2, EndBounds
<1>4. /\ length \in Nat /\ start \in Nat /\ start < length /\ Overlap \in Nat /\ Size \in Nat
      /\ e \in Nat /\ Points = 0 .. length - 1 /\ Points' = Points
  BY <1>2 DEF TypeOK, PassagesAssumption, Points
<1>5. chunks' \subseteq chunks \cup {chunk} /\ chunks \subseteq chunks'
  BY <1>1
<1>6. TypeOK'
  <2>1. chunks' \subseteq [start : Points', end : 1 .. length'] /\ \A c \in chunks' : c.start < c.end
    BY <1>2, <1>3, <1>4, <1>5 DEF TypeOK
  <2>2. start' \in Points' \cup {0} /\ pc' \in {"chunk", "cite"}
    BY <1>1, <1>2, <1>3, <1>4
  <2> QED
    BY <1>2, <1>4, <2>1, <2>2 DEF TypeOK
<1>7. Phases'
  BY <1>1, <1>2, <1>3, <1>4 DEF Phases
<1>8. ChunksCover'
  <2>1. ASSUME NEW p \in Points', (pc # "chunk" \/ p < start)' PROVE p \in blank' \cup Covered(chunks)'
    <3>1. p \in Points /\ p \in Int /\ 0 <= p /\ p < length /\ (p < e \/ p < start)
      BY <1>1, <1>2, <1>3, <1>4, <2>1
    <3>2. CASE p < start
      <4>1. p \in blank \cup Covered(chunks)
        BY <1>2, <3>1, <3>2 DEF ChunksCover
      <4> QED
        BY <1>2, <1>4, <1>5, <4>1 DEF Covered, Of
    <3>3. CASE start <= p /\ p < e
      <4>1. p \in Of(chunk)
        BY <3>1, <3>3 DEF Of
      <4>2. p \in blank \/ chunk \in chunks'
        BY <1>1, <4>1
      <4> QED
        BY <1>2, <1>4, <4>1, <4>2 DEF Covered, Of
    <3> QED
      BY <1>4, <3>1, <3>2, <3>3
  <2>2. ASSUME NEW c \in chunks' PROVE c.end - c.start <= Size
    BY <1>2, <1>3, <1>4, <1>5 DEF ChunksCover
  <2> QED
    BY <2>1, <2>2 DEF ChunksCover
<1> QED
  BY <1>6, <1>7, <1>8 DEF Split

(* Once the text is split, the chunks rest and their coverage with them. *)
LEMMA SplitKept ==
  ASSUME ChunksCover, pc # "chunk", pc' # "chunk", UNCHANGED <<text, split>>
  PROVE  ChunksCover'
BY DEF ChunksCover, text, split, Covered, Of, Points

(* What a citation does: it picks a chunk and the ends of the range it is joined into. *)
LEMMA CiteJoins ==
  ASSUME Cite
  PROVE  \E c \in chunks \ cited, s, e \in 0 .. length, at \in {Cardinality(cited)} \cup {r.at : r \in ranges} :
           LET joined == {r \in ranges : Touches(r, c)} IN
           /\ cited' = cited \cup {c}
           /\ \E r \in joined \cup {c} : s = r.start
           /\ \E r \in joined \cup {c} : e = r.end
           /\ \A r \in joined \cup {c} : s <= r.start /\ r.end <= e
           /\ ranges' = (ranges \ joined) \cup
                        {[start |-> s, end |-> e, at |-> at, whole |-> joined = {}]}
<1>1. PICK c \in chunks \ cited :
        LET joined == {r \in ranges : Touches(r, c)} IN
        /\ cited' = cited \cup {c}
        /\ \E s, e \in 0 .. length :
             /\ \E r \in joined \cup {c} : s = r.start
             /\ \E r \in joined \cup {c} : e = r.end
             /\ \A r \in joined \cup {c} : s <= r.start /\ r.end <= e
             /\ \E at \in IF joined = {} THEN {Cardinality(cited)} ELSE {r.at : r \in joined} :
                  /\ \A r \in joined : at <= r.at
                  /\ ranges' = (ranges \ joined) \cup
                               {[start |-> s, end |-> e, at |-> at, whole |-> joined = {}]}
  BY DEF Cite
<1> DEFINE joined == {r \in ranges : Touches(r, c)}
<1>2. PICK s \in 0 .. length, e \in 0 .. length :
        /\ \E r \in joined \cup {c} : s = r.start
        /\ \E r \in joined \cup {c} : e = r.end
        /\ \A r \in joined \cup {c} : s <= r.start /\ r.end <= e
        /\ \E at \in IF joined = {} THEN {Cardinality(cited)} ELSE {r.at : r \in joined} :
             ranges' = (ranges \ joined) \cup
                       {[start |-> s, end |-> e, at |-> at, whole |-> joined = {}]}
  BY <1>1
<1>3. PICK at \in IF joined = {} THEN {Cardinality(cited)} ELSE {r.at : r \in joined} :
        ranges' = (ranges \ joined) \cup
                  {[start |-> s, end |-> e, at |-> at, whole |-> joined = {}]}
  BY <1>2
<1>4. at \in {Cardinality(cited)} \cup {r.at : r \in ranges}
  BY <1>3
<1> QED
  BY <1>1, <1>2, <1>3, <1>4

LEMMA CiteSplit == PassagesAssumption /\ Split /\ Cite => Split'
<1> SUFFICES ASSUME PassagesAssumption, Split, Cite PROVE Split'
  OBVIOUS
<1>1. PICK c \in chunks \ cited, s \in 0 .. length, e \in 0 .. length,
           at \in {Cardinality(cited)} \cup {r.at : r \in ranges} :
           LET joined == {r \in ranges : Touches(r, c)} IN
           /\ cited' = cited \cup {c}
           /\ \E r \in joined \cup {c} : s = r.start
           /\ \E r \in joined \cup {c} : e = r.end
           /\ \A r \in joined \cup {c} : s <= r.start /\ r.end <= e
           /\ ranges' = (ranges \ joined) \cup
                        {[start |-> s, end |-> e, at |-> at, whole |-> joined = {}]}
  BY CiteJoins
<1> DEFINE joined == {r \in ranges : Touches(r, c)}
<1> DEFINE new == [start |-> s, end |-> e, at |-> at, whole |-> joined = {}]
<1>2. /\ pc = "cite" /\ UNCHANGED <<length, blank, pc, start, chunks, hit, excerpts, used, limit, truncated>>
      /\ TypeOK /\ ChunksCover /\ IsFiniteSet(cited)
  BY DEF Split, Phases, Cite, text, split, bundle
<1>3. length \in Nat /\ Points' = Points /\ Points = 0 .. length - 1
  BY <1>2 DEF TypeOK, Points
<1>4. c \in [start : Points, end : 1 .. length] /\ c.start < c.end
  BY <1>2 DEF TypeOK
<1>5. /\ \A r \in joined : r.start \in Points /\ r.end \in 1 .. length /\ r.start < r.end
      /\ \A r \in ranges : r.at \in Nat
  BY <1>2 DEF TypeOK
<1>6. at \in Nat
  BY <1>2, <1>5, FS_CardinalityType
<1>7. s \in Points /\ e \in 1 .. length /\ s <= c.start /\ c.end <= e
  BY <1>1, <1>4, <1>5
<1>8. new \in [start : Points, end : 1 .. length, at : Nat, whole : BOOLEAN] /\ new.start < new.end
  BY <1>3, <1>4, <1>6, <1>7
<1>9. ranges' \subseteq ranges \cup {new} /\ cited' = cited \cup {c}
  BY <1>1
<1> HIDE DEF new, joined
<1>10. TypeOK'
  <2>1. /\ ranges' \subseteq [start : Points', end : 1 .. length', at : Nat, whole : BOOLEAN]
        /\ \A r \in ranges' : r.start < r.end
    BY <1>2, <1>3, <1>8, <1>9 DEF TypeOK
  <2>2. cited' \subseteq chunks'
    BY <1>2, <1>9 DEF TypeOK
  <2> QED
    BY <1>2, <1>3, <2>1, <2>2 DEF TypeOK
<1>11. Phases'
  BY <1>2, <1>9, FS_AddElement DEF Phases
<1>12. ChunksCover'
  BY <1>2, SplitKept DEF text, split
<1> QED
  BY <1>10, <1>11, <1>12 DEF Split

LEMMA OfferSplit == Split /\ Offer => Split'
<1> SUFFICES ASSUME Split, Offer PROVE Split'
  OBVIOUS
<1>1. TypeOK' /\ Phases'
  BY DEF Split, Offer, TypeOK, Phases, Points, text, split, bundle
<1> QED
  BY <1>1, SplitKept DEF Split, Offer

LEMMA NextHitSplit == Split /\ NextHit => Split'
<1> SUFFICES ASSUME Split, NextHit PROVE Split'
  OBVIOUS
<1>1. TypeOK /\ hit \in Nat \ {0} /\ hit' = hit + 1 /\ Points' = Points
  BY DEF Split, TypeOK, NextHit, text, Points
<1>3. \A i \in DOMAIN excerpts' : excerpts'[i].hit <= hit'
  <2> DEFINE E == [hit : Nat, start : Points, end : 1 .. length, whole : BOOLEAN]
  <2>0. excerpts \in Seq(E) /\ excerpts' = excerpts /\ \A i \in DOMAIN excerpts : excerpts[i].hit <= hit
    BY <1>1 DEF TypeOK, NextHit, bundle
  <2> HIDE DEF E
  <2>1. ASSUME NEW i \in DOMAIN excerpts PROVE excerpts[i].hit \in Nat /\ excerpts[i].hit <= hit
    <3>1. excerpts[i] \in E
      BY <2>0, <2>1
    <3> QED
      BY <2>0, <2>1, <3>1 DEF E
  <2> QED
    BY <1>1, <2>0, <2>1
<1>4. TypeOK'
  BY <1>1, <1>3 DEF TypeOK, NextHit, text, split, bundle
<1>5. Phases'
  BY FS_EmptySet DEF Split, NextHit, Phases
<1> QED
  BY <1>4, <1>5, SplitKept DEF Split, NextHit

LEMMA FinishSplit == Split /\ Finish => Split'
<1> SUFFICES ASSUME Split, Finish PROVE Split'
  OBVIOUS
<1>1. TypeOK' /\ Phases'
  BY DEF Split, Finish, TypeOK, Phases, Points, text, split, bundle
<1> QED
  BY <1>1, SplitKept DEF Split, Finish

(* A step of the packing quotes the first range whole, or a prefix of it that fits, or nothing. *)
Whole(r) ==
  /\ Fits(r, Length(r)) /\ Quote(r, Length(r)) /\ ranges' = ranges \ {r}
  /\ UNCHANGED <<pc, truncated>>
Ended == pc' = "done" /\ truncated' = TRUE /\ UNCHANGED ranges
CutShort(r) == Ended /\ \E n \in 1 .. Length(r) : Fits(r, n) /\ Quote(r, n)
Dropped == Ended /\ UNCHANGED <<excerpts, used, limit>>

LEMMA PackQuotes ==
  ASSUME PassagesAssumption, TypeOK, Pack
  PROVE  /\ pc = "pack" /\ UNCHANGED <<text, split, hit, cited>>
         /\ \E r \in ranges : Whole(r) \/ CutShort(r) \/ Dropped
<1>1. PICK r \in First :
        \/ /\ Fits(r, Length(r)) /\ Quote(r, Length(r)) /\ ranges' = ranges \ {r}
           /\ UNCHANGED <<pc, truncated>>
        \/ /\ ~Fits(r, Length(r)) /\ pc' = "done" /\ truncated' = TRUE /\ UNCHANGED ranges
           /\ \E fit, n \in 0 .. Length(r) :
                /\ fit = LongestFit(r) /\ CutAt(r, fit, n)
                /\ IF n < MinExcerpt THEN UNCHANGED <<excerpts, used, limit>> ELSE Quote(r, n)
  BY DEF Pack
<1>2. r \in ranges /\ r.start \in Nat /\ Length(r) \in Nat
  BY <1>1 DEF First, TypeOK, Points, Length
<1>3. CASE Whole(r)
  BY <1>2, <1>3 DEF Pack
<1>4. CASE ~Whole(r)
  <2>1. Ended
    BY <1>1, <1>4 DEF Whole, Ended
  <2>2. PICK fit \in 0 .. Length(r), n \in 0 .. Length(r) :
          /\ fit = LongestFit(r) /\ CutAt(r, fit, n)
          /\ IF n < MinExcerpt THEN UNCHANGED <<excerpts, used, limit>> ELSE Quote(r, n)
    BY <1>1, <1>4 DEF Whole
  <2>3. CASE n < MinExcerpt
    BY <1>2, <2>1, <2>2, <2>3 DEF Pack, Dropped
  <2>4. CASE ~(n < MinExcerpt)
    <3>1. n \in 1 .. Length(r) /\ Quote(r, n)
      BY <1>2, <2>2, <2>4 DEF PassagesAssumption
    <3>2. n <= fit
      BY <1>2, <2>2 DEF CutAt, CutsOf
    <3>3. Fits(r, fit)
      BY <1>2, <2>2, <3>1, <3>2 DEF LongestFit
    <3>4. Fits(r, n)
      <4>1. Bytes(r, n) \in Nat /\ Bytes(r, fit) \in Nat /\ Bytes(r, n) <= Bytes(r, fit)
        BY <1>2, <2>2, <3>2, BytesGrow
      <4>2. used \in Nat /\ limit \in Nat
        BY DEF TypeOK, PassagesAssumption
      <4> QED
        BY <3>3, <4>1, <4>2 DEF Fits
    <3> QED
      BY <1>2, <2>1, <3>1, <3>4 DEF Pack, CutShort
  <2> QED
    BY <2>3, <2>4
<1> QED
  BY <1>3, <1>4

(* An excerpt is typed as its range is, and the bundle still fits. *)
LEMMA QuoteTyped ==
  ASSUME PassagesAssumption, TypeOK, NEW r \in ranges, NEW n \in 1 .. Length(r), Fits(r, n), Quote(r, n)
  PROVE  LET e == [hit |-> hit, start |-> r.start, end |-> r.start + n,
                   whole |-> r.whole /\ n = Length(r)] IN
         /\ e \in [hit : Nat, start : Points, end : 1 .. length, whole : BOOLEAN] /\ e.end <= r.end
         /\ excerpts' = Append(excerpts, e)
         /\ excerpts' \in Seq([hit : Nat, start : Points, end : 1 .. length, whole : BOOLEAN])
         /\ \A i \in DOMAIN excerpts' : excerpts'[i].hit <= hit
         /\ used' \in Nat /\ limit' = limit /\ used' <= limit
<1> DEFINE E == [hit : Nat, start : Points, end : 1 .. length, whole : BOOLEAN]
<1> DEFINE e == [hit |-> hit, start |-> r.start, end |-> r.start + n,
                 whole |-> r.whole /\ n = Length(r)]
<1>0. ranges \subseteq [start : Points, end : 1 .. length, at : Nat, whole : BOOLEAN]
  BY DEF TypeOK
<1>1. /\ r.start \in Points /\ r.end \in 1 .. length /\ r.whole \in BOOLEAN
      /\ length \in Nat /\ hit \in Nat /\ used \in Nat /\ limit \in Nat
  <2>1. r.start \in Points /\ r.end \in 1 .. length /\ r.whole \in BOOLEAN
    BY <1>0
  <2>2. length \in Nat /\ hit \in Nat
    BY DEF TypeOK
  <2>3. used \in Nat /\ limit \in Nat
    BY DEF TypeOK, PassagesAssumption
  <2> QED
    BY <2>1, <2>2, <2>3
<1>2. r.start + n \in 1 .. length /\ r.start + n <= r.end /\ r.start \in Nat
  BY <1>1 DEF Length, Points
<1>3. e \in E /\ e.end <= r.end /\ e.hit = hit
  BY <1>1, <1>2
<1>4. excerpts' = Append(excerpts, e) /\ used' = used + Bytes(r, n) /\ limit' = limit
  BY DEF Quote
<1>5. Bytes(r, n) \in Nat
  BY <1>2, BytesGrow
<1>6. used' \in Nat /\ used' <= limit
  BY <1>1, <1>4, <1>5 DEF Fits
<1>7. excerpts \in Seq(E) /\ \A i \in DOMAIN excerpts : excerpts[i].hit <= hit
  BY DEF TypeOK
<1> HIDE DEF e, E
<1>8. excerpts' \in Seq(E)
  BY <1>3, <1>4, <1>7
<1>9. ASSUME NEW i \in DOMAIN excerpts' PROVE excerpts'[i].hit <= hit
  <2>1. (i \in DOMAIN excerpts /\ excerpts'[i] = excerpts[i]) \/ excerpts'[i] = e
    BY <1>3, <1>4, <1>7, <1>9
  <2> QED
    BY <1>1, <1>3, <1>7, <2>1
<1> QED
  BY <1>3, <1>4, <1>6, <1>8, <1>9 DEF e, E

LEMMA PackSplit == PassagesAssumption /\ Split /\ Pack => Split'
<1> SUFFICES ASSUME PassagesAssumption, Split, Pack PROVE Split'
  OBVIOUS
<1>1. TypeOK /\ Phases /\ ChunksCover
  BY DEF Split
<1>2. pc = "pack" /\ UNCHANGED <<length, blank, start, chunks, hit, cited>> /\ Points' = Points
  BY <1>1, PackQuotes DEF text, split, Points
<1>3. PICK r \in ranges : Whole(r) \/ CutShort(r) \/ Dropped
  BY <1>1, PackQuotes
<1>4. ranges' \subseteq ranges /\ pc' \in {"pack", "done"} /\ truncated' \in BOOLEAN
  BY <1>1, <1>2, <1>3 DEF Whole, CutShort, Dropped, Ended, TypeOK
<1>5. /\ excerpts' \in Seq([hit : Nat, start : Points, end : 1 .. length, whole : BOOLEAN])
      /\ \A i \in DOMAIN excerpts' : excerpts'[i].hit <= hit
      /\ used' \in Nat /\ limit' = limit
  <2>1. CASE Dropped
    BY <1>1, <2>1 DEF Dropped, TypeOK
  <2>2. CASE Whole(r)
    <3>1. Length(r) \in 1 .. Length(r)
      BY <1>1 DEF TypeOK, Length, Points
    <3> QED
      BY <1>1, <2>2, <3>1, QuoteTyped DEF Whole
  <2>3. CASE CutShort(r)
    BY <1>1, <2>3, QuoteTyped DEF CutShort
  <2> QED
    BY <1>3, <2>1, <2>2, <2>3
<1>6. TypeOK'
  <2>1. /\ ranges' \subseteq [start : Points', end : 1 .. length', at : Nat, whole : BOOLEAN]
        /\ \A q \in ranges' : q.start < q.end
    BY <1>1, <1>2, <1>4 DEF TypeOK
  <2> QED
    BY <1>1, <1>2, <1>4, <1>5, <2>1 DEF TypeOK
<1>7. Phases'
  BY <1>1, <1>2, <1>4 DEF Phases
<1> QED
  BY <1>1, <1>2, <1>4, <1>6, <1>7, SplitKept DEF Split, text, split

-----------------------------------------------------------------------------
(* What is offered is what is cited, and its ranges are apart. *)

LEMMA CiteOffered == PassagesAssumption /\ Split /\ Offered /\ Cite => Offered'
<1> SUFFICES ASSUME PassagesAssumption, Split, Offered, Cite PROVE Offered'
  OBVIOUS
<1>1. PICK c \in chunks \ cited, s \in 0 .. length, e \in 0 .. length,
           at \in {Cardinality(cited)} \cup {r.at : r \in ranges} :
           LET joined == {r \in ranges : Touches(r, c)} IN
           /\ cited' = cited \cup {c}
           /\ \E r \in joined \cup {c} : s = r.start
           /\ \E r \in joined \cup {c} : e = r.end
           /\ \A r \in joined \cup {c} : s <= r.start /\ r.end <= e
           /\ ranges' = (ranges \ joined) \cup
                        {[start |-> s, end |-> e, at |-> at, whole |-> joined = {}]}
  BY CiteJoins
<1> DEFINE joined == {r \in ranges : Touches(r, c)}
<1> DEFINE new == [start |-> s, end |-> e, at |-> at, whole |-> joined = {}]
<1>2. /\ pc = "cite" /\ pc' = "cite" /\ length' = length /\ chunks' = chunks /\ Points' = Points
      /\ TypeOK /\ RangesApart /\ RangesExact
  BY DEF Split, Offered, Cite, text, split, Points
<1>3. /\ length \in Nat /\ c \in [start : Points, end : 1 .. length]
      /\ c.start \in Int /\ c.end \in Int /\ c.start < c.end
  BY <1>2 DEF TypeOK, Points
<1>4. \A r \in ranges : r.start \in Int /\ r.end \in Int /\ r.start < r.end
  BY <1>2 DEF TypeOK, Points
<1>5. /\ new.start = s /\ new.end = e /\ s \in Int /\ e \in Int
      /\ \A r \in joined : r \in ranges /\ Touches(r, c)
      /\ \A q \in ranges \ joined : ~Touches(q, c)
  BY <1>3
<1>6. /\ cited' = cited \cup {c} /\ ranges' = (ranges \ joined) \cup {new}
      /\ \E r \in joined \cup {c} : s = r.start
      /\ \E r \in joined \cup {c} : e = r.end
      /\ \A r \in joined \cup {c} : s <= r.start /\ r.end <= e
  BY <1>1
<1>7. new.whole => s = c.start /\ e = c.end
  BY <1>6
<1>8. joined \subseteq ranges
  OBVIOUS
<1> HIDE DEF joined, new
<1>14. \A r \in joined : r.start \in Int /\ r.end \in Int /\ r.start < r.end /\ Touches(r, c)
  BY <1>4, <1>5
<1>15. s \in Int /\ e \in Int /\ new.start = s /\ new.end = e
  BY <1>5
<1>16. /\ \E r \in joined \cup {c} : s = r.start
       /\ \E r \in joined \cup {c} : e = r.end
       /\ \A r \in joined \cup {c} : s <= r.start /\ r.end <= e
  BY <1>6
<1>9. ASSUME NEW q \in ranges \ joined PROVE ~Touches(q, new) /\ ~Touches(new, q)
  <2>1. \A r \in joined \cup {c} : ~Touches(q, r)
    BY <1>2, <1>5, <1>8, <1>9 DEF RangesApart
  <2>2. PICK a \in joined \cup {c} : s = a.start
    BY <1>6
  <2>3. PICK b \in joined \cup {c} : e = b.end
    BY <1>6
  <2>4. \A r \in {a, b, c, q} : r.start \in Int /\ r.end \in Int /\ r.start < r.end
    BY <1>3, <1>4, <1>8
  <2>5. /\ \A r \in {a, b} : r = c \/ Touches(r, c)
        /\ \A r \in {a, b, c} : ~Touches(q, r)
        /\ new.start = a.start /\ new.end = b.end
    BY <1>5, <2>1, <2>2, <2>3
  <2> QED
    BY <2>4, <2>5, JoinApart
<1>10. RangesApart'
  <2>1. ASSUME NEW q \in ranges', NEW r \in ranges', q # r PROVE ~Touches(q, r)
    <3>1. (q \in ranges \ joined \/ q = new) /\ (r \in ranges \ joined \/ r = new)
      BY <1>6
    <3> QED
      BY <1>2, <1>9, <2>1, <3>1 DEF RangesApart
  <2> QED
    BY <2>1 DEF RangesApart, Touches
<1>11. Of(new) = Covered(joined) \cup Of(c)
  BY <1>3, <1>14, <1>15, <1>16, JoinCovers
<1>12. Covered(ranges)' = Covered(cited)'
  <2>1. Covered(ranges) = Covered(ranges \ joined) \cup Covered(joined)
    BY <1>8 DEF Covered
  <2>2. Covered(ranges') = Covered(ranges \ joined) \cup Of(new)
    BY <1>6 DEF Covered
  <2>3. Covered(cited') = Covered(cited) \cup Of(c)
    BY <1>6 DEF Covered
  <2>4. Covered(ranges)' = Covered(ranges') /\ Covered(cited)' = Covered(cited')
    BY <1>2 DEF Covered, Of
  <2> QED
    BY <1>2, <1>11, <2>1, <2>2, <2>3, <2>4 DEF RangesExact
<1>13. ASSUME NEW r \in ranges', r.whole PROVE [start |-> r.start, end |-> r.end] \in chunks'
  <2>1. CASE r \in ranges
    BY <1>2, <1>13, <2>1 DEF RangesExact
  <2>2. CASE r = new
    <3>1. [start |-> r.start, end |-> r.end] = [start |-> c.start, end |-> c.end]
      BY <1>5, <1>7, <1>13, <2>2
    <3>2. [start |-> c.start, end |-> c.end] = c
      BY <1>3
    <3> QED
      BY <1>2, <3>1, <3>2
  <2> QED
    BY <1>6, <2>1, <2>2
<1> QED
  BY <1>10, <1>12, <1>13 DEF Offered, RangesExact

LEMMA OfferedStep == PassagesAssumption /\ Split /\ Offered /\ [Next]_vars => Offered'
<1> SUFFICES ASSUME PassagesAssumption, Split, Offered, [Next]_vars PROVE Offered'
  OBVIOUS
<1>1. CASE Chunk
  <2>1. ranges' = {} /\ cited' = {}
    BY <1>1 DEF Split, Phases, Chunk
  <2> QED
    BY <2>1 DEF Offered, RangesApart, RangesExact, Covered
<1>2. CASE Cite
  BY <1>2, CiteOffered
<1>3. CASE Offer
  BY <1>3 DEF Offered, RangesApart, RangesExact, Touches, Offer, split
<1>4. CASE Pack
  <2>1. PICK r \in ranges : Whole(r) \/ CutShort(r) \/ Dropped
    BY <1>4, PackQuotes DEF Split
  <2>2. ranges' \subseteq ranges /\ pc' \in {"pack", "done"} /\ chunks' = chunks
    BY <1>4, <2>1, PackQuotes DEF Whole, CutShort, Dropped, Ended, Split, split
  <2> QED
    BY <2>2 DEF Offered, RangesApart, RangesExact, Touches
<1>5. CASE NextHit
  BY <1>5 DEF Offered, RangesApart, RangesExact, Covered, NextHit
<1>6. CASE Finish
  BY <1>6 DEF Offered, RangesApart, RangesExact, Finish
<1>7. CASE UNCHANGED vars
  BY <1>7 DEF Offered, RangesApart, RangesExact, Touches, Covered, Of, Points, vars
<1> QED
  BY <1>1, <1>2, <1>3, <1>4, <1>5, <1>6, <1>7 DEF Next

-----------------------------------------------------------------------------
(* The bundle quotes each point that is offered once. *)

Bundles == QuotedOnce /\ BundleHolds

(* What a quotation adds to the bundle: one excerpt, of points its range offered. *)
Adds(r, n, e, last) ==
  /\ e.hit = hit /\ e.start = r.start /\ e.end = r.start + n
  /\ e.whole => r.whole /\ n = Length(r)
  /\ Of(e) \subseteq Of(r) /\ (n = Length(r) => Of(e) = Of(r))
  /\ last \notin DOMAIN excerpts /\ DOMAIN excerpts' = DOMAIN excerpts \cup {last}
  /\ \A i \in DOMAIN excerpts : excerpts'[i] = excerpts[i]
  /\ excerpts'[last] = e
  /\ Quoted' = Quoted \cup Of(e)
  /\ used' <= limit /\ limit' = limit

LEMMA QuoteAdds ==
  ASSUME PassagesAssumption, TypeOK, NEW r \in ranges, NEW n \in 1 .. Length(r), Fits(r, n), Quote(r, n),
         UNCHANGED <<text, hit>>
  PROVE  \E e, last : Adds(r, n, e, last)
<1> DEFINE E == [hit : Nat, start : Points, end : 1 .. length, whole : BOOLEAN]
<1> DEFINE e == [hit |-> hit, start |-> r.start, end |-> r.start + n,
                 whole |-> r.whole /\ n = Length(r)]
<1> DEFINE last == Len(excerpts) + 1
<1>1. e \in E /\ excerpts' = Append(excerpts, e) /\ used' <= limit /\ limit' = limit /\ e.end <= r.end
  BY QuoteTyped
<1>2. e.hit = hit /\ e.start = r.start /\ e.end = r.start + n /\ (e.whole => r.whole /\ n = Length(r))
  OBVIOUS
<1>3. r.start \in Int /\ r.end \in Int /\ length \in Nat /\ n \in Int
  BY DEF TypeOK, Points, Length
<1>4. Of(e) \subseteq Of(r) /\ (n = Length(r) => Of(e) = Of(r))
  BY <1>1, <1>2, <1>3 DEF Of, Length, Points
<1>5. excerpts \in Seq(E)
  BY DEF TypeOK
<1> HIDE DEF e, E
<1>6. /\ last \notin DOMAIN excerpts /\ DOMAIN excerpts' = DOMAIN excerpts \cup {last}
      /\ \A i \in DOMAIN excerpts : excerpts'[i] = excerpts[i]
      /\ excerpts'[last] = e
  BY <1>1, <1>5
<1> HIDE DEF last
<1>7. Quoted' = Quoted \cup Of(e)
  <2>2. Points' = Points
    BY DEF Points, text
  <2>3. Bundled(hit)' = Bundled(hit) \cup {last}
    BY <1>2, <1>6 DEF Bundled
  <2>4. {excerpts'[i] : i \in Bundled(hit)'} = {excerpts[i] : i \in Bundled(hit)} \cup {e}
    BY <1>6, <2>3 DEF Bundled
  <2>5. Quoted' = Covered({excerpts'[i] : i \in Bundled(hit)'})
    BY <2>2 DEF Quoted, Covered, Of
  <2> QED
    BY <2>4, <2>5 DEF Quoted, Covered
<1> QED
  BY <1>1, <1>2, <1>4, <1>6, <1>7 DEF Adds

LEMMA QuoteBundles ==
  ASSUME PassagesAssumption, Split, Offered, Bundles, pc = "pack", pc' \in {"pack", "done"},
         NEW r \in ranges, NEW n \in 1 .. Length(r), Fits(r, n), Quote(r, n),
         UNCHANGED <<text, split, hit, cited>>,
         \/ n = Length(r) /\ ranges' = ranges \ {r} /\ pc' = "pack"
         \/ ranges' = ranges /\ pc' = "done" /\ truncated' = TRUE
  PROVE  Bundles'
<1>1. TypeOK /\ RangesApart /\ RangesExact /\ QuotedOnce /\ BundleHolds
  BY DEF Split, Offered, Bundles
<1>a. PICK e, last : Adds(r, n, e, last)
  <2>1. UNCHANGED <<text, hit>>
    OBVIOUS
  <2> QED
    BY <1>1, <2>1, QuoteAdds
<1>2. /\ e.hit = hit /\ e.start = r.start /\ e.end = r.start + n
      /\ e.whole => r.whole /\ n = Length(r)
      /\ Of(e) \subseteq Of(r) /\ (n = Length(r) => Of(e) = Of(r))
      /\ last \notin DOMAIN excerpts /\ DOMAIN excerpts' = DOMAIN excerpts \cup {last}
      /\ \A i \in DOMAIN excerpts : excerpts'[i] = excerpts[i]
      /\ excerpts'[last] = e
      /\ Quoted' = Quoted \cup Of(e)
      /\ used' <= limit /\ limit' = limit
  BY <1>a DEF Adds
<1>3. Points' = Points /\ chunks' = chunks /\ hit' = hit /\ cited' = cited /\ \A x : Of(x)' = Of(x)
  BY DEF text, split, Points, Of
<1>4. Covered(ranges)' = Covered(ranges') /\ Covered(cited)' = Covered(cited)
  BY <1>3 DEF Covered, Of
<1>5. Of(r) \subseteq Covered(ranges)
  BY DEF Covered
<1>6. Covered(ranges) = Covered(ranges \ {r}) \cup Of(r)
  BY DEF Covered
<1>7. QuotedOnce'
  <2>1. CASE ranges' = ranges \ {r} /\ n = Length(r)
    <3>1. ASSUME NEW q \in ranges \ {r}, NEW p \in Of(r) PROVE p \notin Of(q)
      <4>1. ~Touches(q, r)
        BY <1>1, <3>1 DEF RangesApart
      <4>2. /\ q.start \in Int /\ q.end \in Int /\ r.start \in Int /\ r.end \in Int /\ p \in Int
            /\ r.start <= p /\ p < r.end
        BY <1>1, <3>1 DEF TypeOK, Points, Of
      <4> QED
        BY <4>1, <4>2 DEF Touches, Of
    <3>2. Of(r) \cap Covered(ranges \ {r}) = {}
      BY <3>1 DEF Covered
    <3>3. Quoted \cap Covered(ranges) = {}
      BY <1>1 DEF QuotedOnce
    <3> QED
      BY <1>2, <1>4, <1>6, <2>1, <3>2, <3>3 DEF QuotedOnce
  <2>2. CASE pc' = "done"
    BY <2>2 DEF QuotedOnce
  <2> QED
    BY <2>1, <2>2
<1>8. QuotesApart'
  <2>1. ASSUME NEW i \in DOMAIN excerpts, excerpts[i].hit = hit
        PROVE  Of(excerpts[i]) \cap Of(e) = {}
    <3>1. Of(excerpts[i]) \subseteq Quoted
      BY <2>1 DEF Quoted, Covered, Bundled
    <3> QED
      BY <1>1, <1>2, <1>5, <3>1 DEF QuotedOnce
  <2>2. ASSUME NEW i \in DOMAIN excerpts', NEW j \in DOMAIN excerpts', i # j,
               excerpts'[i].hit = excerpts'[j].hit
        PROVE  Of(excerpts'[i]) \cap Of(excerpts'[j]) = {}
    <3>1. CASE i \in DOMAIN excerpts /\ j \in DOMAIN excerpts
      BY <1>1, <1>2, <2>2, <3>1 DEF BundleHolds, QuotesApart
    <3>2. CASE i \in DOMAIN excerpts /\ j = last
      BY <1>2, <2>1, <2>2, <3>2
    <3>3. CASE i = last /\ j \in DOMAIN excerpts
      BY <1>2, <2>1, <2>2, <3>3
    <3> QED
      BY <1>2, <2>2, <3>1, <3>2, <3>3
  <2> QED
    BY <1>3, <2>2 DEF QuotesApart, Of
<1>9. WholesAreChunks'
  <2>1. ASSUME e.whole PROVE [start |-> e.start, end |-> e.end] \in chunks
    <3>1. r.start \in Int /\ r.end \in Int
      BY <1>1 DEF TypeOK, Points
    <3>2. e.end = r.end /\ e.start = r.start /\ r.whole
      BY <1>2, <2>1, <3>1 DEF Length
    <3> QED
      BY <1>1, <3>2 DEF RangesExact
  <2> QED
    BY <1>1, <1>2, <1>3, <2>1 DEF BundleHolds, WholesAreChunks
<1>10. QuotesCited'
  <2>1. Quoted \cup Covered(ranges) = Covered(cited)
    BY <1>1 DEF BundleHolds, QuotesCited
  <2> QED
    BY <1>2, <1>4, <1>5, <1>6, <2>1 DEF QuotesCited
<1>11. WithinBudget' /\ SaysCut'
  BY <1>2 DEF WithinBudget, SaysCut
<1> QED
  BY <1>7, <1>8, <1>9, <1>10, <1>11 DEF Bundles, BundleHolds

(* Steps that leave the bundle and its hit alone. *)
LEMMA BundleRests ==
  ASSUME BundleHolds, UNCHANGED <<text, excerpts, used, limit>>, chunks \subseteq chunks'
  PROVE  WithinBudget' /\ QuotesApart' /\ WholesAreChunks'
BY DEF BundleHolds, WithinBudget, QuotesApart, WholesAreChunks, text, Of, Points

LEMMA BundlesStep == PassagesAssumption /\ Split /\ Offered /\ Bundles /\ [Next]_vars => Bundles'
<1> SUFFICES ASSUME PassagesAssumption, Split, Offered, Bundles, [Next]_vars PROVE Bundles'
  OBVIOUS
<1>1. TypeOK /\ QuotedOnce /\ BundleHolds /\ RangesExact
  BY DEF Split, Offered, Bundles
<1>2. CASE Chunk
  <2>1. /\ UNCHANGED <<text, hit, excerpts, used, limit>> /\ chunks \subseteq chunks'
        /\ pc = "chunk" /\ pc' \in {"chunk", "cite"}
    BY <1>2 DEF Chunk, bundle
  <2> QED
    BY <1>1, <2>1, BundleRests DEF Bundles, BundleHolds, QuotedOnce, QuotesCited, SaysCut, Bundled
<1>3. CASE Cite
  <2>1. UNCHANGED <<text, pc, hit, excerpts, used, limit, chunks>> /\ pc = "cite"
    BY <1>3 DEF Cite, bundle, split
  <2> QED
    BY <1>1, <2>1, BundleRests DEF Bundles, BundleHolds, QuotedOnce, QuotesCited, SaysCut, Bundled
<1>4. CASE Offer
  <2>1. UNCHANGED <<text, hit, cited, ranges, excerpts, used, limit, chunks>> /\ pc = "cite" /\ pc' = "pack"
    BY <1>4 DEF Offer, bundle, split
  <2>2. Bundled(hit) = {}
    BY <1>1, <2>1 DEF QuotedOnce
  <2>3. Quoted = {} /\ Quoted' = {}
    BY <2>1, <2>2 DEF Quoted, Covered, Bundled
  <2>4. Covered(ranges)' = Covered(cited)'
    BY <1>1, <2>1 DEF RangesExact, Covered, Of, Points, text
  <2> QED
    BY <1>1, <2>1, <2>3, <2>4, BundleRests DEF Bundles, BundleHolds, QuotedOnce, QuotesCited, SaysCut
<1>5. CASE Pack
  <2>1. pc = "pack" /\ UNCHANGED <<text, split, hit, cited>>
    BY <1>1, <1>5, PackQuotes
  <2>2. PICK r \in ranges : Whole(r) \/ CutShort(r) \/ Dropped
    BY <1>1, <1>5, PackQuotes
  <2>3. CASE Whole(r)
    <3>1. Length(r) \in 1 .. Length(r)
      BY <1>1 DEF TypeOK, Length, Points
    <3> QED
      BY <2>1, <2>3, <3>1, QuoteBundles DEF Whole
  <2>4. CASE CutShort(r)
    BY <2>1, <2>4, QuoteBundles DEF CutShort, Ended
  <2>5. CASE Dropped
    <3>1. UNCHANGED <<ranges, excerpts, used, limit>> /\ pc' = "done" /\ truncated' = TRUE
      BY <2>5 DEF Dropped, Ended
    <3>2. QuotesCited'
      BY <1>1, <2>1, <3>1 DEF BundleHolds, QuotesCited, Quoted, Bundled, Covered, Of, Points, text
    <3> QED
      BY <1>1, <2>1, <3>1, <3>2, BundleRests DEF Bundles, BundleHolds, QuotedOnce, SaysCut, split
  <2> QED
    BY <2>2, <2>3, <2>4, <2>5
<1>6. CASE NextHit
  <2>1. UNCHANGED <<text, excerpts, used, limit, chunks>> /\ pc' = "cite" /\ hit' = hit + 1 /\ hit \in Nat
    BY <1>1, <1>6 DEF NextHit, bundle, split, TypeOK
  <2>2. (Bundled(hit) = {})'
    <3>1. ASSUME NEW i \in DOMAIN excerpts PROVE excerpts[i].hit # hit + 1
      <4>1. excerpts[i].hit <= hit
        BY <1>1, <3>1 DEF TypeOK
      <4> QED
        BY <2>1, <4>1
    <3> QED
      BY <2>1, <3>1 DEF Bundled
  <2> QED
    BY <1>1, <2>1, <2>2, BundleRests DEF Bundles, BundleHolds, QuotedOnce, QuotesCited, SaysCut
<1>7. CASE Finish
  <2>1. /\ UNCHANGED <<text, hit, cited, ranges, excerpts, used, limit, chunks>>
        /\ pc = "pack" /\ pc' = "done" /\ ranges = {}
    BY <1>7 DEF Finish, bundle, split
  <2>2. QuotesCited'
    BY <1>1, <2>1 DEF BundleHolds, QuotesCited, Quoted, Bundled, Covered, Of, Points, text
  <2> QED
    BY <1>1, <2>1, <2>2, BundleRests DEF Bundles, BundleHolds, QuotedOnce, SaysCut
<1>8. CASE UNCHANGED vars
  BY <1>1, <1>8 DEF Bundles, BundleHolds, QuotedOnce, WithinBudget, QuotesApart, WholesAreChunks,
     QuotesCited, SaysCut, Quoted, Bundled, Covered, Of, Points, vars
<1> QED
  BY <1>2, <1>3, <1>4, <1>5, <1>6, <1>7, <1>8 DEF Next

-----------------------------------------------------------------------------
(* The invariants of the specification. *)

LEMMA SplitStep == PassagesAssumption /\ Split /\ [Next]_vars => Split'
<1> SUFFICES ASSUME PassagesAssumption, Split, [Next]_vars PROVE Split'
  OBVIOUS
<1>1. CASE UNCHANGED vars
  BY <1>1 DEF Split, TypeOK, Phases, ChunksCover, Covered, Of, Points, vars
<1> QED
  BY <1>1, ChunkSplit, CiteSplit, OfferSplit, PackSplit, NextHitSplit, FinishSplit DEF Next

LEMMA InitOffered == PassagesAssumption /\ Init => Offered
BY DEF Init, Offered, RangesApart, RangesExact, Covered

LEMMA InitBundles == PassagesAssumption /\ Init => Bundles
<1> SUFFICES ASSUME PassagesAssumption, Init PROVE Bundles
  OBVIOUS
<1>1. DOMAIN excerpts = {} /\ pc \in {"empty", "chunk"} /\ used = Frame /\ limit \in Budgets
  BY DEF Init
<1>2. used <= limit
  BY <1>1 DEF PassagesAssumption
<1> QED
  BY <1>1, <1>2 DEF Bundles, QuotedOnce, Bundled, BundleHolds, WithinBudget, QuotesApart,
     WholesAreChunks, QuotesCited, SaysCut

THEOREM Inductive == PassagesAssumption => (Spec => [](Split /\ Offered /\ Bundles))
<1> SUFFICES ASSUME PassagesAssumption PROVE Spec => [](Split /\ Offered /\ Bundles)
  OBVIOUS
<1>1. Init => Split /\ Offered /\ Bundles
  BY InitSplit, InitOffered, InitBundles
<1>2. Split /\ Offered /\ Bundles /\ [Next]_vars => (Split /\ Offered /\ Bundles)'
  BY SplitStep, OfferedStep, BundlesStep
<1> QED
  BY <1>1, <1>2, PTL DEF Spec

(* chunkText loses no part of a text but whitespace, and no chunk is longer   *)
(* than Size.                                                                 *)
THEOREM NothingLost == PassagesAssumption => (Spec => []ChunksCover)
<1>1. Split => ChunksCover
  BY DEF Split
<1> QED
  BY <1>1, Inductive, PTL

(* The loop of chunkText advances at every turn: it ends on every text.       *)
THEOREM LoopAdvances == PassagesAssumption => (Spec => []ChunksAdvance)
<1> SUFFICES ASSUME PassagesAssumption PROVE Spec => []ChunksAdvance
  OBVIOUS
<1>1. Split => ChunksAdvance
  BY EndBounds DEF Split, Phases, ChunksAdvance
<1> QED
  BY <1>1, Inductive, PTL

(* rangesOf offers exactly what a hit cites, in ranges that do not touch, and *)
(* calls only a whole chunk one.                                              *)
THEOREM RangesHold == PassagesAssumption => (Spec => [](RangesApart /\ RangesExact))
<1>1. Offered => RangesApart /\ RangesExact
  BY DEF Offered
<1> QED
  BY <1>1, Inductive, PTL

(* assembleBundle is within its budget, quotes no point of a hit twice and    *)
(* only what is cited, and says so when it leaves some of it out.             *)
THEOREM BundleSafe == PassagesAssumption => (Spec => []BundleHolds)
<1>1. Bundles => BundleHolds
  BY DEF Bundles
<1> QED
  BY <1>1, Inductive, PTL
=============================================================================
