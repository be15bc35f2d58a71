------------------------------ MODULE Passages -------------------------------
(****************************************************************************)
(* The passages of a text, from its chunks to a context bundle: chunkText   *)
(* (packages/retrieval/src/index.ts), rangesOf and assembleBundle           *)
(* (bundle.ts).  A text is a length and the positions of its whitespace,    *)
(* one byte each once escaped, other code points two.  The hits of a search *)
(* cite chunks of Refs with this text; their excerpts quote what is cited.  *)
(****************************************************************************)
EXTENDS Integers, FiniteSets, Sequences

CONSTANTS MaxLength,         \* the longest text
          Size, Overlap,     \* of a chunk, and of it with the one after
          Budgets,           \* what may bound a bundle, in bytes or tokens
          Frame, Element,       \* bytes of a bundle's frame, and of an excerpt's
          MinExcerpt,        \* the shortest excerpt that is cut
          MaxCited, MaxHits  \* citations of a hit, and hits

PassagesAssumption ==
  /\ Size \in Nat /\ Size >= 2 /\ Overlap \in Nat /\ 2 * Overlap < Size
  /\ MaxLength \in Nat /\ Frame \in Nat /\ Element \in Nat /\ MinExcerpt \in Nat \ {0}
  /\ Budgets \subseteq Nat /\ \A b \in Budgets : b >= Frame
  /\ MaxCited \in Nat /\ MaxHits \in Nat

VARIABLES length, blank,       \* the text
          pc,
          start, chunks,       \* where the next chunk starts; the chunks so far
          hit,                 \* the number of the hit at hand
          cited, ranges,       \* the chunks it cites so far, merged; what is not quoted yet
          excerpts, used,      \* the bundle, and its bytes
          limit, truncated

vars == <<length, blank, pc, start, chunks, hit, cited, ranges, excerpts, used, limit, truncated>>
text == <<length, blank>>
split == <<start, chunks>>
bundle == <<excerpts, used, limit, truncated>>

Points == 0 .. length - 1
Of(r) == {p \in Points : r.start <= p /\ p < r.end}
Covered(rs) == UNION {Of(r) : r \in rs}

Init ==
  /\ length \in 0 .. MaxLength /\ blank \in SUBSET Points
  /\ pc = (IF length = 0 THEN "empty" ELSE "chunk")
  /\ start = 0 /\ chunks = {} /\ hit = 1 /\ cited = {} /\ ranges = {}
  /\ excerpts = <<>> /\ used = Frame /\ limit \in Budgets /\ truncated = FALSE

-----------------------------------------------------------------------------
(* Where a chunk may be cut: after whitespace in its second half. *)
Least(a, b) == IF a < b THEN a ELSE b
Far == Least(length, start + Size)
Cuts == {c \in start + 1 .. Far : 2 * (c - start) > Size /\ c - 1 \in blank}

EndsAt(e) ==
  IF Far < length /\ Cuts # {} THEN e \in Cuts /\ \A c \in Cuts : c <= e ELSE e = Far

(* chunkText: one turn of its loop. *)
Chunk ==
  /\ pc = "chunk"
  /\ \E e \in 1 .. length :
       LET chunk == [start |-> start, end |-> e] IN
       /\ EndsAt(e)
       /\ chunks' = IF Of(chunk) \subseteq blank THEN chunks ELSE chunks \cup {chunk}
       /\ IF e = length THEN pc' = "cite" /\ start' = start ELSE pc' = pc /\ start' = e - Overlap
  /\ UNCHANGED <<text, hit, cited, ranges, bundle>>

-----------------------------------------------------------------------------
(* rangesOf: a citation that overlaps or touches earlier ranges becomes one range *)
(* with them, in the place of the first; only a citation alone is a whole chunk.  *)
Touches(r, c) == c.start <= r.end /\ r.start <= c.end

Cite ==
  /\ pc = "cite" /\ Cardinality(cited) < MaxCited
  /\ \E c \in chunks \ cited :
       LET joined == {r \in ranges : Touches(r, c)} IN
       /\ cited' = cited \cup {c}
       /\ \E s, e \in 0 .. length :
            /\ \E r \in joined \cup {c} : s = r.start
            /\ \E r \in joined \cup {c} : e = r.end
            /\ \A r \in joined \cup {c} : s <= r.start /\ r.end <= e
            /\ \E at \in IF joined = {} THEN {Cardinality(cited)} ELSE {r.at : r \in joined} :
                 /\ \A r \in joined : at <= r.at
                 /\ ranges' = (ranges \ joined) \cup
                              {[start |-> s, end |-> e, at |-> at, whole |-> joined = {}]}
  /\ UNCHANGED <<text, pc, split, hit, bundle>>

Offer ==
  /\ pc = "cite" /\ cited # {} /\ pc' = "pack"
  /\ UNCHANGED <<text, split, hit, cited, ranges, bundle>>

-----------------------------------------------------------------------------
(* The bytes of an excerpt's first n code points: whitespace is one byte, the rest two. *)
Prefix(r, n) == {p \in Points : r.start <= p /\ p < r.start + n}
Bytes(r, n) == Element + Cardinality(Prefix(r, n)) + Cardinality(Prefix(r, n) \ blank)
Length(r) == r.end - r.start
Fits(r, n) == used + Bytes(r, n) <= limit

(* The binary search of the longest prefix that fits. *)
Longest(r) ==
  LET search[low \in 0 .. MaxLength, high \in 0 .. MaxLength] ==
        LET middle == (low + high + 1) \div 2
        IN  IF low >= high THEN low
            ELSE IF Fits(r, middle) THEN search[middle, high] ELSE search[low, middle - 1]
  IN  search[0, Length(r) - 1]
LongestFit(r) == IF Fits(r, Longest(r)) THEN Longest(r) ELSE 0

(* An excerpt is cut after whitespace in the second half of what fits, but not too short. *)
CutsOf(r, fit) == {n \in 1 .. fit : 2 * n > fit /\ n >= MinExcerpt /\ r.start + n - 1 \in blank}
CutAt(r, fit, n) ==
  IF CutsOf(r, fit) = {} THEN n = fit ELSE n \in CutsOf(r, fit) /\ \A m \in CutsOf(r, fit) : m <= n

Quote(r, n) ==
  /\ excerpts' = Append(excerpts, [hit |-> hit, start |-> r.start, end |-> r.start + n,
                                   whole |-> r.whole /\ n = Length(r)])
  /\ used' = used + Bytes(r, n)
  /\ UNCHANGED limit

First == {r \in ranges : \A other \in ranges : r.at <= other.at}

(* assembleBundle: the excerpts in order, until one does not fit whole. *)
Pack ==
  /\ pc = "pack"
  /\ \E r \in First :
       \/ /\ Fits(r, Length(r)) /\ Quote(r, Length(r)) /\ ranges' = ranges \ {r}
          /\ UNCHANGED <<pc, truncated>>
       \/ /\ ~Fits(r, Length(r)) /\ pc' = "done" /\ truncated' = TRUE /\ UNCHANGED ranges
          /\ \E fit, n \in 0 .. Length(r) :
               /\ fit = LongestFit(r) /\ CutAt(r, fit, n)
               /\ IF n < MinExcerpt THEN UNCHANGED <<excerpts, used, limit>> ELSE Quote(r, n)
  /\ UNCHANGED <<text, split, hit, cited>>

NextHit ==
  /\ pc = "pack" /\ ranges = {} /\ hit < MaxHits
  /\ pc' = "cite" /\ hit' = hit + 1 /\ cited' = {}
  /\ UNCHANGED <<text, split, ranges, bundle>>

Finish ==
  /\ pc = "pack" /\ ranges = {} /\ pc' = "done"
  /\ UNCHANGED <<text, split, hit, cited, ranges, bundle>>

Next == Chunk \/ Cite \/ Offer \/ Pack \/ NextHit \/ Finish

Spec == Init /\ [][Next]_vars

-----------------------------------------------------------------------------
TypeOK ==
  /\ pc \in {"empty", "chunk", "cite", "pack", "done"} /\ hit \in Nat \ {0} /\ truncated \in BOOLEAN
  /\ length \in 0 .. MaxLength /\ blank \subseteq Points /\ start \in Points \cup {0}
  /\ chunks \subseteq [start : Points, end : 1 .. length] /\ \A c \in chunks : c.start < c.end
  /\ ranges \subseteq [start : Points, end : 1 .. length, at : Nat, whole : BOOLEAN]
  /\ \A r \in ranges : r.start < r.end
  /\ excerpts \in Seq([hit : Nat, start : Points, end : 1 .. length, whole : BOOLEAN])
  /\ \A i \in DOMAIN excerpts : excerpts[i].hit <= hit
  /\ cited \subseteq chunks /\ used \in Nat /\ limit \in Budgets

(* No part of the text is lost between chunks: all but whitespace before the  *)
(* next one's start, and in the end all of it, is in a chunk, and no chunk is *)
(* longer than an embedder was chosen for.                                    *)
ChunksCover ==
  /\ \A p \in Points : pc # "chunk" \/ p < start => p \in blank \cup Covered(chunks)
  /\ \A c \in chunks : c.end - c.start <= Size

(* What a hit offers is what it cites, no point of it twice and no two ranges *)
(* that touch; a range given a source's offsets is one chunk.                 *)
RangesApart == \A q, r \in ranges : q # r => ~Touches(q, r)
RangesExact ==
  /\ pc = "cite" => Covered(ranges) = Covered(cited)
  /\ \A r \in ranges : r.whole => [start |-> r.start, end |-> r.end] \in chunks

(* The loop that chunks a text advances at every turn, whatever the text.     *)
ChunksAdvance ==
  pc = "chunk" => \A e \in 1 .. length : EndsAt(e) => e = length \/ e - Overlap > start

(* Wherever it is cut, a bundle is within its budget, quotes no point of a    *)
(* hit twice and only what is cited, and quotes all of it unless it says that *)
(* it was cut short; an excerpt given a source's offsets is one whole chunk.  *)
Bundled(h) == {i \in DOMAIN excerpts : excerpts[i].hit = h}
Quoted == Covered({excerpts[i] : i \in Bundled(hit)})

WithinBudget == used <= limit
QuotesApart ==
  \A i, j \in DOMAIN excerpts :
    i # j /\ excerpts[i].hit = excerpts[j].hit => Of(excerpts[i]) \cap Of(excerpts[j]) = {}
WholesAreChunks ==
  \A i \in DOMAIN excerpts :
    excerpts[i].whole => [start |-> excerpts[i].start, end |-> excerpts[i].end] \in chunks
QuotesCited == pc \in {"pack", "done"} => Quoted \cup Covered(ranges) = Covered(cited)
SaysCut == pc = "done" /\ ~truncated => ranges = {}
BundleHolds == WithinBudget /\ QuotesApart /\ WholesAreChunks /\ QuotesCited /\ SaysCut

(* The search by halves finds the longest prefix that fits.                   *)
LongestFits ==
  pc = "pack" => \A r \in First : LET n == LongestFit(r) IN
    /\ n = 0 \/ Fits(r, n)
    /\ \A m \in 1 .. Length(r) - 1 : Fits(r, m) => m <= n
=============================================================================
