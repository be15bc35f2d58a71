------------------------------- MODULE MCBytes -------------------------------
(***************************************************************************)
(* The parts that keep and erase bytes, under the fairness of their store  *)
(* and sweeps, one at a time: a behaviour runs the part it starts with,    *)
(* whose variables are in the slots s1, s2, ... in the order its module    *)
(* declares them; uploads (SourceUploads, which this module extends) have  *)
(* their own variables. The parts share no row, so their states add up.    *)
(***************************************************************************)
EXTENDS SourceUploads, Sequences, TLC

CONSTANTS Parts \* the parts a run takes

VARIABLES part, \* the part that runs
          s1, s2, s3, s4, s5, s6, s7, s8, s9, s10, s11

slots == <<s1, s2, s3, s4, s5, s6, s7, s8, s9, s10, s11>>
all == <<part, vars, slots>>

(* A removal of an original and copies of it, one of which the store always rejects. *)
Passing == INSTANCE OriginalErasure WITH
    Attempts <- {"a0", "a1", "a2"}, Committed <- "a0", Removals <- {"r1"},
    Failing <- {<<"original", "a1">>}, Bad <- {<<"original", "a1">>}, Writes <- {},
    PageSize <- 1, MaxFinds <- 0, MaxStops <- 0, None <- None,
    deleted <- s1, settled <- s2, cleaned <- s3, erasure <- s4, store <- s5,
    writing <- s6, unseen <- s7, removal <- s8, sweep <- s9, stops <- s10

(* A removal whose delete fails or that stops, a write that lands late, and the sweep. *)
Removing == INSTANCE OriginalErasure WITH
    Attempts <- {"a0"}, Committed <- "a0", Removals <- {"r1"},
    Failing <- {<<"original", "a0">>}, Bad <- {}, Writes <- {<<"original", "a0">>},
    PageSize <- 1, MaxFinds <- 4, MaxStops <- 1, None <- None,
    deleted <- s1, settled <- s2, cleaned <- s3, erasure <- s4, store <- s5,
    writing <- s6, unseen <- s7, removal <- s8, sweep <- s9, stops <- s10

(* The deletion of a space of two keys, and the sweep. *)
Purging == INSTANCE SpaceErasure WITH
    Owners <- {"alice"}, Ticks <- {"t1"}, Keys <- {"k1", "k2"}, PageSize <- 1,
    MaxAsked <- 1, MaxFinds <- 5, None <- None,
    lifecycle <- s1, rows <- s2, audits <- s3, published <- s4, request <- s5,
    store <- s6, writing <- s7, unseen <- s8, owner <- s9, tick <- s10, sweep <- s11

(* What a step of a part with so many variables leaves alone: the slots it leaves empty. *)
After10 == <<part, vars, s11>>
After11 == <<part, vars>>
Rest == <<part, slots>>

Off(slot) == slot = "empty"
Empty10 == Off(s11)
Empty11 == TRUE

(* Two calls of one grant and a reconciler run as the part "upload"; beside any other
   part they rest. *)
Own == Init /\ Off(s1) /\ Off(s2) /\ Off(s3) /\ Off(s4) /\ Off(s5) /\ Off(s6) /\ Off(s7) /\ Off(s8) /\ Off(s9) /\ Off(s10) /\ Off(s11)

Start(p, init, empty) == part = p /\ init /\ empty /\ Init
Run(p, step, rest) == part = p /\ step /\ UNCHANGED rest

SuiteInit ==
  /\ part \in Parts
  /\ \/ Start("healthy", Passing!Init, Empty10)
     \/ Start("removal", Removing!Init, Empty10)
     \/ Start("space", Purging!Init, Empty11)
     \/ part = "upload" /\ Own

SuiteNext ==
  \/ Run("healthy", Passing!Next, After10)
  \/ Run("removal", Removing!Next, After10)
  \/ Run("space", Purging!Next, After11)
  \/ Run("upload", Next, Rest)

SuiteSpec == SuiteInit /\ [][SuiteNext]_all
-----------------------------------------------------------------------------
(* The parts' constants are as their modules assume. *)
ASSUME SuiteAssumption ==
  /\ Passing!ErasureAssumption /\ Removing!ErasureAssumption /\ Purging!SpaceErasureAssumption

(* Deadlines pass, the store answers, late writes and deletes land, and a      *)
(* reconciler's tick, a removal or a sweep that began goes on.                 *)
Goes ==
  /\ WF_all(Run("upload", Tick("g1"), Rest))
  /\ \A c \in {"c1", "c2"} : WF_all(Run("upload", PutAnswered(c), Rest))
  /\ WF_all(Run("upload", Steps("t1"), Rest))
  /\ \A k \in {"staging", "original"} \X {"c1", "c2"} :
       /\ \A c \in {"c1", "c2"} : WF_all(Run("upload", WriteLands(<<k, c>>), Rest))
       /\ WF_all(Run("upload", DeleteLands(k), Rest))
  /\ WF_all(Run("healthy", Passing!WritersEnd, After10) \/ Run("removal", Removing!WritersEnd, After10))
  /\ WF_all(Run("removal", \E k \in Removing!Keys : Removing!WriteLands(k), After10))
  /\ WF_all(Run("healthy", Passing!Proceed("r1"), After10) \/ Run("removal", Removing!Proceed("r1"), After10))
  /\ WF_all(Run("removal", Removing!Find \/ Removing!SweepDelete, After10))
  /\ WF_all(Run("space", Purging!WritersEnd, After11)) /\ WF_all(Run("space", Purging!TickRuns("t1"), After11))
  /\ \A k \in {"k1", "k2"} : WF_all(Run("space", Purging!WriteLands(k), After11))
  /\ WF_all(Run("space", Purging!SweepFinds, After11)) /\ WF_all(Run("space", Purging!SweepDeletes, After11))

(* A sweep that removes the key. *)
Sweeps(kind, c) ==
  Run("upload", Sweep(<<kind, c>>) /\ <<kind, c>> \notin store', Rest)

(* What fails or is held back again and again gets through: each line is one   *)
(* process of each part that has it. A tick comes to every attempt, the sweep  *)
(* to every key, and a delete the store does not always reject succeeds.       *)
GetsThrough ==
  /\ SF_all(\/ Run("upload", Reconcile("t1", "c1"), Rest)
            \/ Run("removal", \E u \in Removing!Units : u[2] = Removing!Original /\ Removing!Delete("r1", u), After10)
            \/ Run("space", Purging!SweepLists("k1") /\ s1 = "deleted", After11))
  /\ SF_all(\/ Run("upload", Reconcile("t1", "c2"), Rest)
            \/ Run("removal", Removing!List(<<"staging", "a0">>), After10)
            \/ Run("space", Purging!SweepLists("k2") /\ s1 = "deleted", After11))
  /\ SF_all(\/ Sweeps("staging", "c1")
            \/ Run("removal", Removing!List(<<"original", "a0">>), After10)
            \/ Run("space", Purging!ListKeys("t1"), After11))
  /\ SF_all(\/ Sweeps("staging", "c2")
            \/ Run("removal", Removing!SweepDelete /\ s9.key = Removing!Original /\ s9.key \notin s5', After10)
            \/ Run("space", \E k \in {"k1", "k2"} : Purging!DeleteKey("t1", k), After11))
  /\ SF_all(Sweeps("original", "c1") \/ Run("space", Purging!EndTick("t1"), After11))
  /\ SF_all(Sweeps("original", "c2"))

FairSpec == SuiteSpec /\ Goes /\ GetsThrough

-----------------------------------------------------------------------------
(* Only the bytes of committed originals stay in the store, though calls crash *)
(* at any step and writes land after their attempt was settled.                *)
OriginalsAlone ==
  <>[](part = "upload" => OnlyOriginalsStay)

(* The bytes of a deleted source or space are erased in the end and recorded   *)
(* so, and a copy the store keeps rejecting holds back no other.               *)
ErasureEnds ==
  <>[](/\ part = "healthy" => Passing!HealthyKeysGo
       /\ part = "removal" => Removing!TypeOK /\ Removing!ErasedInTheEnd
       /\ part = "space" => Purging!BytesGo)
===============================================================================
