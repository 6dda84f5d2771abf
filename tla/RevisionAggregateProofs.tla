----------------------- MODULE RevisionAggregateProofs ----------------------
(***************************************************************************)
(* PUBLISHED and PARTIALLY_PUBLISHED are true of the targets whatever      *)
(* finalizations overlap, for any targets and sessions.                    *)
(*                                                                         *)
(* What a session has read may be old when it commits.  It stays true as   *)
(* far as successes go, because no step takes SUCCEEDED back and the       *)
(* targets a session has written are its own until it ends.                *)
(***************************************************************************)
EXTENDS RevisionAggregate, TLAPS

(* A step that opens and closes no finalization, and neither makes nor     *)
(* loses a success.                                                        *)
Quiet ==
  /\ tx' = tx
  /\ rev' \in {rev, "PUBLISHING", "SCHEDULED", "CANCELLED"}
  /\ status' \in [Target -> TargetStatus]
  /\ \A t \in Target : (status'[t] = "SUCCEEDED") = (status[t] = "SUCCEEDED")
  /\ job' \in [Target -> {"none", "queued", "running"}]
  /\ \A t \in Target : job'[t] = "running" =>
        job[t] = "running" \/ status[t] # "SUCCEEDED"
  /\ late' \subseteq Target

LEMMA AggregateType == ASSUME NEW st PROVE Aggregate(st) \in RevStatus
  BY DEF Aggregate, RevStatus

(* What the aggregate says of successes is so.                             *)
LEMMA AggregateIsTrue ==
  ASSUME NEW st
  PROVE  /\ Aggregate(st) = "PUBLISHED" =>
              \A t \in Target : st[t] = "SUCCEEDED"
         /\ Aggregate(st) = "PARTIALLY_PUBLISHED" =>
              \E t \in Target : st[t] = "SUCCEEDED"
  BY DEF Aggregate

(* A view is a column of statuses.                                         *)
LEMMA ViewType ==
  ASSUME TypeOK, NEW S, NEW to \in TargetStatus
  PROVE  View(S, to) \in [Target -> TargetStatus]
  BY DEF View, TypeOK

(* The successes in a view: those written, and those that were there.      *)
LEMMA ViewSuccess ==
  ASSUME NEW S, NEW to, NEW t \in Target
  PROVE  (View(S, to)[t] = "SUCCEEDED") =
            IF t \in S /\ to # "CANCELLED" THEN to = "SUCCEEDED"
                                           ELSE status[t] = "SUCCEEDED"
  BY DEF View

LEMMA InitInv == Init => AggregateInv
  BY DEF Init, AggregateInv, TypeOK, PublishedIsTrue, PartialIsTrue, SeenIsTrue,
         HeldOnce, OwnersAreRunning, Open, Idle, Finalization, RevStatus,
         TargetStatus

-----------------------------------------------------------------------------
(* Quiet steps keep the invariant.                                         *)
LEMMA QuietKeepsInv == AggregateInv /\ Quiet => AggregateInv'
  <1> SUFFICES ASSUME AggregateInv, Quiet PROVE AggregateInv'
    OBVIOUS
  <1> USE DEF AggregateInv
  <1>1. TypeOK'
    BY DEF TypeOK, Quiet, RevStatus
  <1>2. PublishedIsTrue' /\ PartialIsTrue'
    BY DEF Quiet, PublishedIsTrue, PartialIsTrue
  <1>3. SeenIsTrue'
    <2> SUFFICES ASSUME NEW s \in Session, Open(s)
        PROVE /\ tx[s].seen = "PUBLISHED" =>
                   \A t \in Target :
                      View(tx[s].rows, tx[s].to)'[t] = "SUCCEEDED"
              /\ tx[s].seen = "PARTIALLY_PUBLISHED" =>
                   \E t \in Target :
                      View(tx[s].rows, tx[s].to)'[t] = "SUCCEEDED"
      BY DEF SeenIsTrue, Quiet, Open
    <2>1. \A t \in Target : (View(tx[s].rows, tx[s].to)'[t] = "SUCCEEDED") =
                            (View(tx[s].rows, tx[s].to)[t] = "SUCCEEDED")
      BY DEF Quiet, View
    <2>2. QED
      BY <2>1 DEF SeenIsTrue
  <1>4. HeldOnce'
    BY DEF HeldOnce, Quiet
  <1>5. OwnersAreRunning'
    BY DEF OwnersAreRunning, Quiet, Open, TypeOK, Finalization
  <1>6. QED
    BY <1>1, <1>2, <1>3, <1>4, <1>5

(* Commands, fences, callbacks and claims are quiet.                       *)
LEMMA StartIsQuiet ==
  ASSUME TypeOK, NEW S, NEW to \in {"PUBLISHING", "SCHEDULED"}, Start(S, to)
  PROVE  Quiet
  BY DEF TypeOK, Start, Enqueue, Quiet

LEMMA CancelIsQuiet == TypeOK /\ Cancel => Quiet
  BY DEF TypeOK, Cancel, Dequeue, Over, Quiet, TargetStatus

LEMMA FenceIsQuiet == ASSUME TypeOK, NEW S, Fence(S) PROVE Quiet
  BY DEF TypeOK, Fence, Dequeue, Over, Quiet, TargetStatus

LEMMA SupersedeIsQuiet == TypeOK /\ Supersede => Quiet
  BY DEF TypeOK, Supersede, Dequeue, Quiet, TargetStatus

LEMMA TargetStepIsQuiet ==
  ASSUME AggregateInv, NEW t \in Target, TargetStep(t) PROVE Quiet
  <1> USE DEF AggregateInv, TypeOK, Quiet, TargetStatus
  <1>1. CASE Resume(t)
    BY <1>1 DEF Resume
  <1>2. CASE Claim(t)
    BY <1>2 DEF Claim, Claimed
  <1>3. CASE Reclaim(t)
    BY <1>3 DEF Reclaim, Claimed, OwnersAreRunning
  <1>4. QED
    BY <1>1, <1>2, <1>3 DEF TargetStep

-----------------------------------------------------------------------------
(* A finalization that begins has just read the truth, on free targets.    *)
LEMMA BeginKeepsInv ==
  ASSUME AggregateInv, NEW s \in Session, NEW S \in SUBSET Target,
         NEW to \in TargetStatus, NEW owns \in BOOLEAN, Begin(s, S, to, owns),
         owns => \A t \in S : status[t] # "SUCCEEDED",
         ~owns => to = "CANCELLED"
  PROVE  AggregateInv'
  <1> DEFINE f == [rows |-> S, to |-> to, owns |-> owns, seen |-> Read(S, to)]
  <1> USE DEF AggregateInv
  <1>1. /\ f \in Finalization /\ tx' = [tx EXCEPT ![s] = f]
        /\ UNCHANGED <<rev, status, job, late>>
    BY AggregateType DEF Begin, Read, Finalization
  <1>2. /\ tx'[s] = f
        /\ \A o \in Session \ {s} : tx'[o] = tx[o]
    BY <1>1 DEF TypeOK
  <1>3. TypeOK'
    BY <1>1 DEF TypeOK
  <1>4. PublishedIsTrue' /\ PartialIsTrue'
    BY <1>1 DEF PublishedIsTrue, PartialIsTrue
  <1>5. SeenIsTrue'
    <2> SUFFICES ASSUME NEW o \in Session, Open(o)'
        PROVE /\ tx'[o].seen = "PUBLISHED" =>
                   \A t \in Target :
                      View(tx'[o].rows, tx'[o].to)[t] = "SUCCEEDED"
              /\ tx'[o].seen = "PARTIALLY_PUBLISHED" =>
                   \E t \in Target :
                      View(tx'[o].rows, tx'[o].to)[t] = "SUCCEEDED"
      BY <1>1 DEF SeenIsTrue, View
    <2>1. CASE o = s
      BY <2>1, <1>2, AggregateIsTrue DEF Read
    <2>2. CASE o # s
      BY <2>2, <1>2 DEF SeenIsTrue, Open
    <2>3. QED
      BY <2>1, <2>2
  <1>6. HeldOnce'
    <2>1. \A o \in Session : tx[o].rows \cap S = {}
      BY DEF Begin, Free
    <2>2. QED
      BY <2>1, <1>2 DEF HeldOnce
  <1>7. OwnersAreRunning'
    BY <1>1, <1>2 DEF OwnersAreRunning, Open
  <1>8. QED
    BY <1>3, <1>4, <1>5, <1>6, <1>7

LEMMA BeginsKeepInv ==
  ASSUME AggregateInv, NEW s \in Session,
         \/ Expire(s)
         \/ \E t \in Target : Finalize(s, t) \/ FinalizeLate(s, t)
  PROVE  AggregateInv'
  <1>1. CASE Expire(s)
    <2>1. PICK S \in SUBSET {t \in Target : /\ status[t] = "WAITING_FOR_REAUTH"
                                            /\ job[t] = "queued"} :
                  Begin(s, S, "FAILED", TRUE)
      BY <1>1 DEF Expire
    <2>2. S \in SUBSET Target /\ "FAILED" \in TargetStatus
      BY DEF TargetStatus
    <2>3. QED
      BY <2>1, <2>2, BeginKeepsInv
  <1>2. ASSUME NEW t \in Target, Finalize(s, t) PROVE AggregateInv'
    <2>1. PICK to \in TargetStatus : Begin(s, {t}, to, TRUE)
      BY <1>2 DEF Finalize, Kept, TargetStatus
    <2>2. {t} \in SUBSET Target /\ \A u \in {t} : status[u] # "SUCCEEDED"
      BY <1>2 DEF Finalize, AggregateInv, OwnersAreRunning
    <2>3. QED
      BY <2>1, <2>2, BeginKeepsInv
  <1>3. ASSUME NEW t \in Target, FinalizeLate(s, t) PROVE AggregateInv'
    BY <1>3, BeginKeepsInv DEF FinalizeLate, TargetStatus
  <1>4. QED
    BY <1>1, <1>2, <1>3

-----------------------------------------------------------------------------
(* No commit takes a success back.                                         *)
LEMMA CommitKeepsSuccess ==
  ASSUME AggregateInv, NEW s \in Session, Commit(s), NEW t \in Target,
         status[t] = "SUCCEEDED"
  PROVE  status'[t] = "SUCCEEDED"
  BY ViewSuccess DEF Commit, AggregateInv, OwnersAreRunning, Open

(* What the other sessions have read stays true when one commits.          *)
LEMMA CommitKeepsViews ==
  ASSUME AggregateInv, NEW s \in Session, Commit(s), NEW o \in Session, o # s,
         NEW t \in Target, View(tx[o].rows, tx[o].to)[t] = "SUCCEEDED"
  PROVE  View(tx[o].rows, tx[o].to)'[t] = "SUCCEEDED"
  <1>1. tx'[o] = tx[o]
    BY DEF Commit, AggregateInv, TypeOK
  <1>2. status[t] = "SUCCEEDED" => status'[t] = "SUCCEEDED"
    BY CommitKeepsSuccess
  <1>3. QED
    BY <1>1, <1>2 DEF View

LEMMA CommitKeepsInv ==
  ASSUME AggregateInv, NEW s \in Session, Commit(s)
  PROVE  AggregateInv'
  <1> USE DEF AggregateInv
  <1>1. tx[s] \in Finalization
    BY DEF TypeOK
  <1>2. /\ tx'[s] = Idle
        /\ \A o \in Session \ {s} : tx'[o] = tx[o]
    BY DEF Commit, TypeOK
  <1>3. TypeOK'
    <2>1. Idle \in Finalization
      BY DEF Idle, Finalization, TargetStatus, RevStatus
    <2>2. status' \in [Target -> TargetStatus]
      BY <1>1, ViewType DEF Commit, Finalization
    <2>3. job' \in [Target -> {"none", "queued", "running"}]
      BY DEF Commit, JobAfter, TypeOK
    <2>4. rev' \in RevStatus /\ late' \subseteq Target
      BY <1>1 DEF Commit, TypeOK, Finalization
    <2>5. tx' \in [Session -> Finalization]
      BY <2>1 DEF Commit, TypeOK
    <2>6. QED
      BY <2>2, <2>3, <2>4, <2>5 DEF TypeOK
  <1>4. PublishedIsTrue' /\ PartialIsTrue'
    BY DEF Commit, SeenIsTrue, PublishedIsTrue, PartialIsTrue
  <1>5. SeenIsTrue'
    <2> SUFFICES ASSUME NEW o \in Session, Open(o)'
        PROVE /\ tx'[o].seen = "PUBLISHED" =>
                   \A t \in Target :
                      View(tx[o].rows, tx[o].to)'[t] = "SUCCEEDED"
              /\ tx'[o].seen = "PARTIALLY_PUBLISHED" =>
                   \E t \in Target :
                      View(tx[o].rows, tx[o].to)'[t] = "SUCCEEDED"
      BY DEF SeenIsTrue
    <2>1. o # s /\ tx'[o] = tx[o] /\ Open(o)
      BY <1>2 DEF Open, Idle
    <2>2. QED
      BY <2>1, CommitKeepsViews DEF SeenIsTrue
  <1>6. HeldOnce'
    BY <1>2 DEF HeldOnce, Idle
  <1>7. OwnersAreRunning'
    <2>1. \A t \in Target : job'[t] = "running" => status'[t] # "SUCCEEDED"
      <3> SUFFICES ASSUME NEW t \in Target, job'[t] = "running"
                   PROVE  status'[t] # "SUCCEEDED"
        OBVIOUS
      <3>1. job[t] = "running" /\ ~(tx[s].owns /\ t \in tx[s].rows)
        BY DEF Commit, JobAfter
      <3>2. status[t] # "SUCCEEDED"
        BY <3>1 DEF OwnersAreRunning
      <3>3. CASE t \notin tx[s].rows
        BY <3>2, <3>3, ViewSuccess DEF Commit
      <3>4. CASE t \in tx[s].rows
        <4>1. tx[s].to = "CANCELLED"
          BY <3>1, <3>4 DEF OwnersAreRunning, Commit
        <4>2. QED
          BY <3>2, <4>1, ViewSuccess DEF Commit
      <3>5. QED
        BY <3>3, <3>4
    <2>2. ASSUME NEW o \in Session, NEW t \in tx'[o].rows, tx'[o].owns
          PROVE  status'[t] # "SUCCEEDED"
      <3>1. o # s /\ tx'[o] = tx[o]
        BY <1>2, <2>2 DEF Idle
      <3>2. t \in Target /\ t \notin tx[s].rows
        BY <3>1, <2>2 DEF HeldOnce, TypeOK, Finalization
      <3>3. status[t] # "SUCCEEDED"
        BY <3>1, <2>2 DEF OwnersAreRunning
      <3>4. QED
        BY <3>2, <3>3, ViewSuccess DEF Commit
    <2>3. \A o \in Session :
             ~tx'[o].owns => tx'[o].to = "CANCELLED" \/ ~Open(o)'
      BY <1>2 DEF OwnersAreRunning, Open, Idle
    <2>4. QED
      BY <2>1, <2>2, <2>3 DEF OwnersAreRunning
  <1>8. QED
    BY <1>3, <1>4, <1>5, <1>6, <1>7

LEMMA AbortKeepsInv ==
  ASSUME AggregateInv, NEW s \in Session, Abort(s)
  PROVE  AggregateInv'
  <1> USE DEF AggregateInv
  <1>1. /\ tx'[s] = Idle
        /\ \A o \in Session \ {s} : tx'[o] = tx[o]
        /\ UNCHANGED <<rev, status, job, late>>
    BY DEF Abort, TypeOK
  <1>2. TypeOK'
    BY <1>1 DEF Abort, TypeOK, Idle, Finalization, TargetStatus, RevStatus
  <1>3. PublishedIsTrue' /\ PartialIsTrue' /\ HeldOnce' /\ OwnersAreRunning'
    BY <1>1 DEF PublishedIsTrue, PartialIsTrue, HeldOnce, OwnersAreRunning,
                Open, Idle
  <1>4. SeenIsTrue'
    BY <1>1 DEF SeenIsTrue, View, Open, Idle
  <1>5. QED
    BY <1>2, <1>3, <1>4

-----------------------------------------------------------------------------
LEMMA NextKeepsInv == AggregateInv /\ [Next]_vars => AggregateInv'
  <1> SUFFICES ASSUME AggregateInv, [Next]_vars PROVE AggregateInv'
    OBVIOUS
  <1>1. TypeOK
    BY DEF AggregateInv
  <1>2. CASE Publish
    BY <1>1, <1>2, StartIsQuiet, QuietKeepsInv DEF Publish
  <1>3. CASE Cancel
    BY <1>1, <1>3, CancelIsQuiet, QuietKeepsInv
  <1>4. CASE Supersede
    BY <1>1, <1>4, SupersedeIsQuiet, QuietKeepsInv
  <1>5. ASSUME NEW S \in SUBSET Target, Retry(S) PROVE AggregateInv'
    BY <1>1, <1>5, StartIsQuiet, QuietKeepsInv DEF Retry
  <1>6. ASSUME NEW S \in SUBSET Target, Fence(S) PROVE AggregateInv'
    BY <1>1, <1>6, FenceIsQuiet, QuietKeepsInv
  <1>7. ASSUME NEW t \in Target, TargetStep(t) PROVE AggregateInv'
    BY <1>7, TargetStepIsQuiet, QuietKeepsInv
  <1>8. ASSUME NEW s \in Session, SessionStep(s) PROVE AggregateInv'
    BY <1>8, BeginsKeepInv, CommitKeepsInv, AbortKeepsInv DEF SessionStep
  <1>9. CASE UNCHANGED vars
    <2>1. Quiet
      BY <1>1, <1>9 DEF vars, Quiet, TypeOK
    <2>2. QED
      BY <2>1, QuietKeepsInv
  <1>10. QED
    BY <1>2, <1>3, <1>4, <1>5, <1>6, <1>7, <1>8, <1>9 DEF Next

(* The invariant of overlapping finalizations.                             *)
THEOREM AggregateInvariant == Spec => []AggregateInv
  BY InitInv, NextKeepsInv, PTL DEF Spec

(* A revision that shows PUBLISHED has every target published, however     *)
(* many finalizations, commands and fences overlap                         *)
(* (recomputeContentAggregate).                                            *)
THEOREM PublishedIsAlwaysTrue == Spec => []PublishedIsTrue
  <1>1. AggregateInv => PublishedIsTrue
    BY DEF AggregateInv
  <1>2. QED
    BY <1>1, AggregateInvariant, PTL

(* A revision that shows PARTIALLY_PUBLISHED has a published target.       *)
THEOREM PartialIsAlwaysTrue == Spec => []PartialIsTrue
  <1>1. AggregateInv => PartialIsTrue
    BY DEF AggregateInv
  <1>2. QED
    BY <1>1, AggregateInvariant, PTL

(* The run's property, from the two before.                                *)
THEOREM ShownIsAlwaysTrue == Spec => []ShownIsTrue
  <1>1. PublishedIsTrue /\ PartialIsTrue => ShownIsTrue
    BY DEF ShownIsTrue
  <1>2. QED
    BY <1>1, PublishedIsAlwaysTrue, PartialIsAlwaysTrue, PTL
=============================================================================
