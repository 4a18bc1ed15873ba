----------------------------- MODULE ZoneTracks -----------------------------
(***************************************************************************)
(* Sticky zone tracks (src/trading/zone_tracks.py).  Every closed 4h bar   *)
(* the detector reports a new ladder of support bands; this layer decides  *)
(* which of them are published.  A band has to be seen twice to appear,    *)
(* misses three snapshots to go, yields to a challenger that wins twice,   *)
(* and moves only to a level printed twice.                                *)
(*                                                                         *)
(* A zone is abstracted to its band: its bounds and its family (source     *)
(* timeframe and bounds style).  The detector may report any ladder whose  *)
(* bands keep the distance it leaves them, and score it as it likes:       *)
(* module PublishedLadder joins it to this one.                            *)
(***************************************************************************)
EXTENDS Integers, Sequences, FiniteSets, SequencesExt

CONSTANTS
  Band,              \* records [low, high, family], the bands ever reported
  Scores,            \* the detector's scores of the bands, one function a snapshot
  EdgeGap, MidGap,   \* two bands closer than this are one ladder step
  LadderEdge, LadderMid,  \* the bands of one snapshot are at least this far apart
  ActivateConfirms, RetireMisses, ReplaceConfirms,
  Memory,            \* snapshots the history variable remembers
  None

ASSUME ConfirmsAssumption ==
  /\ {ActivateConfirms, RetireMisses, ReplaceConfirms} \subseteq Nat \ {0, 1}
  /\ Memory \in Nat /\ RetireMisses < Memory
ASSUME GapAssumption ==
  {EdgeGap, LadderEdge} \subseteq Nat \ {0} /\ {MidGap, LadderMid} \subseteq Nat
ASSUME BandAssumption == \A b \in Band : b.low \in Int /\ b.high \in Int /\ b.low <= b.high
ASSUME ScoreAssumption == Scores \subseteq [Band -> Int]
ASSUME NoneAssumption == None \notin Band

VARIABLES
  tracks,        \* ZoneTrackState.tracks, in the order of the list
  bootstrapped,
  recent         \* history: the last snapshots since the bootstrap

vars == <<tracks, bootstrapped, recent>>

(***************************************************************************)
(* Geometry of the ladder.                                                 *)
(***************************************************************************)
TwiceMid(b) == b.low + b.high

Distance(a, b) == LET d == TwiceMid(a) - TwiceMid(b) IN IF d < 0 THEN -d ELSE d

Gap(a, b) == IF a.low <= b.low THEN b.low - a.high ELSE a.low - b.high

ShareSlot(a, b) == Gap(a, b) < EdgeGap \/ Distance(a, b) < 2 * MidGap

\* _enforce_support_zone_spacing and the gap fill: the bands of a snapshot keep
\* their distance, which can be less than a step where a gap was filled.
Apart(a, b) == Gap(a, b) >= LadderEdge /\ Distance(a, b) >= 2 * LadderMid

Snapshot == {s \in SUBSET Band : IsFiniteSet(s) /\ \A a, b \in s : a # b => Apart(a, b)}

\* A finite set in an order that tells its members apart.
InOrder(S, Before(_, _)) ==
  [k \in 1 .. Cardinality(S) |-> CHOOSE x \in S : Cardinality({y \in S : Before(y, x)}) = k - 1]

(***************************************************************************)
(* A track.  `zone` is its matching_zone: the published band of an active  *)
(* track, the last candidate of a pending one.  Its id is a hash of the    *)
(* first band and family, so the band stands for it.                       *)
(***************************************************************************)
Track == [id : Band, zone : Band, active : BOOLEAN, appear : 1 .. ActivateConfirms,
          miss : 0 .. RetireMisses - 1,
          moving : Band \union {None}, prints : 0 .. ReplaceConfirms - 1,
          challenger : Band \union {None}, wins : 0 .. ReplaceConfirms - 1]

NewTrack(b, isActive) ==
  [id |-> b, zone |-> b, active |-> isActive,
   appear |-> IF isActive THEN ActivateConfirms ELSE 1, miss |-> 0,
   moving |-> None, prints |-> 0, challenger |-> None, wins |-> 0]

Publish(t, b) == [t EXCEPT !.zone = b, !.moving = None, !.prints = 0]

Confirmed(t) == t.appear + 1 >= ActivateConfirms

\* Seeded fault: a band moves with its first print.
MoveAtOnce(t, b) == Publish(t, b)

Move(t, b) ==
  IF t.zone = b THEN Publish(t, b)
  ELSE IF t.moving # b THEN [t EXCEPT !.moving = b, !.prints = 1]
  ELSE IF t.prints + 1 >= ReplaceConfirms THEN Publish(t, b)
  ELSE [t EXCEPT !.prints = @ + 1]

\* Seeded fault: a match does not end the count of misses.
OnMatchKeepsMisses(t, b) == Move([t EXCEPT !.challenger = None, !.wins = 0], b)

OnMatch(t, b) ==
  LET seen == [t EXCEPT !.miss = 0, !.challenger = None, !.wins = 0] IN
  IF t.active THEN Move(seen, b)
  ELSE IF Confirmed(t)
    THEN Publish([seen EXCEPT !.appear = @ + 1, !.active = TRUE], b)
    ELSE [seen EXCEPT !.appear = @ + 1, !.zone = b]

\* What is left of a track: itself, its successor, or nothing.
OnChallenger(t, b) ==
  LET wins == IF t.challenger = b THEN t.wins + 1 ELSE 1 IN
  IF wins >= ReplaceConfirms THEN <<NewTrack(b, TRUE)>>
  ELSE IF t.miss + 1 >= RetireMisses THEN <<>>
  ELSE <<[t EXCEPT !.miss = @ + 1, !.challenger = b, !.wins = wins]>>

\* Seeded fault: retirement comes one miss late.
OnMissRetiresLate(t) ==
  IF ~t.active \/ t.miss + 1 > RetireMisses THEN <<>>
  ELSE <<[t EXCEPT !.miss = @ + 1, !.challenger = None, !.wins = 0,
                   !.moving = None, !.prints = 0]>>

\* Seeded fault: a pending track survives a miss, like an active one.
OnMissKeepsPending(t) ==
  IF t.miss + 1 >= RetireMisses THEN <<>>
  ELSE <<[t EXCEPT !.miss = @ + 1, !.challenger = None, !.wins = 0,
                   !.moving = None, !.prints = 0]>>

OnMiss(t) ==
  IF ~t.active \/ t.miss + 1 >= RetireMisses THEN <<>>
  ELSE <<[t EXCEPT !.miss = @ + 1, !.challenger = None, !.wins = 0,
                   !.moving = None, !.prints = 0]>>

(***************************************************************************)
(* _assign_candidates: active tracks choose before pending ones, each low  *)
(* to high; what no track takes challenges the closest active track that   *)
(* found nothing, and the rest become pending tracks.                      *)
(***************************************************************************)
MatchOrder(ts) ==
  LET Before(i, j) ==
        \/ ts[i].active /\ ~ts[j].active
        \/ /\ ts[i].active = ts[j].active
           /\ \/ TwiceMid(ts[i].zone) < TwiceMid(ts[j].zone)
              \/ TwiceMid(ts[i].zone) = TwiceMid(ts[j].zone) /\ i < j
  IN InOrder(DOMAIN ts, Before)

LowToHigh(bands) == InOrder(bands, LAMBDA a, b : a.low < b.low)

\* Ties go to the higher score, then to the lower band.
Nearest(t, bands, score) ==
  CHOOSE b \in bands : \A c \in bands :
    \/ Distance(b, t.zone) < Distance(c, t.zone)
    \/ /\ Distance(b, t.zone) = Distance(c, t.zone)
       /\ score[b] > score[c] \/ (score[b] = score[c] /\ b.low <= c.low)

\* A track takes the nearest candidate of its family in its step that is left.
Take(ts, snapshot, score, taken, i) ==
  LET fits == {b \in snapshot \ Range(taken) :
                 b.family = ts[i].id.family /\ ShareSlot(ts[i].zone, b)}
  IN  IF fits = {} THEN taken ELSE [taken EXCEPT ![i] = Nearest(ts[i], fits, score)]

\* The candidate each track takes, None for the tracks that find none.
Matches(ts, snapshot, score) ==
  FoldLeft(LAMBDA taken, i : Take(ts, snapshot, score, taken, i), [i \in DOMAIN ts |-> None],
           MatchOrder(ts))

\* A candidate no track took faces the closest unmatched active track.
Face(ts, matched, faced, b) ==
  LET open == {i \in DOMAIN ts : /\ ts[i].active
                                 /\ matched[i] = None /\ faced[i] = None
                                 /\ ShareSlot(ts[i].zone, b)}
      closest == CHOOSE i \in open : \A j \in open :
                   \/ Distance(ts[i].zone, b) < Distance(ts[j].zone, b)
                   \/ Distance(ts[i].zone, b) = Distance(ts[j].zone, b) /\ i <= j
  IN  IF open = {} THEN faced ELSE [faced EXCEPT ![closest] = b]

\* The challenger each unmatched active track faces, None for the others.
Challengers(ts, matched, snapshot) ==
  FoldLeft(LAMBDA faced, b : Face(ts, matched, faced, b), [i \in DOMAIN ts |-> None],
           LowToHigh(snapshot \ Range(matched)))

\* What is left of a track that a candidate matched, a rival challenged, or neither.
After(t, candidate, rival) ==
  IF candidate # None THEN <<OnMatch(t, candidate)>>
  ELSE IF rival # None THEN OnChallenger(t, rival)
  ELSE OnMiss(t)

Advanced(ts, snapshot, score) ==
  LET matched == Matches(ts, snapshot, score)
      faced == Challengers(ts, matched, snapshot)
      leftovers == LowToHigh(snapshot \ (Range(matched) \union Range(faced)))
  IN FlattenSeq([i \in DOMAIN ts |-> After(ts[i], matched[i], faced[i])])
       \o [k \in DOMAIN leftovers |-> NewTrack(leftovers[k], FALSE)]

(***************************************************************************)
(* One step per closed 4h bar.  A gap in the bars starts afresh.           *)
(***************************************************************************)
Init == tracks = <<>> /\ bootstrapped = FALSE /\ recent = <<>>

Bootstrap(snapshot) ==
  LET ladder == LowToHigh(snapshot) IN
  /\ tracks' = [k \in DOMAIN ladder |-> NewTrack(ladder[k], TRUE)]
  /\ bootstrapped' = TRUE
  /\ recent' = <<snapshot>>

Advance(snapshot, score) ==
  /\ bootstrapped
  /\ tracks' = Advanced(tracks, snapshot, score)
  /\ recent' = LET all == Append(recent, snapshot)
               IN IF Len(all) > Memory THEN Tail(all) ELSE all
  /\ UNCHANGED bootstrapped

Next ==
  \E snapshot \in Snapshot :
    Bootstrap(snapshot) \/ \E score \in Scores : Advance(snapshot, score)

Spec == Init /\ [][Next]_vars
(***************************************************************************)
(* Properties.                                                             *)
(***************************************************************************)
TypeOK ==
  /\ \A k \in DOMAIN tracks : tracks[k] \in Track
  /\ bootstrapped \in BOOLEAN
  /\ Len(recent) <= Memory /\ \A k \in DOMAIN recent : recent[k] \in Snapshot

Published(ts) == {k \in DOMAIN ts : ts[k].active}

Ladder(ts) == {ts[k].zone : k \in Published(ts)}

\* The UNIQUE constraint of `zones`: no two published shelves share an id, so
\* that a ladder can be stored and a cooldown names one shelf.
UniqueFingerprints ==
  \A j, k \in Published(tracks) : j # k => tracks[j].id # tracks[k].id

\* A step that is not a bootstrap, which leaves one snapshot.
Steps == Len(recent') > 1

\* A published shelf stands for the levels in its step.
Stands(ts, b) == \E k \in Published(ts) : ShareSlot(ts[k].zone, b)

\* A track that is not yet on the ladder is at b.
Waits(ts, b) == \E k \in DOMAIN ts \ Published(ts) : ts[k].zone = b

\* A shelf that comes on the ladder was already there one snapshot earlier:
\* some candidate of its family printed in its step, or a rival printed twice.
\* And a level that no shelf stood for does come on, or waits for its second
\* print: it never waits twice.
AppearsTwice ==
  [][Steps =>
       /\ \A k \in Published(tracks') : LET t == tracks'[k] IN
            (\A j \in Published(tracks) : tracks[j].id # t.id) =>
              /\ t.zone \in Last(recent')
              /\ \E b \in Last(recent) : b.family = t.id.family /\ ShareSlot(b, t.zone)
       /\ \A b \in Last(recent') :
            \/ Stands(tracks, b) \/ Stands(tracks', b)
            \/ Waits(tracks', b) /\ ~Waits(tracks, b)]_vars

\* A published band moves only to a level printed now and once before, while
\* the track was on the ladder: a single touch cannot drag it.  Its id names
\* the shelf as long as no other track, published or waiting, has it.
MovesToPrintedLevel ==
  [][Steps =>
       \A j \in Published(tracks), k \in Published(tracks') :
         /\ tracks[j].id = tracks'[k].id /\ tracks[j].zone # tracks'[k].zone
         /\ \A i \in DOMAIN tracks \ {j} : tracks[i].id # tracks[j].id
         => /\ tracks'[k].zone \in Last(recent')
            /\ \E i \in DOMAIN recent : tracks'[k].zone \in recent[i]]_vars

\* Printed(b, i): the detector reported b in the i-th last snapshot.
Printed(b, i) == Len(recent') > i /\ b \in recent'[Len(recent') - i]

\* A shelf leaves the ladder only for a rival printed twice running in its
\* step, or after its band was missing from three snapshots in a row; unless
\* another shelf of its family has drifted into its step and takes its prints.
\* And it does leave once three snapshots printed nothing of its family there.
LeavesAfterAbsence ==
  [][Steps =>
       /\ \A j \in Published(tracks) : LET t == tracks[j] IN
            (\A k \in Published(tracks') : tracks'[k].id # t.id) =>
              \/ \E b \in Ladder(tracks') : ShareSlot(b, t.zone) /\ Printed(b, 0) /\ Printed(b, 1)
              \/ /\ Len(recent') > RetireMisses
                 /\ \A i \in 0 .. RetireMisses - 1 : ~Printed(t.zone, i)
              \/ \E k \in Published(tracks) \ {j} :
                   tracks[k].id.family = t.id.family /\ ShareSlot(tracks[k].zone, t.zone)
       /\ \A k \in Published(tracks') : \E i \in 0 .. RetireMisses - 1, b \in Band :
            /\ Printed(b, i) /\ b.family = tracks'[k].id.family
            /\ ShareSlot(tracks'[k].zone, b)]_vars

=============================================================================
