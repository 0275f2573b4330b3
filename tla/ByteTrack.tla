------------------------------ MODULE ByteTrack ------------------------------
(***************************************************************************)
(* The life of tracks in ByteTracker (contrib/bytetrack/bytetrack_npu/     *)
(* tracker.py).  Boxes and scores are abstracted to what they decide: any  *)
(* matching may be the cheapest one, any tracked and lost track may        *)
(* overlap, and a detection is low, high, or high enough for a new track.  *)
(* Each of the three assignments of an update may raise; what the code did *)
(* before stays done.                                                      *)
(***************************************************************************)
EXTENDS Maybe, SequencesExt

CONSTANTS MaxRows,       \* MAX_ROWS of the assignment kernel
          MaxColumns,    \* MAX_COLUMNS
          MaxTimeLost,   \* ByteTracker.max_time_lost
          MaxFrame,      \* bound on the frames
          MaxTracks,     \* bound on the track ids
          MaxDetections  \* bound on the detections of a kind in a frame

ASSUME ByteTrackAssumption == MaxRows \in Nat /\ MaxColumns \in Nat /\ MaxTimeLost \in Nat /\ MaxDetections \in Nat

VARIABLES frame,         \* frame_id
          tracks,        \* every Track that was activated, by id
          tracked, lost, removed,  \* the lists of ids
          raised,        \* whether the last update raised
          duplicates     \* ids that the last update dropped as duplicates

tvars == <<frame, tracks, tracked, lost, removed, raised, duplicates>>

\* Track.activate, Track.update and Track.reactivate.
NewTrack(now) == [state |-> "TRACKED", activated |-> now = 1, frame |-> now, start |-> now]
Consume(t, now) == [t EXCEPT !.state = "TRACKED", !.activated = TRUE, !.frame = now]

TInit ==
  /\ frame = 0 /\ tracks = <<>> /\ tracked = <<>> /\ lost = <<>> /\ removed = <<>>
  /\ raised = FALSE /\ duplicates = {}

\* _join and _subtract
Join(first, second) ==
  LET all == first \o second IN Picked(all, {k \in DOMAIN all : \A j \in 1..(k - 1) : all[j] # all[k]})
Subtract(first, second) == Picked(first, {k \in DOMAIN first : first[k] \notin Range(second)})

\* Results of an assignment: for each row the matched column, or 0.
Matchings(rows, columns) ==
  {m \in [1..rows -> 0..columns] : \A i, j \in 1..rows : i # j /\ m[i] = m[j] => m[i] = 0}

MatchedRows(rows, m) == Picked(rows, {k \in DOMAIN rows : m[k] # 0})
UnmatchedRows(rows, m) == Picked(rows, {k \in DOMAIN rows : m[k] = 0})
UnmatchedColumns(columns, m) == Picked(columns, {k \in DOMAIN columns : k \notin Range(m)})

Marked(all, ids, f(_)) == [id \in DOMAIN all |-> IF id \in Range(ids) THEN f(all[id]) ELSE all[id]]
Consumed(all, ids, now) == Marked(all, ids, LAMBDA t : Consume(t, now))
SetState(all, ids, state) == Marked(all, ids, LAMBDA t : [t EXCEPT !.state = state])
WithState(all, ids, state) == Picked(ids, {k \in DOMAIN ids : all[ids[k]].state = state})

\* An exception: the tracks changed so far stay changed, the lists do not.
Raise(now, all) ==
  /\ frame' = now /\ tracks' = all /\ raised' = TRUE /\ duplicates' = {}
  /\ UNCHANGED <<tracked, lost, removed>>

Age(all, id) == all[id].frame - all[id].start

\* _remove_duplicates: of two that overlap the older one stays.
RemoveDuplicates(all, first, second, overlap) ==
  LET older == {p \in overlap : Age(all, p[1]) > Age(all, p[2])}
  IN <<Picked(first, {k \in DOMAIN first : \A p \in overlap \ older : p[1] # first[k]}),
       Picked(second, {k \in DOMAIN second : \A p \in older : p[2] # second[k]})>>

Expired_at_limit(all, now) == Picked(lost, {k \in DOMAIN lost : now - all[lost[k]].frame >= MaxTimeLost})
Expired(all, now) == Picked(lost, {k \in DOMAIN lost : now - all[lost[k]].frame > MaxTimeLost})

\* At most one pair overlaps (bound).
Overlaps(first, second) == {{}} \cup {{p} : p \in Range(first) \X Range(second)}

\* A track that was found again stays in the list of lost tracks.
Away_lost_kept(still, newlyLost, gone) == Subtract(lost \o newlyLost, gone)

Away(still, newlyLost, gone) == Subtract(Subtract(lost, still) \o newlyLost, gone)

\* The end of update(): the lists are made anew.  New tracks get the next ids.
Finish(now, all, activated, refound, newlyLost, unmatched, started) ==
  LET fresh == [k \in 1..started |-> Len(all) + k]
      everyone == all \o [k \in 1..started |-> NewTrack(now)]
      gone == unmatched \o Expired(all, now)
      final == SetState(everyone, gone, "REMOVED")
      still == Join(Join(WithState(final, tracked, "TRACKED"), activated \o fresh), refound)
      away == Away(still, newlyLost, gone)
  IN \E overlap \in Overlaps(still, away) :
       LET both == RemoveDuplicates(final, still, away, overlap)
       IN /\ frame' = now /\ tracks' = final /\ raised' = FALSE
          /\ tracked' = both[1] /\ lost' = both[2] /\ removed' = removed \o gone
          /\ duplicates' = (Range(still) \ Range(both[1])) \cup (Range(away) \ Range(both[2]))

\* The unconfirmed tracks against the high detections that are left; those
\* that nothing matches start new tracks.
MatchUnconfirmed(now, all, hit, hit2, newlyLost, left) ==
  LET unconfirmed == Picked(tracked, {k \in DOMAIN tracked : ~tracks[tracked[k]].activated})
  IN \/ Raise(now, all)
     \/ /\ Len(unconfirmed) <= MaxRows
        /\ \E third \in Matchings(Len(unconfirmed), Len(left)) :
             LET hit3 == MatchedRows(unconfirmed, third)
                 started == Cardinality({k \in DOMAIN left : left[k] /\ k \notin Range(third)})
             IN /\ Len(tracks) + started <= MaxTracks
                /\ Finish(now, Consumed(all, hit3, now), WithState(tracks, hit, "TRACKED") \o hit2 \o hit3,
                          Picked(hit, {k \in DOMAIN hit : tracks[hit[k]].state # "TRACKED"}),
                          newlyLost, UnmatchedRows(unconfirmed, third), started)

\* The tracks that are still unmatched against the low detections.
MatchLow(now, all, hit, rest, low, left) ==
  \/ Raise(now, all)
  \/ \E second \in Matchings(Len(rest), low) :
       LET hit2 == MatchedRows(rest, second)
           newlyLost == UnmatchedRows(rest, second)
       IN MatchUnconfirmed(now, SetState(Consumed(all, hit2, now), newlyLost, "LOST"), hit, hit2, newlyLost, left)

\* update(): the confirmed and lost tracks against the high detections, then
\* the other two assignments.  high[k] says whether detection k may start a track.
Update(high, low) ==
  LET now == frame + 1
      confirmed == Picked(tracked, {k \in DOMAIN tracked : tracks[tracked[k]].activated})
      pool == Join(confirmed, lost)
  IN /\ frame < MaxFrame
     /\ \/ Raise(now, tracks)            \* too many detections or rows, or the backend raised
        \/ /\ Len(high) <= MaxColumns /\ low <= MaxColumns /\ Len(pool) <= MaxRows
           /\ \E first \in Matchings(Len(pool), Len(high)) :
                LET hit == MatchedRows(pool, first)
                    all == Consumed(tracks, hit, now)
                IN MatchLow(now, all, hit, WithState(all, UnmatchedRows(pool, first), "TRACKED"), low,
                            UnmatchedColumns(high, first))

TNext == \E n \in 0..MaxDetections, low \in 0..MaxDetections : \E high \in [1..n -> BOOLEAN] : Update(high, low)

TSpec == TInit /\ [][TNext]_tvars

-----------------------------------------------------------------------------
\* After an update that returned, whatever earlier ones raised, the lists of
\* tracked and lost tracks are disjoint, every track is in the list of its
\* state and none of them was removed before (tracker.py:322).
ListsConsistent ==
  ~raised =>
    /\ Range(tracked) \cap Range(lost) = {}
    /\ \A id \in Range(tracked) : tracks[id].state = "TRACKED"
    /\ \A id \in Range(lost) : tracks[id].state = "LOST"
    /\ (Range(tracked) \cup Range(lost)) \cap Range(removed) = {}
    /\ IsInjective(tracked)

\* No track disappears: unless the update before raised, a track that is
\* tracked or lost stays so, or is removed, or overlapped another; a confirmed
\* track is removed only after it was lost for longer than max_time_lost
\* (tracker.py:316).
NoTrackLost ==
  [][~raised /\ ~raised' =>
       /\ Range(tracked) \cup Range(lost) \subseteq
            Range(tracked') \cup Range(lost') \cup Range(removed') \cup duplicates'
       /\ \A id \in Range(removed') \ Range(removed) :
            \/ id \in Range(tracked) /\ ~tracks[id].activated
            \/ id \in Range(lost) /\ frame' - tracks[id].frame > MaxTimeLost]_tvars
=============================================================================
