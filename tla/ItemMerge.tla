----------------------------- MODULE ItemMerge -----------------------------
(* The merge of two versions of one owned planner item: the stamped fields  *)
(* of packages/core/src/sync/stamped.ts and mergeOwnedItem of               *)
(* packages/core/src/planner/itemMerge.ts. Of an item's fields the model    *)
(* keeps one text (title), the completion flag, the tombstone, the conflict *)
(* markers and the two kinds of decision a person can record about them.    *)
EXTENDS HybridClock

NoText == "none"

NoConflict == [ours |-> NoText, theirs |-> NoText, oursAt |-> NoStamp, theirsAt |-> NoStamp]

\* An item this replica has never seen.
NoItem ==
    [title    |-> [v |-> NoText, at |-> NoStamp, seen |-> {}],
     done     |-> [v |-> FALSE, at |-> NoStamp],
     del      |-> NoStamp,
     titleRes |-> NoStamp,
     delRes   |-> [deleted |-> FALSE, at |-> NoStamp],
     cTitle   |-> NoConflict,
     cDel     |-> NoConflict]

Known(item) == item.title.at # NoStamp

\* causalFrontier: the newest stamp of every device.
CausalFrontier(S) == {s \in S : \A r \in S : r.d = s.d => ~After(r, s)}

\* causalValue: a text stamped with what it was derived from.
CausalValue(v, at, previous) ==
    [v |-> v, at |-> at,
     seen |-> CausalFrontier(UNION {{x.at} \cup x.seen : x \in previous})]

\* observes: the edit was made by, or after seeing, the event.
Observes(edit, event) ==
    \E s \in {edit.at} \cup edit.seen : s.d = event.d /\ ~After(event, s)

\* Faulty variant of MergeText: this replica's text wins a concurrent edit.
MergeTextOurs(ours, theirs) ==
    [value |-> IF Observes(theirs, ours.at) THEN theirs ELSE ours, conflict |-> NoConflict]

\* mergeText, for texts that carry a causal frontier (every planner edit does).
MergeText(ours, theirs) ==
    LET winner == IF After(theirs.at, ours.at) THEN theirs ELSE ours
        theirsSaw == Observes(theirs, ours.at)
        oursSaw == Observes(ours, theirs.at)
        plain(x) == [value |-> x, conflict |-> NoConflict]
    IN  CASE ours.v = theirs.v ->
               plain([winner EXCEPT !.seen =
                   CausalFrontier({ours.at, theirs.at} \cup ours.seen \cup theirs.seen)])
          [] ours.v # theirs.v /\ ours.at = theirs.at -> plain(ours)
          [] ours.v # theirs.v /\ ours.at # theirs.at /\ theirsSaw # oursSaw ->
               plain(IF theirsSaw THEN theirs ELSE ours)
          [] OTHER ->
               [value |-> winner,
                conflict |-> [ours |-> ours.v, theirs |-> theirs.v,
                              oursAt |-> ours.at, theirsAt |-> theirs.at]]

\* mergeResolutionAwareText: two recorded decisions are ordered by stamp alone.
MergeTitle(o, t) ==
    IF o.title.at = o.titleRes /\ t.title.at = t.titleRes
    THEN [value |-> IF After(t.titleRes, o.titleRes) THEN t.title ELSE o.title,
          conflict |-> NoConflict]
    ELSE MergeText(o.title, t.title)

\* mergeCompletion: the later write, and `true` when the clocks are equal
\* (the device is not consulted). An absent flag gives way to the other.
MergeCompletion(ours, theirs) ==
    LET sameClock == ours.at.p = theirs.at.p /\ ours.at.l = theirs.at.l
    IN  IF sameClock
        THEN IF ours.v THEN ours ELSE theirs
        ELSE IF After(theirs.at, ours.at) THEN theirs ELSE ours

\* clearResolvedConflict: a marker older than the decision on both sides goes.
Settled(resolution, conflict) ==
    /\ resolution # NoStamp
    /\ After(resolution, conflict.oursAt)
    /\ After(resolution, conflict.theirsAt)

\* mergeOwnedItem. `edited` is resolveTombstone's delete-versus-edit outcome,
\* `decided` says that the later deletionResolution covers what is left of it.
MergeItem(o, t) ==
    LET title   == MergeTitle(o, t)
        res     == Later(o.titleRes, t.titleRes)
        marker  == IF title.conflict # NoConflict THEN title.conflict
                   ELSE IF t.cTitle # NoConflict THEN t.cTitle ELSE o.cTitle
        newest  == Latest({title.value.at, o.done.at, t.title.at, t.done.at})
        tomb    == Later(o.del, t.del)
        edited  == tomb # NoStamp /\ After(newest, tomb)
        buried  == IF edited THEN NoStamp ELSE tomb
        delRes  == IF After(t.delRes.at, o.delRes.at) THEN t.delRes ELSE o.delRes
        decided == /\ delRes.at # NoStamp
                   /\ ~After(buried, delRes.at)
                   /\ edited => After(delRes.at, tomb) /\ After(delRes.at, newest)
    IN  [title    |-> title.value,
         done     |-> MergeCompletion(o.done, t.done),
         del      |-> IF decided THEN IF delRes.deleted THEN delRes.at ELSE NoStamp
                      ELSE buried,
         titleRes |-> res,
         delRes   |-> delRes,
         cTitle   |-> IF Settled(res, marker) THEN NoConflict ELSE marker,
         cDel     |-> IF edited /\ ~decided
                      THEN [NoConflict EXCEPT !.oursAt = tomb, !.theirsAt = newest]
                      ELSE NoConflict]

\* Faulty variant of NewestItemStamp: forgets the tombstone and the decisions.
NewestFieldStamp(item) == Latest({item.title.at, item.done.at})

\* The stamps an item carries, the ones its markers name included; those a text
\* was derived from (seen) are history and not among them.
ItemStamps(item) ==
    {item.title.at, item.done.at, item.del, item.titleRes, item.delRes.at,
     item.cTitle.oursAt, item.cTitle.theirsAt, item.cDel.oursAt, item.cDel.theirsAt}

\* newestPlannerItemStamp: the highest stamp a pulled item carries.
NewestItemStamp(item) == Latest(ItemStamps(item))
=============================================================================
