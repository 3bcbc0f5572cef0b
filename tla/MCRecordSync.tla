---------------------------- MODULE MCRecordSync ----------------------------
(* Instances of RecordSync: device 1 has the fast clock.                     *)
EXTENDS RecordSync

CONSTANTS i1, i2

MCWall == [d \in Devices |-> IF d = 1 THEN 1 ELSE 0]
MCTitles == [d \in Devices |-> CASE d = 1 -> {"a"} [] d = 2 -> {"b"} [] OTHER -> {}]
MCFlags == [d \in Devices |-> CASE d = 1 -> {} [] d = 2 -> {TRUE} [] OTHER -> BOOLEAN]

LOCAL Load(edits, cycles, retries, items) ==
    [edits |-> edits, cycles |-> cycles, retries |-> retries, items |-> items]

\* record_sync: one item long enough for a conflict, a decision and its push;
\* two items with a requested retry; three devices that meet on one item.
MCWorkloads ==
    { (1 :> Load(3, 3, 0, {i1})) @@ (2 :> Load(1, 2, 0, {i1})) @@ (3 :> Load(0, 0, 0, {})),
      (1 :> Load(2, 3, 1, {i2})) @@ (2 :> Load(1, 1, 0, {i1})) @@ (3 :> Load(0, 0, 0, {})),
      (1 :> Load(1, 1, 0, {i1})) @@ (2 :> Load(2, 2, 0, {})) @@ (3 :> Load(2, 2, 0, {})) }

\* sync_buried_edit: a deletion, a late edit, a decision and one more edit.
BuriedWorkloads ==
    { (1 :> Load(4, 3, 0, {i1})) @@ (2 :> Load(2, 2, 0, {})) }

\* notes_sync_race: two edits around one cycle.
RaceWorkloads == {[d \in Devices |-> Load(2, 1, 0, {i1})]}
=============================================================================
