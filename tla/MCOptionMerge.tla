--------------------------- MODULE MCOptionMerge ----------------------------
(* Model checking values for OptionMerge: two records, three options, of   *)
(* which a user may pick the first two, also both at once.                 *)
EXTENDS OptionMerge, TLC

CONSTANTS r1, r2, a, b, c, w1

MCRecords == {r1, r2}
MCOptions == {a, b, c}
MCHoldings == {{}, {a, b}}
MCBeginnings == {[r \in MCRecords |-> IF r = r1 THEN {a} ELSE {a, b}]}
MCPairs == {<<a, b>>, <<b, c>>}
MCEditors == {w1}

(* Bounds: behaviours in which jobs have met are followed with at most one *)
(* undo row, and these and those with a run that lost its lock and goes on *)
(* without an edit.                                                        *)
FewMeetings ==
  /\ met # {} => Cardinality(undo) <= 1
  /\ met # {} \/ strays # {} => \A w \in Editors : edits[w].stage = "new"

=============================================================================
