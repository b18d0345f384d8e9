--------------------------- MODULE RejectAnalysis ---------------------------
(***************************************************************************)
(* The split of a session's rejects into suspect and damaged notes:        *)
(* src/un260/counting/counting_reject_analysis_service.c, fed by the 0x0C  *)
(* table of counting_reject_sn_reply.c.  The table lists what lies in the  *)
(* reject pocket, also from earlier sessions, so the panel compares it     *)
(* with the table of the last analysis.                                    *)
(*                                                                         *)
(* Two codes of each class stand for the twelve damage codes and the rest. *)
(***************************************************************************)
EXTENDS Integers

CONSTANT MaxPocket \* bound: notes the reject pocket holds

ASSUME PocketAssumption == MaxPocket \in Nat

Damage == {"tape", "hole"}
Code == {"uv", "mg"} \cup Damage
Counts == [Code -> 0 .. MaxPocket]

SuspectIn(counts) == counts["uv"] + counts["mg"]
DamagedIn(counts) == counts["tape"] + counts["hole"]
Total(counts) == SuspectIn(counts) + DamagedIn(counts)
None == [c \in Code |-> 0]
Below(a, b) == \A c \in Code : a[c] <= b[c]

VARIABLES
  g_reject_pocket_snapshot,
  last_result, \* valid, expected_issue and the split of session->last_result
  pocket,      \* what lies in the reject pocket
  rejected,    \* history: what the latest session rejected
  comparable   \* history: the split can be right.  Before the session the pocket
               \* was empty or as last analysed, nobody reached into it since,
               \* and no row of its one table was lost

rejectVars == <<g_reject_pocket_snapshot, last_result, pocket, rejected, comparable>>

RejectInit ==
  /\ g_reject_pocket_snapshot = None
  /\ last_result = [valid |-> FALSE, analysed |-> FALSE, expected_issue |-> 0,
                    suspect_pcs |-> 0, damaged_pcs |-> 0]
  /\ pocket = None /\ rejected = None
  /\ comparable = FALSE

-----------------------------------------------------------------------------
(* counting_reject_analysis_update(), in its parts.                        *)
Delta(table) ==
  [c \in Code |-> IF table[c] > g_reject_pocket_snapshot[c]
                    THEN table[c] - g_reject_pocket_snapshot[c] ELSE 0]

(* counting_reject_expected_issue().                                       *)
Expected(table) ==
  IF last_result.expected_issue = 0 THEN Total(Delta(table)) ELSE last_result.expected_issue

Selected_Current(table) == table \* mutant: never compares
Selected(table) ==
  LET delta == Delta(table)
      expected == Expected(table)
  IN  IF Total(table) # expected /\ (Total(delta) = expected \/ Total(delta) \in 1 .. expected)
        THEN delta ELSE table

(* A shortfall counts as suspect; a surplus is taken off the suspects      *)
(* first, then off the damaged.                                            *)
Split(suspect, damaged, expected) ==
  LET surplus == suspect + damaged - expected
  IN  IF surplus <= suspect THEN [suspect |-> suspect - surplus, damaged |-> damaged]
                            ELSE [suspect |-> 0, damaged |-> damaged - (surplus - suspect)]

(* 0x0C: the table is analysed at its end, if it lists anything and the    *)
(* session's result is still on display.                                   *)
Analysed(listed) == last_result.valid /\ listed # None

Analyse(listed) ==
  LET expected == Expected(listed)
      split == Split(SuspectIn(Selected(listed)), DamagedIn(Selected(listed)), expected)
  IN  /\ last_result' = [last_result EXCEPT !.expected_issue = expected, !.analysed = TRUE,
                           !.suspect_pcs = split.suspect, !.damaged_pcs = split.damaged]
      /\ g_reject_pocket_snapshot' = listed

(* Rows are ignored while no rejects are expected.  A row may be lost.     *)
RejectTable ==
  \E received \in Counts :
    /\ Below(received, pocket)
    /\ LET listed == IF last_result.expected_issue = 0 THEN None ELSE received
       IN  IF Analysed(listed) THEN Analyse(listed)
                               ELSE UNCHANGED <<last_result, g_reject_pocket_snapshot>>
    /\ comparable' = (comparable /\ ~last_result.analysed /\ received = pocket)
    /\ UNCHANGED <<pocket, rejected>>

(* 0x0E: the session is finished; counting_info_handle_finished().         *)
SessionFinishes(rejects) ==
  /\ Total(pocket) + Total(rejects) <= MaxPocket
  /\ pocket' = [c \in Code |-> pocket[c] + rejects[c]]
  /\ rejected' = rejects
  /\ last_result' = [valid |-> TRUE, analysed |-> FALSE, expected_issue |-> Total(rejects),
                     suspect_pcs |-> Total(rejects), damaged_pcs |-> 0]
  /\ comparable' = (pocket \in {None, g_reject_pocket_snapshot})
  /\ UNCHANGED g_reject_pocket_snapshot

(* The first report of the next session, or a reset, replaces the result.  *)
LastResultGoes ==
  /\ last_result.valid
  /\ last_result' = [last_result EXCEPT !.valid = FALSE]
  /\ comparable' = (comparable /\ last_result.analysed)
  /\ UNCHANGED <<g_reject_pocket_snapshot, pocket, rejected>>

(* Somebody takes notes out of the reject pocket: all or some of them.     *)
EmptyPocket(rest) ==
  /\ Below(rest, pocket) /\ rest # pocket
  /\ pocket' = rest
  /\ comparable' = (comparable /\ last_result.analysed)
  /\ UNCHANGED <<g_reject_pocket_snapshot, last_result, rejected>>

RejectNext ==
  \/ RejectTable
  \/ \E rejects \in Counts : SessionFinishes(rejects)
  \/ LastResultGoes
  \/ \E rest \in Counts : EmptyPocket(rest)

RejectSpec == RejectInit /\ [][RejectNext]_rejectVars

-----------------------------------------------------------------------------
RejectTypeOK ==
  /\ g_reject_pocket_snapshot \in Counts /\ pocket \in Counts /\ rejected \in Counts
  /\ last_result \in [valid : BOOLEAN, analysed : BOOLEAN, expected_issue : 0 .. MaxPocket,
                      suspect_pcs : 0 .. MaxPocket, damaged_pcs : 0 .. MaxPocket]
  /\ comparable \in BOOLEAN

(* The two numbers the panel shows are never negative and add up to the    *)
(* rejects the session reported, whatever rows are lost, whatever the      *)
(* pocket held and whoever reached into it                                 *)
(* (counting_reject_analysis_service.c:111-122).                           *)
SplitAddsUp ==
  /\ last_result.suspect_pcs >= 0 /\ last_result.damaged_pcs >= 0
  /\ last_result.suspect_pcs + last_result.damaged_pcs = last_result.expected_issue

(* The split adds up, and it is the session's own, also when the pocket    *)
(* still holds the rejects of earlier sessions or was emptied before it,   *)
(* and when sessions without a reject came in between                      *)
(* (counting_reject_analysis_service.c:91-100, 131).                       *)
SplitIsTrue ==
  /\ SplitAddsUp
  /\ (comparable /\ last_result.analysed) =>
       /\ last_result.suspect_pcs = SuspectIn(rejected)
       /\ last_result.damaged_pcs = DamagedIn(rejected)
=============================================================================
