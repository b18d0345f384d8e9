----------------------- MODULE MultiPassVerification -----------------------
(***************************************************************************)
(* The verification of a bundle by counting it several times: the task in  *)
(* src/un260/innovation/multi_pass_verification.c, its page and prompts in *)
(* innovation/page_32_innovation.c, and where app_service/app_counting_    *)
(* runtime.c feeds it: a count that starts, and the end of the serial      *)
(* numbers, by which a count is complete.                                  *)
(*                                                                         *)
(* A result is what a count reports: its totals, its denomination table,   *)
(* its rejects by reason and its serial numbers in the order they came.    *)
(* It is taken as one whole when it is captured; the code takes the totals *)
(* of the last result and the tables of what is counted now, which are of  *)
(* two counts only where late says so, or where a table was lost on the    *)
(* way.  The ADD setting may change at any time.  The prompt covers the    *)
(* screen: the page below takes no click, but a gesture leaves it.         *)
(***************************************************************************)
EXTENDS Integers, Sequences, FiniteSets, TLC, SequencesExt, FiniteSetsExt

CONSTANTS
  Results,    \* what a count may report
  MinPasses,  \* MULTI_PASS_VERIFY_MIN_PASSES
  MaxPasses,  \* MULTI_PASS_VERIFY_MAX_PASSES
  MaxCounts   \* bound: counts the controller starts

ASSUME PassAssumption ==
  /\ MinPasses \in Nat /\ MaxPasses \in Nat /\ MaxCounts \in Nat
  /\ 2 <= MinPasses /\ MinPasses <= MaxPasses

VARIABLES
  state, target, armed, awaiting, \* g_verify
  passes,       \* its captured slots; of and adding are history: the count a
                \* pass was taken from, and the ADD setting that count began with
  comparisons,
  add,          \* machine_state_add_enabled()
  page,         \* "main" or "center", the page of the verification
  chosen,       \* g_page.target_passes
  pending,      \* g_page.pending_start_after_add_off
  prompt,       \* g_prompt: "none", "info", "review" or "report"
  phase, last,  \* the session: phase and last_result, None where not valid
  count,        \* the controller's counts so far
  adding,       \* history: the ADD setting when the latest began
  since,        \* history: the counts when the task began
  late          \* history: the task took the result of a count after another began

taskVars == <<state, target, armed, awaiting, passes, comparisons, since, late>>
pageVars == <<page, chosen, pending>>
sessionVars == <<phase, last, count, adding>>
vars == <<taskVars, pageVars, sessionVars, add, prompt>>

None == [valid |-> FALSE]
captured == Len(passes)
NoComparisons == [i \in 1..MaxPasses |-> None]

Init ==
  /\ state = "idle" /\ target = 0 /\ armed = FALSE /\ awaiting = FALSE
  /\ passes = <<>> /\ comparisons = NoComparisons
  /\ add \in BOOLEAN
  /\ page = "main" /\ chosen = MinPasses /\ pending = FALSE /\ prompt = "none"
  /\ phase = "idle" /\ last = None /\ count = 0
  /\ adding = FALSE /\ since = 0 /\ late = FALSE

-----------------------------------------------------------------------------
(* Two results compared, the first of them the baseline.                   *)
Abs(n) == IF n < 0 THEN -n ELSE n

(* multi_pass_snapshot_denom_pcs(): a value may have several rows.         *)
DenomPcs(result, value) ==
  FoldLeft(LAMBDA total, row : total + (IF row.value = value THEN row.pcs ELSE 0),
           0, result.denom)
DenomValues(result) == {row.value : row \in ToSet(result.denom)}

(* The rows of the baseline that differ, then what only the other has; a   *)
(* row of no notes in the baseline is counted twice.                       *)
DenomDifferences(base, result) ==
  LET changed == {v \in DenomValues(base) : DenomPcs(result, v) # DenomPcs(base, v)}
      added == {v \in DenomValues(result) : DenomPcs(base, v) = 0 /\ DenomPcs(result, v) # 0}
  IN  Cardinality(changed) + Cardinality(added)

RejectsMatch(base, result) ==
  base.reject = result.reject /\ base.reasons = result.reasons

(* A serial number is <<denomination, text>>, texts being numbers here.    *)
SerialBefore(a, b) == a[1] < b[1] \/ (a[1] = b[1] /\ a[2] < b[2])
Sorted_Not(serials) == serials \* mutant: the merge meets them as they came
Sorted(serials) == SortSeq(serials, SerialBefore)

(* The merge of multi_pass_compare_serials(), from positions i and j on.   *)
Merge(base, result) ==
  LET merge[i \in 1..(Len(base) + 1), j \in 1..(Len(result) + 1)] ==
        IF i > Len(base) /\ j > Len(result)
          THEN [matched |-> 0, missing |-> 0, extra |-> 0]
        ELSE IF j > Len(result) \/ (i <= Len(base) /\ SerialBefore(base[i], result[j]))
          THEN [merge[i + 1, j] EXCEPT !.missing = @ + 1]
        ELSE IF i > Len(base) \/ SerialBefore(result[j], base[i])
          THEN [merge[i, j + 1] EXCEPT !.extra = @ + 1]
        ELSE [merge[i + 1, j + 1] EXCEPT !.matched = @ + 1]
  IN  merge[1, 1]

(* Serial numbers are compared where both have some; then where less than  *)
(* half of each agree the bundles are taken for different ones.            *)
SerialComparable(base, result) == base.serials # <<>> /\ result.serials # <<>>
SerialComparison(base, result) ==
  IF SerialComparable(base, result)
    THEN LET m == Merge(Sorted(base.serials), Sorted(result.serials))
         IN  [match |-> m.missing = 0 /\ m.extra = 0,
              missing |-> m.missing, extra |-> m.extra,
              foreign |-> /\ m.matched * 2 < Len(base.serials)
                          /\ m.matched * 2 < Len(result.serials)]
    ELSE [match |-> TRUE, missing |-> 0, extra |-> 0, foreign |-> FALSE]

Input(result) == result.accepted + result.reject
Significant(base, result) ==
  LET input == Abs(Input(result) - Input(base))
      amount == Abs(result.amount - base.amount)
  IN  \/ input >= 3
      \/ Input(base) > 0 /\ input * 10 >= Input(base)
      \/ amount >= 100
      \/ base.amount # 0 /\ amount * 10 >= Abs(base.amount)

Compare(base, result) ==
  LET serial == SerialComparison(base, result)
      differences == DenomDifferences(base, result)
  IN  [valid |-> TRUE,
       exact |-> /\ base.accepted = result.accepted /\ base.amount = result.amount
                 /\ differences = 0
                 /\ RejectsMatch(base, result)
                 /\ serial.match,
       differences |-> differences,
       missing |-> serial.missing, extra |-> serial.extra,
       significant |-> serial.foreign \/ Significant(base, result)]

-----------------------------------------------------------------------------
(* multi_pass_verification.c                                               *)
AllPassesMatch == captured > 0 /\ \A i \in 2..captured : comparisons[i].exact

Cleared == passes' = <<>> /\ comparisons' = NoComparisons

Start(passes_) ==
  /\ state' = "running" /\ target' = passes_
  /\ armed' = FALSE /\ awaiting' = FALSE /\ Cleared
  /\ since' = count /\ late' = FALSE

Cancel ==
  /\ state' = "idle" /\ target' = 0 /\ armed' = FALSE /\ awaiting' = FALSE /\ Cleared
  /\ UNCHANGED <<since, late>>

Expecting == state = "running" /\ ~awaiting /\ captured < target
OnCountStart_Answers(add_) == \* mutant: the question is taken for answered
  /\ armed' = ~add_ /\ awaiting' = FALSE
  /\ UNCHANGED <<state, target, passes, comparisons, since, late>>
OnCountStart(add_) ==
  /\ armed' = IF Expecting THEN ~add_ ELSE armed
  /\ UNCHANGED <<state, target, awaiting, passes, comparisons, since, late>>

(* A result of no notes at all is no pass.                                 *)
CanCapture == Expecting /\ armed /\ last.valid
              /\ (last.result.accepted > 0 \/ last.result.reject > 0)

(* The serial numbers may find no memory: the pass has to be counted anew. *)
CaptureFails ==
  /\ armed' = FALSE
  /\ prompt' = "info"
  /\ UNCHANGED <<state, target, awaiting, passes, comparisons, since, late>>

Disarm_Not == UNCHANGED armed \* mutant
Disarm == armed' = FALSE

(* The latest pass is compared with the first.                             *)
Reviewed(new) == new.valid /\ ~new.exact /\ new.significant
CaptureResult ==
  LET new == IF captured = 0 THEN None ELSE Compare(passes[1].result, last.result)
      complete == captured + 1 >= target
  IN  /\ passes' = Append(passes, [result |-> last.result, of |-> last.of,
                                   adding |-> last.adding])
      /\ comparisons' = [comparisons EXCEPT ![captured + 1] = new]
      /\ Disarm
      /\ awaiting' = Reviewed(new)
      /\ state' = IF complete /\ ~Reviewed(new) THEN "complete" ELSE state
      /\ prompt' = IF Reviewed(new) THEN "review" ELSE IF complete THEN "report" ELSE "info"
      /\ late' = (late \/ last.of # count)
      /\ UNCHANGED <<target, since>>

ConfirmSameBundle_Early == \* mutant: complete, whatever was counted
  /\ awaiting' = FALSE
  /\ state' = "complete"
  /\ prompt' = "report"
ConfirmSameBundle ==
  /\ awaiting' = FALSE
  /\ state' = IF captured >= target THEN "complete" ELSE state
  /\ prompt' = IF captured >= target THEN "report" ELSE "none"

RestartFromLatest ==
  /\ passes' = <<passes[captured]>> /\ comparisons' = NoComparisons
  /\ armed' = FALSE /\ awaiting' = FALSE /\ state' = "running"
  /\ UNCHANGED <<target, since, late>>

-----------------------------------------------------------------------------
(* The page and the prompts.                                               *)
EnterCenter ==
  /\ page' = "center" /\ chosen' = IF state # "idle" THEN target ELSE chosen
  /\ UNCHANGED pending

(* ui_page_32_innovation_destroy(), which closes the prompt as well.       *)
LeaveCenter_Pending == page' = "main" /\ chosen' = MinPasses /\ UNCHANGED pending \* mutant
LeaveCenter == page' = "main" /\ chosen' = MinPasses /\ pending' = FALSE

OnCenter == page = "center" /\ prompt = "none"

OpenCenter ==
  /\ page = "main" /\ prompt = "none"
  /\ EnterCenter
  /\ UNCHANGED <<taskVars, sessionVars, add, prompt>>

(* The button is below a prompt; the gestures for home and back are not.   *)
Back ==
  /\ page = "center"
  /\ LeaveCenter /\ prompt' = "none"
  /\ UNCHANGED <<taskVars, sessionVars, add>>

(* The refresh that follows sets the target of a complete task back.       *)
ChooseTarget ==
  /\ OnCenter /\ state = "idle"
  /\ \E n \in {chosen - 1, chosen + 1} \cap (MinPasses..MaxPasses) : chosen' = n
  /\ UNCHANGED <<taskVars, sessionVars, add, prompt, page, pending>>

ShowGuide ==
  /\ OnCenter
  /\ prompt' = "info"
  /\ UNCHANGED <<taskVars, sessionVars, pageVars, add>>

BeginTask ==
  /\ Start(chosen)
  /\ LeaveCenter
  /\ prompt' = "info"

(* With ADD on the task begins when ADD is off, which is requested; the    *)
(* request is refused while another one is on the way.                     *)
Primary ==
  /\ OnCenter
  /\ \/ state = "running" /\ LeaveCenter /\ UNCHANGED <<taskVars, prompt>>
     \/ state # "running" /\ ~add /\ BeginTask
     \/ /\ state # "running" /\ add
        /\ IF state = "complete" THEN Cancel ELSE UNCHANGED taskVars
        /\ pending' \in BOOLEAN
        /\ UNCHANGED <<page, chosen, prompt>>
  /\ UNCHANGED <<sessionVars, add>>

Secondary ==
  /\ OnCenter /\ state # "idle"
  /\ Cancel
  /\ pending' = FALSE
  /\ UNCHANGED <<sessionVars, add, prompt, page, chosen>>

(* innovation_page_refresh_timer_cb(), also below a prompt.                *)
GivesUp == add
RefreshTimer ==
  /\ page = "center" /\ pending
  /\ \/ ~add /\ BeginTask
     \/ GivesUp /\ pending' = FALSE /\ UNCHANGED <<taskVars, prompt, page, chosen>>
  /\ UNCHANGED <<sessionVars, add>>

Dismiss ==
  /\ prompt = "info"
  /\ prompt' = "none"
  /\ UNCHANGED <<taskVars, sessionVars, pageVars, add>>

ViewReport ==
  /\ prompt = "report"
  /\ prompt' = "none"
  /\ EnterCenter
  /\ UNCHANGED <<taskVars, sessionVars, add>>

SameBundle ==
  /\ prompt = "review"
  /\ IF awaiting THEN ConfirmSameBundle
     ELSE prompt' = "none" /\ UNCHANGED <<awaiting, state>>
  /\ UNCHANGED <<target, armed, passes, comparisons, since, late, sessionVars, pageVars, add>>

NewBundle ==
  /\ prompt = "review"
  /\ IF awaiting /\ captured > 0 THEN RestartFromLatest /\ prompt' = "info"
     ELSE prompt' = "none" /\ UNCHANGED taskVars
  /\ UNCHANGED <<sessionVars, pageVars, add>>

-----------------------------------------------------------------------------
(* What the controller reports.                                            *)
AddChanges ==
  /\ add' = ~add
  /\ UNCHANGED <<taskVars, sessionVars, pageVars, prompt>>

(* The page is left after the prompt is made, and takes it along.          *)
CountStarts ==
  /\ count < MaxCounts
  /\ count' = count + 1 /\ adding' = add /\ phase' = "idle"
  /\ IF state = "running" THEN OnCountStart(add) ELSE UNCHANGED taskVars
  /\ IF page = "center" THEN LeaveCenter ELSE UNCHANGED pageVars
  /\ prompt' = IF page = "center" THEN "none"
               ELSE IF state = "running" /\ add THEN "info" ELSE prompt
  /\ UNCHANGED <<add, last>>

(* The first live report of a count ends the result of the one before.     *)
CountGoesOn ==
  /\ count > 0 /\ phase = "idle"
  /\ phase' = "active" /\ last' = None
  /\ UNCHANGED <<taskVars, pageVars, add, prompt, count, adding>>

CountEnds ==
  /\ count > 0 /\ phase # "finished"
  /\ phase' = "finished"
  /\ \E r \in Results :
       last' = [valid |-> TRUE, result |-> r, of |-> count, adding |-> adding]
  /\ UNCHANGED <<taskVars, pageVars, add, prompt, count, adding>>

(* A clear, or a change of currency.                                       *)
SessionReset ==
  /\ phase # "idle" \/ last.valid
  /\ phase' = "idle" /\ last' = None
  /\ UNCHANGED <<taskVars, pageVars, add, prompt, count, adding>>

(* The serial numbers of a count that ended, which may come twice or after *)
(* the next count began.                                                   *)
SerialsEnd ==
  /\ count > 0
  /\ CanCapture
  /\ CaptureResult \/ (last.result.serials # <<>> /\ CaptureFails)
  /\ UNCHANGED <<sessionVars, pageVars, add>>

Next ==
  \/ OpenCenter \/ Back \/ ChooseTarget \/ ShowGuide \/ Primary \/ Secondary \/ RefreshTimer
  \/ Dismiss \/ ViewReport \/ SameBundle \/ NewBundle
  \/ AddChanges \/ CountStarts \/ CountGoesOn \/ CountEnds \/ SessionReset \/ SerialsEnd

Spec == Init /\ [][Next]_vars

-----------------------------------------------------------------------------
(* The kinds of the variables.                                             *)
TypeOK ==
  /\ state \in {"idle", "running", "complete"} /\ target \in Nat
  /\ {armed, awaiting, add, pending, adding, late} \subseteq BOOLEAN
  /\ passes \in Seq([result : Results, of : Nat, adding : BOOLEAN])
  /\ DOMAIN comparisons = 1..MaxPasses
  /\ page \in {"main", "center"} /\ chosen \in MinPasses..MaxPasses
  /\ prompt \in {"none", "info", "review", "report"}
  /\ phase \in {"idle", "active", "finished"} /\ {count, since} \subseteq Nat
  /\ last = None \/ last \in [valid : {TRUE}, result : Results, of : Nat, adding : BOOLEAN]

(* A report is of the passes asked for: no task is complete with fewer or  *)
(* with an open question, none goes on with all of them unless it waits    *)
(* for an answer, and one that waits or is over takes no count.            *)
TaskSound ==
  /\ TypeOK
  /\ state = "idle" => passes = <<>> /\ ~armed /\ ~awaiting
  /\ state = "running" => target \in MinPasses..MaxPasses /\ captured <= target
  /\ state = "running" /\ ~awaiting => captured < target
  /\ state = "complete" => captured = target /\ target >= MinPasses /\ ~awaiting
  /\ awaiting => state = "running" /\ captured >= 2
  /\ armed => Expecting

(* Every pass is a count of its own that began after the task did and with *)
(* ADD off, so no notes are counted twice or added up; except where the    *)
(* serial numbers of a count came after the start of the next.             *)
PassesAreCounts ==
  late \/ \A i \in 1..captured :
            /\ passes[i].of > since /\ ~passes[i].adding
            /\ \A j \in 1..(i - 1) : passes[j].of < passes[i].of

(* What two results have in common by definition: how often a serial       *)
(* number occurs, and how many notes there are of a denomination.          *)
Times(serial, result) ==
  Cardinality({i \in DOMAIN result.serials : result.serials[i] = serial})
Excess(r1, r2) ==
  MapThenSumSet(LAMBDA s : IF Times(s, r1) > Times(s, r2) THEN Times(s, r1) - Times(s, r2) ELSE 0,
                ToSet(r1.serials))
SameDenoms(r1, r2) ==
  \A v \in DenomValues(r1) \cup DenomValues(r2) : DenomPcs(r1, v) = DenomPcs(r2, v)
SameNotes(r1, r2) ==
  /\ r1.accepted = r2.accepted /\ r1.amount = r2.amount /\ SameDenoms(r1, r2)
  /\ r1.reject = r2.reject /\ r1.reasons = r2.reasons
  /\ SerialComparable(r1, r2) =>
       \A s \in ToSet(r1.serials) \cup ToSet(r2.serials) : Times(s, r1) = Times(s, r2)

(* Each pass is shown against the first as it is: equal exactly if totals, *)
(* denominations, rejects and the serial numbers as a multiset are, with   *)
(* as many serial numbers missing and extra as there are; and the report   *)
(* says the passes match exactly if each is equal to the first.            *)
VerdictTrue ==
  /\ \A i \in 2..captured :
       LET base == passes[1].result
           result == passes[i].result
       IN  /\ comparisons[i].valid
           /\ comparisons[i].exact <=> SameNotes(base, result)
           /\ SerialComparable(base, result) =>
                /\ comparisons[i].missing = Excess(base, result)
                /\ comparisons[i].extra = Excess(result, base)
  /\ state = "complete" =>
       (AllPassesMatch <=> \A i \in 1..captured : SameNotes(passes[1].result, passes[i].result))

(* A question on the screen is the one the task waits for, and a report is *)
(* about a task that is complete: what is behind the prompt has not moved. *)
PromptTrue ==
  /\ prompt = "review" => awaiting
  /\ prompt = "report" => state = "complete"

(* A start that waits for ADD to go off is one the page still shows, and   *)
(* there is no task it would wipe out.                                     *)
PendingShown == pending => page = "center" /\ state = "idle"

=============================================================================
