-------------------- MODULE MultiPassVerificationProofs --------------------
(***************************************************************************)
(* Proofs about MultiPassVerification for any results and any number of    *)
(* passes and counts, whatever Compare finds: the task is sound, what is   *)
(* on the screen is about it, and each pass is a count of its own.         *)
(***************************************************************************)
EXTENDS MultiPassVerification, TLAPS

Pass == [result : Results, of : Nat, adding : BOOLEAN]

(* The types, by the part of the system the variables belong to.           *)
TaskTyped ==
  /\ state \in {"idle", "running", "complete"} /\ target \in Nat
  /\ armed \in BOOLEAN /\ awaiting \in BOOLEAN /\ late \in BOOLEAN
  /\ passes \in Seq(Pass) /\ DOMAIN comparisons = 1 .. MaxPasses
  /\ since \in Nat
PageTyped ==
  /\ page \in {"main", "center"} /\ chosen \in MinPasses .. MaxPasses /\ pending \in BOOLEAN
  /\ prompt \in {"none", "info", "review", "report"}
SessionTyped ==
  /\ phase \in {"idle", "active", "finished"} /\ count \in Nat
  /\ adding \in BOOLEAN /\ add \in BOOLEAN
  /\ last = None \/ last \in [valid : {TRUE}, result : Results, of : Nat, adding : BOOLEAN]
Typed == TaskTyped /\ PageTyped /\ SessionTyped

(* How far the task is.                                                    *)
Progress ==
  /\ state = "idle" => passes = <<>> /\ ~armed /\ ~awaiting
  /\ state # "idle" => target \in MinPasses .. MaxPasses /\ Len(passes) <= target
  /\ state = "running" /\ ~awaiting => Len(passes) < target
  /\ state = "complete" => Len(passes) = target /\ ~awaiting
  /\ awaiting => state = "running" /\ Len(passes) >= 2
  /\ armed => state = "running" /\ ~awaiting /\ Len(passes) < target

(* The counts are numbered as they begin: an armed task waits for the      *)
(* result of the latest, which no pass was taken from.                     *)
Numbered ==
  /\ since <= count
  /\ \A i \in 1 .. Len(passes) : passes[i].of <= count
  /\ armed => since < count /\ ~adding /\ \A i \in 1 .. Len(passes) : passes[i].of < count
  /\ last.valid => last.of <= count /\ (last.of = count => last.adding = adding)
  /\ PassesAreCounts

Task == TaskTyped /\ Progress
Shown == PromptTrue /\ PendingShown
PassInv == Task /\ PageTyped /\ SessionTyped /\ Numbered /\ Shown

LEMMA TypedParts == Typed <=> TypeOK
  BY Zenon DEF Typed, TaskTyped, PageTyped, SessionTyped, TypeOK, Pass

LEMMA NoResult == None.valid = FALSE
  BY DEF None

LEMMA NoPasses ==
  /\ <<>> \in Seq(Pass) /\ Len(<<>>) = 0 /\ DOMAIN NoComparisons = 1 .. MaxPasses
  /\ 0 \in Nat /\ MinPasses \in MinPasses .. MaxPasses
  BY PassAssumption DEF NoComparisons

LEMMA PassInit == Init => PassInv
PROOF
  <1> SUFFICES ASSUME Init PROVE PassInv
    OBVIOUS
  <1> USE PassAssumption DEF Init
  <1>1. Task
    <2>1. TaskTyped
      BY NoPasses, Zenon DEF TaskTyped
    <2>2. Progress
      BY DEF Progress
    <2> QED
      BY <2>1, <2>2 DEF Task
  <1>2. PageTyped
    BY NoPasses, Zenon DEF PageTyped
  <1>3. SessionTyped
    BY DEF SessionTyped
  <1>4. Numbered
    BY NoResult DEF Numbered, PassesAreCounts, captured
  <1>5. Shown
    BY DEF Shown, PromptTrue, PendingShown
  <1> QED
    BY <1>1, <1>2, <1>3, <1>4, <1>5 DEF PassInv

-----------------------------------------------------------------------------
(* What the operations of multi_pass_verification.c leave behind, while    *)
(* the session does not move.                                              *)
LEMMA Unmoved ==
  ASSUME PassInv, UNCHANGED <<taskVars, sessionVars>>
  PROVE  Task' /\ Numbered'
PROOF
  <1>1. Task'
    BY DEF PassInv, Task, TaskTyped, Progress, taskVars
  <1>2. Numbered'
    BY DEF PassInv, Numbered, PassesAreCounts, captured, taskVars, sessionVars
  <1> QED
    BY <1>1, <1>2

LEMMA Started ==
  ASSUME PassInv, NEW n \in MinPasses .. MaxPasses, Start(n), UNCHANGED sessionVars
  PROVE  Task' /\ Numbered'
PROOF
  <1>1. /\ state' = "running" /\ target' = n /\ armed' = FALSE /\ awaiting' = FALSE
        /\ passes' = <<>> /\ comparisons' = NoComparisons
        /\ since' = count /\ late' = FALSE /\ count' = count /\ last' = last
        /\ adding' = adding
    BY DEF Start, Cleared, sessionVars
  <1>2. Task'
    <2>1. TaskTyped'
      <3>1. n \in Nat /\ count \in Nat
        BY PassAssumption DEF PassInv, SessionTyped
      <3> QED
        BY <1>1, <3>1, NoPasses, Zenon DEF TaskTyped
    <2>2. Progress'
      BY <1>1, PassAssumption DEF Progress
    <2> QED
      BY <2>1, <2>2 DEF Task
  <1>3. Numbered'
    BY <1>1 DEF PassInv, Numbered, PassesAreCounts, captured, SessionTyped
  <1> QED
    BY <1>2, <1>3

LEMMA Cancelled ==
  ASSUME PassInv, Cancel, UNCHANGED sessionVars
  PROVE  Task' /\ Numbered'
PROOF
  <1>1. /\ state' = "idle" /\ target' = 0 /\ armed' = FALSE /\ awaiting' = FALSE
        /\ passes' = <<>> /\ comparisons' = NoComparisons
        /\ since' = since /\ late' = late /\ count' = count /\ last' = last
        /\ adding' = adding
    BY DEF Cancel, Cleared, sessionVars
  <1>2. Task'
    <2>1. TaskTyped'
      BY <1>1, NoPasses, Zenon DEF PassInv, Task, TaskTyped
    <2>2. Progress'
      BY <1>1 DEF Progress
    <2> QED
      BY <2>1, <2>2 DEF Task
  <1>3. Numbered'
    BY <1>1 DEF PassInv, Numbered, PassesAreCounts, captured
  <1> QED
    BY <1>2, <1>3

(* A pass is taken, compared with the first whatever comes of that.        *)
LEMMA ReviewedBoolean ==
  ASSUME NEW new
  PROVE  Reviewed(new) \in BOOLEAN /\ ~Reviewed(None)
  BY NoResult DEF Reviewed

LEMMA CaptureOutcome ==
  ASSUME CaptureResult
  PROVE  \E review \in BOOLEAN :
           /\ passes' = Append(passes, [result |-> last.result, of |-> last.of,
                                       adding |-> last.adding])
           /\ DOMAIN comparisons' = DOMAIN comparisons
           /\ armed' = FALSE /\ awaiting' = review /\ (review => Len(passes) # 0)
           /\ state' = IF Len(passes) + 1 >= target /\ ~review THEN "complete" ELSE state
           /\ prompt' = IF review THEN "review"
                        ELSE IF Len(passes) + 1 >= target THEN "report" ELSE "info"
           /\ late' = (late \/ last.of # count)
           /\ UNCHANGED <<target, since>>
PROOF
  <1> DEFINE new == IF captured = 0 THEN None ELSE Compare(passes[1].result, last.result)
             review == Reviewed(new)
  <1>1. /\ passes' = Append(passes, [result |-> last.result, of |-> last.of,
                                    adding |-> last.adding])
        /\ comparisons' = [comparisons EXCEPT ![captured + 1] = new]
        /\ armed' = FALSE /\ awaiting' = review
        /\ state' = (IF captured + 1 >= target /\ ~review THEN "complete" ELSE state)
        /\ prompt' = (IF review THEN "review"
                     ELSE IF captured + 1 >= target THEN "report" ELSE "info")
        /\ late' = (late \/ last.of # count)
        /\ UNCHANGED <<target, since>>
    BY Zenon DEF CaptureResult, Disarm
  <1>2. review \in BOOLEAN
    BY ReviewedBoolean
  <1>3. review => captured # 0
    <2>1. captured = 0 => new = None
      OBVIOUS
    <2> QED
      BY <2>1, ReviewedBoolean, Zenon
  <1>4. DOMAIN comparisons' = DOMAIN comparisons
    BY <1>1
  <1> HIDE DEF new, review
  <1> QED
    BY <1>1, <1>2, <1>3, <1>4, Zenon DEF captured

LEMMA Captured ==
  ASSUME PassInv, CanCapture, CaptureResult, UNCHANGED sessionVars
  PROVE  /\ Task' /\ Numbered' /\ PromptTrue'
         /\ prompt' \in {"info", "review", "report"}
PROOF
  <1> DEFINE new == [result |-> last.result, of |-> last.of, adding |-> last.adding]
  <1>1. PICK review \in BOOLEAN :
          /\ passes' = Append(passes, new) /\ DOMAIN comparisons' = DOMAIN comparisons
          /\ armed' = FALSE /\ awaiting' = review /\ (review => Len(passes) # 0)
          /\ state' = IF Len(passes) + 1 >= target /\ ~review THEN "complete" ELSE state
          /\ prompt' = IF review THEN "review"
                       ELSE IF Len(passes) + 1 >= target THEN "report" ELSE "info"
          /\ late' = (late \/ last.of # count)
          /\ UNCHANGED <<target, since>>
    BY CaptureOutcome, Zenon
  <1>2. /\ state = "running" /\ ~awaiting /\ Len(passes) < target
        /\ armed /\ last.valid
    BY DEF CanCapture, Expecting, captured
  <1>3. last \in [valid : {TRUE}, result : Results, of : Nat, adding : BOOLEAN]
    BY <1>2, NoResult DEF PassInv, SessionTyped
  <1>4. new \in Pass /\ new.of = last.of /\ new.adding = last.adding /\ last.of \in Nat
    BY <1>3 DEF Pass
  <1> HIDE DEF new
  <1>5. passes \in Seq(Pass) /\ target \in MinPasses .. MaxPasses
    BY <1>2 DEF PassInv, Task, TaskTyped, Progress
  <1>6. /\ passes' \in Seq(Pass) /\ Len(passes') = Len(passes) + 1 /\ Len(passes) \in Nat
        /\ passes'[Len(passes) + 1] = new
        /\ \A i \in 1 .. Len(passes) : passes'[i] = passes[i]
    BY <1>1, <1>4, <1>5
  <1>7. Task'
    <2>1. late' \in BOOLEAN
      BY <1>1
    <2>2. state' \in {"idle", "running", "complete"}
      BY <1>1, <1>2
    <2>3. TaskTyped'
      BY <1>1, <1>6, <2>1, <2>2, Zenon DEF PassInv, Task, TaskTyped
    <2>4. Progress'
      BY <1>1, <1>2, <1>5, <1>6, PassAssumption DEF Progress
    <2> QED
      BY <2>3, <2>4 DEF Task
  <1>8. Numbered'
    <2> DEFINE All == 1 .. Len(passes)
    <2>1. /\ since < count /\ ~adding /\ \A i \in All : passes[i].of < count
          /\ last.of <= count /\ (last.of = count => last.adding = adding)
          /\ count \in Nat /\ count' = count /\ last' = last /\ adding' = adding
          /\ since' = since /\ since \in Nat
      BY <1>1, <1>2
      DEF PassInv, Numbered, SessionTyped, Task, TaskTyped, sessionVars
    <2>2. \A i \in 1 .. Len(passes') :
            \/ i \in All /\ passes'[i] = passes[i]
            \/ i = Len(passes) + 1 /\ passes'[i] = new
      BY <1>6
    <2>3. \A i \in 1 .. Len(passes') : passes'[i].of <= count
      <3>1. \A i \in All : passes[i].of <= count
        BY DEF PassInv, Numbered
      <3> QED
        BY <2>1, <2>2, <3>1, <1>4
    <2>4. CASE late'
      BY <1>1, <2>1, <2>3, <2>4 DEF PassInv, Numbered, PassesAreCounts
    <2>5. CASE ~late'
      <3>1. ~late /\ last.of = count /\ new.of = count /\ ~new.adding
        BY <1>1, <1>4, <2>1, <2>5
      <3>2. \A i \in All : /\ passes[i].of > since /\ ~passes[i].adding
                           /\ \A j \in 1 .. (i - 1) : passes[j].of < passes[i].of
        BY <3>1 DEF PassInv, Numbered, PassesAreCounts, captured
      <3>3. ASSUME NEW i \in 1 .. Len(passes')
            PROVE  /\ passes'[i].of > since /\ ~passes'[i].adding
                   /\ \A j \in 1 .. (i - 1) : passes'[j].of < passes'[i].of
        <4>1. CASE i \in All
          <5>1. \A j \in 1 .. (i - 1) : j \in All
            BY <4>1, <1>6
          <5> QED
            BY <4>1, <5>1, <1>6, <3>2
        <4>2. CASE i = Len(passes) + 1
          <5>1. \A j \in 1 .. (i - 1) : j \in All
            BY <4>2, <1>6
          <5> QED
            BY <4>2, <5>1, <1>6, <2>1, <3>1
        <4> QED
          BY <4>1, <4>2, <1>6
      <3>4. PassesAreCounts'
        BY <3>3, <2>1 DEF PassesAreCounts, captured
      <3> QED
        BY <1>1, <2>1, <2>3, <3>4 DEF Numbered
    <2> QED
      BY <2>4, <2>5
  <1>9. PromptTrue' /\ prompt' \in {"info", "review", "report"}
    BY <1>1 DEF PromptTrue
  <1> QED
    BY <1>7, <1>8, <1>9

LEMMA CaptureFailed ==
  ASSUME PassInv, CaptureFails, UNCHANGED sessionVars
  PROVE  Task' /\ Numbered'
PROOF
  <1>1. /\ armed' = FALSE
        /\ UNCHANGED <<state, target, awaiting, passes, comparisons, since, late>>
        /\ UNCHANGED <<phase, last, count, adding>>
    BY DEF CaptureFails, sessionVars
  <1>2. Task'
    <2>1. TaskTyped'
      BY <1>1, Zenon DEF PassInv, Task, TaskTyped
    <2>2. Progress'
      BY <1>1 DEF PassInv, Task, Progress
    <2> QED
      BY <2>1, <2>2 DEF Task
  <1>3. Numbered'
    BY <1>1 DEF PassInv, Numbered, PassesAreCounts, captured
  <1> QED
    BY <1>2, <1>3

(* A count begins, numbered after every other.                             *)
LEMMA CountBegun ==
  ASSUME PassInv, count' = count + 1, adding' = add, phase' = "idle", UNCHANGED <<add, last>>,
         IF state = "running" THEN OnCountStart(add) ELSE UNCHANGED taskVars
  PROVE  Task' /\ Numbered'
PROOF
  <1>1. /\ UNCHANGED <<state, target, awaiting, passes, comparisons, since, late>>
        /\ armed' = armed \/ armed' = ~add
    <2>1. CASE state = "running"
      BY <2>1, Zenon DEF OnCountStart
    <2>2. CASE state # "running"
      BY <2>2 DEF taskVars
    <2> QED
      BY <2>1, <2>2
  <1>2. armed' => /\ state = "running" /\ ~awaiting /\ Len(passes) < target
                  /\ ~add
    <2>1. armed => Expecting
      BY DEF PassInv, Task, Progress, Expecting, captured
    <2>2. CASE Expecting
      <3>1. armed' = ~add
        BY <2>2 DEF Expecting, OnCountStart
      <3> QED
        BY <2>2, <3>1 DEF Expecting, captured
    <2>3. CASE ~Expecting
      <3>1. armed' = armed
        BY <2>3, Zenon DEF OnCountStart, taskVars
      <3> QED
        BY <2>1, <2>3, <3>1
    <2> QED
      BY <2>2, <2>3
  <1>3. Task'
    <2>1. TaskTyped'
      BY <1>1 DEF PassInv, Task, TaskTyped, SessionTyped
    <2>2. Progress'
      BY <1>1, <1>2 DEF PassInv, Task, Progress
    <2> QED
      BY <2>1, <2>2 DEF Task
  <1>4. Numbered'
    <2>1. /\ since <= count /\ since \in Nat /\ count \in Nat
          /\ last.valid => last.of \in Nat /\ last.of <= count
      BY NoResult DEF PassInv, Numbered, Task, TaskTyped, SessionTyped
    <2>2. \A i \in 1 .. Len(passes) : passes[i].of <= count /\ passes[i].of \in Nat
      <3>1. \A i \in 1 .. Len(passes) : passes[i] \in Pass
        BY DEF PassInv, Task, TaskTyped
      <3> QED
        BY <3>1 DEF PassInv, Numbered, Pass
    <2>3. PassesAreCounts'
      BY <1>1 DEF PassInv, Numbered, PassesAreCounts, captured
    <2> QED
      BY <1>1, <1>2, <2>1, <2>2, <2>3 DEF Numbered
  <1> QED
    BY <1>3, <1>4

LEMMA Confirmed ==
  ASSUME PassInv, prompt = "review", awaiting, ConfirmSameBundle,
         UNCHANGED <<target, armed, passes, comparisons, since, late>>, UNCHANGED sessionVars
  PROVE  Task' /\ Numbered' /\ PromptTrue' /\ prompt' \in {"none", "report"}
PROOF
  <1>1. /\ awaiting' = FALSE
        /\ state' = IF Len(passes) >= target THEN "complete" ELSE state
        /\ prompt' = IF Len(passes) >= target THEN "report" ELSE "none"
    BY DEF ConfirmSameBundle, captured
  <1>2. Task'
    <2>1. TaskTyped'
      <3>1. state' \in {"idle", "running", "complete"}
        BY <1>1 DEF PassInv, Task, TaskTyped
      <3> QED
        BY <1>1, <3>1, Zenon DEF PassInv, Task, TaskTyped
    <2>2. Progress'
      <3>1. /\ state = "running" /\ target \in MinPasses .. MaxPasses /\ ~armed
            /\ Len(passes) <= target /\ Len(passes) \in Nat
        BY DEF PassInv, Task, TaskTyped, Progress
      <3> QED
        BY <1>1, <3>1, PassAssumption DEF Progress
    <2> QED
      BY <2>1, <2>2 DEF Task
  <1>3. Numbered'
    BY DEF PassInv, Numbered, PassesAreCounts, captured, sessionVars
  <1>4. PromptTrue' /\ prompt' \in {"none", "report"}
    BY <1>1 DEF PromptTrue
  <1> QED
    BY <1>2, <1>3, <1>4

LEMMA Restarted ==
  ASSUME PassInv, awaiting, RestartFromLatest, UNCHANGED sessionVars
  PROVE  Task' /\ Numbered'
PROOF
  <1> DEFINE latest == passes[Len(passes)]
  <1>1. /\ state = "running" /\ target \in MinPasses .. MaxPasses
        /\ passes \in Seq(Pass) /\ Len(passes) >= 2 /\ Len(passes) \in Nat
    BY DEF PassInv, Task, TaskTyped, Progress
  <1>2. latest \in Pass
    BY <1>1
  <1>3. /\ state' = "running" /\ target' = target /\ armed' = FALSE /\ awaiting' = FALSE
        /\ passes' = <<latest>> /\ comparisons' = NoComparisons
        /\ since' = since /\ late' = late /\ count' = count /\ last' = last /\ adding' = adding
    BY DEF RestartFromLatest, sessionVars, captured
  <1>4. latest.of <= count /\ (late \/ (latest.of > since /\ ~latest.adding))
    BY <1>1 DEF PassInv, Numbered, PassesAreCounts, captured
  <1> HIDE DEF latest
  <1>5. passes' \in Seq(Pass) /\ Len(passes') = 1 /\ passes'[1] = latest
    BY <1>2, <1>3
  <1>6. Task'
    <2>1. TaskTyped'
      BY <1>3, <1>5, NoPasses, Zenon DEF PassInv, Task, TaskTyped
    <2>2. Progress'
      BY <1>1, <1>3, <1>5, PassAssumption DEF Progress
    <2> QED
      BY <2>1, <2>2 DEF Task
  <1>7. Numbered'
    <2>1. PassesAreCounts'
      BY <1>3, <1>4, <1>5 DEF PassesAreCounts, captured
    <2> QED
      BY <1>3, <1>4, <1>5, <2>1 DEF PassInv, Numbered
  <1> QED
    BY <1>6, <1>7

-----------------------------------------------------------------------------
(* One lemma per action.                                                   *)
LEMMA OpenCenterStep == PassInv /\ OpenCenter => PassInv'
PROOF
  <1> SUFFICES ASSUME PassInv, OpenCenter PROVE PassInv'
    OBVIOUS
  <1>1. /\ UNCHANGED <<taskVars, sessionVars, add, prompt, pending>>
        /\ page = "main" /\ page' = "center"
        /\ chosen' = IF state # "idle" THEN target ELSE chosen
    BY DEF OpenCenter, EnterCenter
  <1>2. Task' /\ Numbered'
    BY <1>1, Unmoved
  <1>3. PageTyped'
    BY <1>1 DEF PassInv, PageTyped, Task, Progress
  <1>4. SessionTyped' /\ Shown'
    BY <1>1 DEF PassInv, SessionTyped, Shown, PromptTrue, PendingShown, sessionVars, taskVars
  <1> QED
    BY <1>2, <1>3, <1>4 DEF PassInv

LEMMA BackStep == PassInv /\ Back => PassInv'
PROOF
  <1> SUFFICES ASSUME PassInv, Back PROVE PassInv'
    OBVIOUS
  <1>1. /\ UNCHANGED <<taskVars, sessionVars, add>> /\ prompt' = "none"
        /\ page' = "main" /\ chosen' = MinPasses /\ pending' = FALSE
    BY DEF Back, LeaveCenter
  <1>2. Task' /\ Numbered'
    BY <1>1, Unmoved
  <1>3. PageTyped'
    BY <1>1, NoPasses DEF PassInv, PageTyped
  <1>4. SessionTyped' /\ Shown'
    BY <1>1 DEF PassInv, SessionTyped, Shown, PromptTrue, PendingShown, sessionVars, taskVars
  <1> QED
    BY <1>2, <1>3, <1>4 DEF PassInv

LEMMA ChooseTargetStep == PassInv /\ ChooseTarget => PassInv'
PROOF
  <1> SUFFICES ASSUME PassInv, ChooseTarget PROVE PassInv'
    OBVIOUS
  <1>1. /\ UNCHANGED <<taskVars, sessionVars, add, prompt, page, pending>>
        /\ chosen' \in MinPasses .. MaxPasses
    BY Zenon DEF ChooseTarget
  <1>2. Task' /\ Numbered'
    BY <1>1, Unmoved
  <1>3. PageTyped'
    BY <1>1 DEF PassInv, PageTyped
  <1>4. SessionTyped' /\ Shown'
    BY <1>1 DEF PassInv, SessionTyped, Shown, PromptTrue, PendingShown, sessionVars, taskVars
  <1> QED
    BY <1>2, <1>3, <1>4 DEF PassInv

LEMMA ShowGuideStep == PassInv /\ ShowGuide => PassInv'
PROOF
  <1> SUFFICES ASSUME PassInv, ShowGuide PROVE PassInv'
    OBVIOUS
  <1>1. /\ UNCHANGED <<taskVars, sessionVars, pageVars, add>> /\ prompt' = "info"
    BY DEF ShowGuide
  <1>2. Task' /\ Numbered'
    BY <1>1, Unmoved
  <1>3. PageTyped'
    BY <1>1 DEF PassInv, PageTyped, pageVars
  <1>4. SessionTyped' /\ Shown'
    BY <1>1
    DEF PassInv, SessionTyped, Shown, PromptTrue, PendingShown, sessionVars, taskVars, pageVars
  <1> QED
    BY <1>2, <1>3, <1>4 DEF PassInv

(* The page is left, the task begins with what was chosen on it.           *)
LEMMA TaskBegun ==
  ASSUME PassInv, BeginTask, UNCHANGED <<sessionVars, add>>
  PROVE  PassInv'
PROOF
  <1>1. /\ Start(chosen) /\ page' = "main" /\ chosen' = MinPasses /\ pending' = FALSE
        /\ prompt' = "info"
    BY DEF BeginTask, LeaveCenter
  <1>2. chosen \in MinPasses .. MaxPasses
    BY DEF PassInv, PageTyped
  <1>3. Task' /\ Numbered'
    BY <1>1, <1>2, Started
  <1>4. PageTyped'
    BY <1>1, NoPasses DEF PageTyped
  <1>5. SessionTyped' /\ Shown'
    BY <1>1 DEF PassInv, SessionTyped, Shown, PromptTrue, PendingShown, sessionVars
  <1> QED
    BY <1>3, <1>4, <1>5 DEF PassInv

LEMMA PrimaryStep == PassInv /\ Primary => PassInv'
PROOF
  <1> SUFFICES ASSUME PassInv, Primary PROVE PassInv'
    OBVIOUS
  <1>1. UNCHANGED <<sessionVars, add>> /\ page = "center" /\ prompt = "none"
    BY DEF Primary, OnCenter
  <1>2. SessionTyped'
    BY <1>1 DEF PassInv, SessionTyped, sessionVars
  <1>3. CASE LeaveCenter /\ UNCHANGED <<taskVars, prompt>>
    <2>1. Task' /\ Numbered'
      BY <1>1, <1>3, Unmoved
    <2>2. PageTyped'
      BY <1>3, NoPasses DEF PassInv, PageTyped, LeaveCenter
    <2>3. Shown'
      BY <1>3 DEF PassInv, Shown, PromptTrue, PendingShown, taskVars, LeaveCenter
    <2> QED
      BY <1>2, <2>1, <2>2, <2>3 DEF PassInv
  <1>4. CASE BeginTask
    BY <1>1, <1>4, TaskBegun
  <1>5. CASE /\ state # "running"
             /\ IF state = "complete" THEN Cancel ELSE UNCHANGED taskVars
             /\ pending' \in BOOLEAN
             /\ UNCHANGED <<page, chosen, prompt>>
    <2>1. Task' /\ Numbered' /\ state' = "idle"
      <3>1. CASE state = "complete"
        BY <1>1, <1>5, <3>1, Cancelled DEF Cancel
      <3>2. CASE state # "complete"
        <4>1. state = "idle"
          BY <1>5, <3>2 DEF PassInv, Task, TaskTyped
        <4> QED
          BY <1>1, <1>5, <4>1, Unmoved DEF taskVars
      <3> QED
        BY <3>1, <3>2
    <2>2. PageTyped'
      BY <1>5 DEF PassInv, PageTyped
    <2>3. Shown'
      BY <1>1, <1>5, <2>1 DEF Shown, PromptTrue, PendingShown
    <2> QED
      BY <1>2, <2>1, <2>2, <2>3 DEF PassInv
  <1> QED
    BY <1>3, <1>4, <1>5, Zenon DEF Primary

LEMMA SecondaryStep == PassInv /\ Secondary => PassInv'
PROOF
  <1> SUFFICES ASSUME PassInv, Secondary PROVE PassInv'
    OBVIOUS
  <1>1. /\ Cancel /\ pending' = FALSE /\ prompt = "none"
        /\ UNCHANGED <<sessionVars, add, prompt, page, chosen>>
    BY DEF Secondary, OnCenter
  <1>2. Task' /\ Numbered'
    BY <1>1, Cancelled
  <1>3. PageTyped'
    BY <1>1 DEF PassInv, PageTyped
  <1>4. SessionTyped' /\ Shown'
    BY <1>1 DEF PassInv, SessionTyped, Shown, PromptTrue, PendingShown, sessionVars
  <1> QED
    BY <1>2, <1>3, <1>4 DEF PassInv

LEMMA RefreshTimerStep == PassInv /\ RefreshTimer => PassInv'
PROOF
  <1> SUFFICES ASSUME PassInv, RefreshTimer PROVE PassInv'
    OBVIOUS
  <1>1. UNCHANGED <<sessionVars, add>>
    BY DEF RefreshTimer
  <1>2. CASE BeginTask
    BY <1>1, <1>2, TaskBegun
  <1>3. CASE pending' = FALSE /\ UNCHANGED <<taskVars, prompt, page, chosen>>
    <2>1. Task' /\ Numbered'
      BY <1>1, <1>3, Unmoved
    <2>2. PageTyped'
      BY <1>3 DEF PassInv, PageTyped
    <2>3. SessionTyped' /\ Shown'
      BY <1>1, <1>3 DEF PassInv, SessionTyped, Shown, PromptTrue, PendingShown, sessionVars, taskVars
    <2> QED
      BY <2>1, <2>2, <2>3 DEF PassInv
  <1> QED
    BY <1>2, <1>3, Zenon DEF RefreshTimer

LEMMA DismissStep == PassInv /\ Dismiss => PassInv'
PROOF
  <1> SUFFICES ASSUME PassInv, Dismiss PROVE PassInv'
    OBVIOUS
  <1>1. /\ UNCHANGED <<taskVars, sessionVars, pageVars, add>> /\ prompt' = "none"
    BY DEF Dismiss
  <1>2. Task' /\ Numbered'
    BY <1>1, Unmoved
  <1>3. PageTyped'
    BY <1>1 DEF PassInv, PageTyped, pageVars
  <1>4. SessionTyped' /\ Shown'
    BY <1>1
    DEF PassInv, SessionTyped, Shown, PromptTrue, PendingShown, sessionVars, taskVars, pageVars
  <1> QED
    BY <1>2, <1>3, <1>4 DEF PassInv

(* The report is of a task that is complete, so no start is pending.       *)
LEMMA ViewReportStep == PassInv /\ ViewReport => PassInv'
PROOF
  <1> SUFFICES ASSUME PassInv, ViewReport PROVE PassInv'
    OBVIOUS
  <1>1. /\ UNCHANGED <<taskVars, sessionVars, add, pending>>
        /\ prompt = "report" /\ prompt' = "none" /\ page' = "center"
        /\ chosen' = IF state # "idle" THEN target ELSE chosen
    BY DEF ViewReport, EnterCenter
  <1>2. Task' /\ Numbered'
    BY <1>1, Unmoved
  <1>3. PageTyped'
    BY <1>1 DEF PassInv, PageTyped, Task, Progress
  <1>4. SessionTyped' /\ Shown'
    BY <1>1 DEF PassInv, SessionTyped, Shown, PromptTrue, PendingShown, sessionVars, taskVars
  <1> QED
    BY <1>2, <1>3, <1>4 DEF PassInv

(* A question that is open means a task that runs, so no start is pending. *)
LEMMA AwaitingNotPending == PassInv /\ (awaiting \/ state = "running") => ~pending
  BY DEF PassInv, Shown, PendingShown, Task, Progress

LEMMA SameBundleStep == PassInv /\ SameBundle => PassInv'
PROOF
  <1> SUFFICES ASSUME PassInv, SameBundle PROVE PassInv'
    OBVIOUS
  <1>1. /\ prompt = "review"
        /\ UNCHANGED <<target, armed, passes, comparisons, since, late>>
        /\ UNCHANGED sessionVars /\ UNCHANGED pageVars /\ add' = add
    BY DEF SameBundle
  <1>2. SessionTyped'
    BY <1>1 DEF PassInv, SessionTyped, sessionVars
  <1>3. awaiting
    BY <1>1 DEF PassInv, Shown, PromptTrue
  <1>4. ConfirmSameBundle
    BY <1>3 DEF SameBundle
  <1>5. Task' /\ Numbered' /\ PromptTrue' /\ prompt' \in {"none", "report"}
    BY <1>1, <1>3, <1>4, Confirmed
  <1>6. PageTyped'
    BY <1>1, <1>5 DEF PassInv, PageTyped, pageVars
  <1>7. ~pending'
    BY <1>1, <1>3, AwaitingNotPending DEF pageVars
  <1> QED
    BY <1>2, <1>5, <1>6, <1>7 DEF PassInv, Shown, PendingShown

LEMMA NewBundleStep == PassInv /\ NewBundle => PassInv'
PROOF
  <1> SUFFICES ASSUME PassInv, NewBundle PROVE PassInv'
    OBVIOUS
  <1>1. /\ prompt = "review"
        /\ UNCHANGED sessionVars /\ UNCHANGED pageVars /\ add' = add
    BY DEF NewBundle
  <1>2. SessionTyped'
    BY <1>1 DEF PassInv, SessionTyped, sessionVars
  <1>3. awaiting /\ captured > 0
    BY <1>1 DEF PassInv, Shown, PromptTrue, Task, Progress, captured
  <1>4. RestartFromLatest /\ prompt' = "info"
    BY <1>3 DEF NewBundle
  <1>5. Task' /\ Numbered'
    BY <1>1, <1>3, <1>4, Restarted
  <1>6. PageTyped'
    BY <1>1, <1>4 DEF PassInv, PageTyped, pageVars
  <1>7. ~pending'
    BY <1>1, <1>3, AwaitingNotPending DEF pageVars
  <1>8. Shown'
    BY <1>4, <1>7 DEF Shown, PromptTrue, PendingShown
  <1> QED
    BY <1>2, <1>5, <1>6, <1>8 DEF PassInv

LEMMA AddChangesStep == PassInv /\ AddChanges => PassInv'
PROOF
  <1> SUFFICES ASSUME PassInv, AddChanges PROVE PassInv'
    OBVIOUS
  <1>1. UNCHANGED <<taskVars, sessionVars, pageVars, prompt>> /\ add' = ~add
    BY DEF AddChanges
  <1>2. Task' /\ Numbered'
    BY <1>1, Unmoved
  <1>3. PageTyped'
    BY <1>1 DEF PassInv, PageTyped, pageVars
  <1>4. SessionTyped' /\ Shown'
    BY <1>1
    DEF PassInv, SessionTyped, Shown, PromptTrue, PendingShown, sessionVars, taskVars, pageVars
  <1> QED
    BY <1>2, <1>3, <1>4 DEF PassInv

LEMMA CountStartsStep == PassInv /\ CountStarts => PassInv'
PROOF
  <1> SUFFICES ASSUME PassInv, CountStarts PROVE PassInv'
    OBVIOUS
  <1>1. /\ count' = count + 1 /\ adding' = add /\ phase' = "idle" /\ UNCHANGED <<add, last>>
        /\ IF state = "running" THEN OnCountStart(add) ELSE UNCHANGED taskVars
        /\ IF page = "center" THEN LeaveCenter ELSE UNCHANGED pageVars
        /\ prompt' = IF page = "center" THEN "none"
                     ELSE IF state = "running" /\ add THEN "info" ELSE prompt
    BY Zenon DEF CountStarts
  <1>2. Task' /\ Numbered'
    BY <1>1, CountBegun, Zenon
  <1>3. PageTyped'
    BY <1>1, NoPasses DEF PassInv, PageTyped, pageVars, LeaveCenter
  <1>4. SessionTyped'
    <2>1. count' \in Nat /\ phase' \in {"idle", "active", "finished"}
      BY <1>1 DEF PassInv, SessionTyped
    <2>2. adding' \in BOOLEAN /\ add' \in BOOLEAN /\ last' = last
      BY <1>1, Zenon DEF PassInv, SessionTyped
    <2> QED
      BY <2>1, <2>2, Zenon DEF PassInv, SessionTyped
  <1>5. state' = state /\ awaiting' = awaiting
    BY <1>1 DEF OnCountStart, taskVars
  <1>6. Shown'
    <2>1. prompt' \in {"none", "info"} \/ prompt' = prompt
      BY <1>1
    <2>2. pending' = FALSE \/ (pending' = pending /\ page' = page)
      BY <1>1 DEF LeaveCenter, pageVars
    <2> QED
      BY <1>5, <2>1, <2>2 DEF PassInv, Shown, PromptTrue, PendingShown
  <1> QED
    BY <1>2, <1>3, <1>4, <1>6 DEF PassInv

(* What a count reports moves the session alone.                           *)
LEMMA SessionMoved ==
  ASSUME PassInv, UNCHANGED <<taskVars, pageVars, add, prompt, count, adding>>, SessionTyped',
         last'.valid => last'.of = count /\ last'.adding = adding
  PROVE  PassInv'
PROOF
  <1>1. Task'
    BY DEF PassInv, Task, TaskTyped, Progress, taskVars
  <1>2. Numbered'
    <2>1. count \in Nat
      BY DEF PassInv, SessionTyped
    <2> QED
      BY <2>1 DEF PassInv, Numbered, PassesAreCounts, captured, taskVars
  <1>3. PageTyped'
    BY DEF PassInv, PageTyped, pageVars
  <1>4. Shown'
    BY DEF PassInv, Shown, PromptTrue, PendingShown, pageVars, taskVars
  <1> QED
    BY <1>1, <1>2, <1>3, <1>4 DEF PassInv

LEMMA CountGoesOnStep == PassInv /\ CountGoesOn => PassInv'
PROOF
  <1> SUFFICES ASSUME PassInv, CountGoesOn PROVE PassInv'
    OBVIOUS
  <1>1. /\ UNCHANGED <<taskVars, pageVars, add, prompt, count, adding>>
        /\ phase' = "active" /\ last' = None
    BY DEF CountGoesOn
  <1>2. SessionTyped'
    BY <1>1 DEF PassInv, SessionTyped
  <1> QED
    BY <1>1, <1>2, NoResult, SessionMoved

LEMMA CountEndsStep == PassInv /\ CountEnds => PassInv'
PROOF
  <1> SUFFICES ASSUME PassInv, CountEnds PROVE PassInv'
    OBVIOUS
  <1>1. /\ UNCHANGED <<taskVars, pageVars, add, prompt, count, adding>>
        /\ phase' = "finished"
    BY DEF CountEnds
  <1>2. PICK r \in Results :
          last' = [valid |-> TRUE, result |-> r, of |-> count, adding |-> adding]
    BY Zenon DEF CountEnds
  <1>3. last' \in [valid : {TRUE}, result : Results, of : Nat, adding : BOOLEAN]
    BY <1>2 DEF PassInv, SessionTyped
  <1>4. SessionTyped'
    BY <1>1, <1>3 DEF PassInv, SessionTyped
  <1>5. last'.of = count /\ last'.adding = adding
    BY <1>2
  <1> QED
    BY <1>1, <1>4, <1>5, SessionMoved

LEMMA SessionResetStep == PassInv /\ SessionReset => PassInv'
PROOF
  <1> SUFFICES ASSUME PassInv, SessionReset PROVE PassInv'
    OBVIOUS
  <1>1. /\ UNCHANGED <<taskVars, pageVars, add, prompt, count, adding>>
        /\ phase' = "idle" /\ last' = None
    BY DEF SessionReset
  <1>2. SessionTyped'
    BY <1>1 DEF PassInv, SessionTyped
  <1> QED
    BY <1>1, <1>2, NoResult, SessionMoved

LEMMA SerialsEndStep == PassInv /\ SerialsEnd => PassInv'
PROOF
  <1> SUFFICES ASSUME PassInv, SerialsEnd PROVE PassInv'
    OBVIOUS
  <1>1. /\ CanCapture /\ (CaptureResult \/ CaptureFails)
        /\ UNCHANGED sessionVars /\ UNCHANGED pageVars /\ add' = add
    BY DEF SerialsEnd
  <1>2. SessionTyped'
    BY <1>1 DEF PassInv, SessionTyped, sessionVars
  <1>3. ~pending'
    BY <1>1, AwaitingNotPending DEF CanCapture, Expecting, pageVars
  <1>4. Task' /\ Numbered' /\ PromptTrue' /\ prompt' \in {"info", "review", "report"}
    <2>1. CASE CaptureResult
      BY <1>1, <2>1, Captured
    <2>2. CASE CaptureFails
      <3>1. prompt' = "info"
        BY <2>2 DEF CaptureFails
      <3> QED
        BY <1>1, <2>2, <3>1, CaptureFailed DEF PromptTrue
    <2> QED
      BY <1>1, <2>1, <2>2
  <1>5. PageTyped'
    BY <1>1, <1>4 DEF PassInv, PageTyped, pageVars
  <1> QED
    BY <1>2, <1>3, <1>4, <1>5 DEF PassInv, Shown, PendingShown

LEMMA StutterStep == PassInv /\ UNCHANGED vars => PassInv'
PROOF
  <1> SUFFICES ASSUME PassInv, UNCHANGED vars PROVE PassInv'
    OBVIOUS
  <1>1. UNCHANGED <<taskVars, sessionVars>> /\ UNCHANGED pageVars /\ UNCHANGED <<add, prompt>>
    BY DEF vars
  <1>2. Task' /\ Numbered'
    BY <1>1, Unmoved
  <1>3. PageTyped'
    BY <1>1 DEF PassInv, PageTyped, pageVars
  <1>4. SessionTyped' /\ Shown'
    BY <1>1
    DEF PassInv, SessionTyped, Shown, PromptTrue, PendingShown, sessionVars, taskVars, pageVars
  <1> QED
    BY <1>2, <1>3, <1>4 DEF PassInv

LEMMA PassStep == PassInv /\ [Next]_vars => PassInv'
  BY OpenCenterStep, BackStep, ChooseTargetStep, ShowGuideStep, PrimaryStep, SecondaryStep,
     RefreshTimerStep, DismissStep, ViewReportStep, SameBundleStep, NewBundleStep,
     AddChangesStep, CountStartsStep, CountGoesOnStep, CountEndsStep, SessionResetStep,
     SerialsEndStep, StutterStep, Zenon DEF Next

LEMMA PassInvariant == Spec => []PassInv
  BY PassInit, PassStep, PTL DEF Spec

-----------------------------------------------------------------------------
(* A report is of the passes asked for, whatever was counted, answered and *)
(* clicked: no task ends with fewer passes or with a question open.        *)
THEOREM PassTaskSound == Spec => []TaskSound
PROOF
  <1>1. PassInv => TaskSound
    <2> SUFFICES ASSUME PassInv PROVE TaskSound
      OBVIOUS
    <2>1. TypeOK
      BY TypedParts, Zenon DEF PassInv, Task, Typed
    <2>2. state # "idle" => target >= MinPasses
      BY PassAssumption DEF PassInv, Task, TaskTyped, Progress
    <2> QED
      BY <2>1, <2>2 DEF PassInv, Task, Progress, TaskSound, Expecting, captured
  <1> QED
    BY <1>1, PassInvariant, PTL

(* The question and the report on the screen are about the task as it is.  *)
THEOREM PassPrompts == Spec => []PromptTrue
PROOF
  <1>1. PassInv => PromptTrue
    BY DEF PassInv, Shown
  <1> QED
    BY <1>1, PassInvariant, PTL

(* A start that waits for ADD never outlives its page, and wipes out no    *)
(* task that runs or is complete.                                          *)
THEOREM PassPending == Spec => []PendingShown
PROOF
  <1>1. PassInv => PendingShown
    BY DEF PassInv, Shown
  <1> QED
    BY <1>1, PassInvariant, PTL

(* Unless serial numbers came late, each pass is a count of its own, begun *)
(* after the task did and with ADD off, however the counts are ordered     *)
(* with the clicks and the changes of ADD.                                 *)
THEOREM PassesAreOwnCounts == Spec => []PassesAreCounts
PROOF
  <1>1. PassInv => PassesAreCounts
    BY DEF PassInv, Numbered
  <1> QED
    BY <1>1, PassInvariant, PTL
-----------------------------------------------------------------------------
(* What is shown of each pass.  A pass keeps the comparison it was taken   *)
(* with: with the first of its own task, not of an earlier one, nor of the *)
(* bundle that was given up for a new one.                                 *)
Compared ==
  \A i \in 2 .. Len(passes) : comparisons[i] = Compare(passes[1].result, passes[i].result)

(* What Compare, a pure function, has to find of two results.              *)
CompareIsRight ==
  \A base, result \in Results :
    LET found == Compare(base, result)
    IN  /\ found.valid
        /\ found.exact <=> SameNotes(base, result)
        /\ SerialComparable(base, result) =>
             /\ found.missing = Excess(base, result)
             /\ found.extra = Excess(result, base)

(* Only a capture adds a comparison: every other step keeps passes and     *)
(* comparisons, or leaves nothing that is compared.                        *)
LEMMA PassesMove ==
  ASSUME [Next]_vars
  PROVE  \/ UNCHANGED <<passes, comparisons>>
         \/ passes' = <<>>
         \/ \E pass : passes' = <<pass>>
         \/ CanCapture /\ CaptureResult
PROOF
  <1>1. CASE OpenCenter \/ Back \/ ChooseTarget \/ ShowGuide \/ Dismiss \/ ViewReport
             \/ AddChanges \/ CountGoesOn \/ CountEnds \/ SessionReset \/ UNCHANGED vars
    BY <1>1, Zenon
    DEF OpenCenter, Back, ChooseTarget, ShowGuide, Dismiss, ViewReport, AddChanges,
        CountGoesOn, CountEnds, SessionReset, vars, taskVars
  <1>2. CASE Primary \/ Secondary \/ RefreshTimer
    BY <1>2, Zenon
    DEF Primary, Secondary, RefreshTimer, BeginTask, Start, Cancel, Cleared, taskVars
  <1>3. CASE SameBundle
    BY <1>3, Zenon DEF SameBundle
  <1>4. CASE NewBundle
    BY <1>4, Zenon DEF NewBundle, RestartFromLatest, taskVars
  <1>5. CASE CountStarts
    BY <1>5, Zenon DEF CountStarts, OnCountStart, taskVars
  <1>6. CASE SerialsEnd
    BY <1>6, Zenon DEF SerialsEnd, CaptureFails
  <1> QED
    BY <1>1, <1>2, <1>3, <1>4, <1>5, <1>6, Zenon DEF Next

LEMMA ComparedStep == PassInv /\ Compared /\ [Next]_vars => Compared'
PROOF
  <1> SUFFICES ASSUME PassInv, Compared, [Next]_vars PROVE Compared'
    OBVIOUS
  <1>1. CASE UNCHANGED <<passes, comparisons>>
    BY <1>1 DEF Compared
  <1>2. CASE passes' = <<>> \/ \E pass : passes' = <<pass>>
    <2>1. Len(passes') \in {0, 1}
      BY <1>2
    <2> QED
      BY <2>1 DEF Compared
  <1>3. CASE CanCapture /\ CaptureResult
    <2> DEFINE n == Len(passes)
               new == [result |-> last.result, of |-> last.of, adding |-> last.adding]
    <2>1. /\ passes' = Append(passes, new)
          /\ comparisons' =
               [comparisons EXCEPT ![n + 1] =
                  IF n = 0 THEN None ELSE Compare(passes[1].result, last.result)]
      BY <1>3, Zenon DEF CaptureResult, captured
    <2>2. /\ passes \in Seq(Pass) /\ DOMAIN comparisons = 1 .. MaxPasses
          /\ target \in MinPasses .. MaxPasses /\ n < target
      BY <1>3 DEF PassInv, Task, TaskTyped, Progress, CanCapture, Expecting, captured
    <2>3. last \in [valid : {TRUE}, result : Results, of : Nat, adding : BOOLEAN]
      BY <1>3, NoResult DEF CanCapture, PassInv, SessionTyped
    <2>4. new \in Pass /\ new.result = last.result
      BY <2>3 DEF Pass
    <2> HIDE DEF new
    <2>5. /\ Len(passes') = n + 1 /\ n \in Nat /\ passes'[n + 1] = new
          /\ \A i \in 1 .. n : passes'[i] = passes[i]
      BY <2>1, <2>2, <2>4
    <2>6. n + 1 \in 1 .. MaxPasses
      BY <2>2, <2>5, PassAssumption
    <2> HIDE DEF n
    <2> SUFFICES ASSUME NEW i \in 2 .. Len(passes')
                 PROVE  comparisons'[i] = Compare(passes'[1].result, passes'[i].result)
      BY DEF Compared
    <2>7. i \in 2 .. (n + 1) /\ 1 \in 1 .. n /\ passes'[1] = passes[1]
      BY <2>5
    <2>8. CASE i = n + 1
      <3>1. comparisons'[i] = Compare(passes[1].result, last.result)
        BY <2>1, <2>2, <2>6, <2>7, <2>8
      <3> QED
        BY <2>4, <2>5, <2>7, <2>8, <3>1
    <2>9. CASE i # n + 1
      <3>1. i \in 2 .. n /\ i \in 1 .. n
        BY <2>5, <2>7, <2>9
      <3>2. comparisons[i] = Compare(passes[1].result, passes[i].result)
        BY <3>1 DEF Compared, n
      <3>3. comparisons'[i] = comparisons[i]
        BY <2>1, <2>9
      <3> QED
        BY <2>5, <2>7, <3>1, <3>2, <3>3
    <2> QED
      BY <2>8, <2>9
  <1> QED
    BY <1>1, <1>2, <1>3, PassesMove, Zenon

LEMMA ComparedAlways == Spec => [](PassInv /\ Compared)
PROOF
  <1>1. Init => Compared
    BY DEF Init, Compared
  <1> QED
    BY <1>1, PassInit, PassStep, ComparedStep, PTL DEF Spec

LEMMA SameNotesItself == \A result : SameNotes(result, result)
  BY DEF SameNotes, SameDenoms

(* If Compare is right of any two results, what is shown is: of each pass  *)
(* against the first, and of all of them in the report, whatever was       *)
(* counted, confirmed, given up and counted anew on the way.               *)
THEOREM PassVerdicts == CompareIsRight => (Spec => []VerdictTrue)
PROOF
  <1> SUFFICES ASSUME CompareIsRight PROVE Spec => []VerdictTrue
    OBVIOUS
  <1>1. PassInv /\ Compared => VerdictTrue
    <2> SUFFICES ASSUME PassInv, Compared PROVE VerdictTrue
      OBVIOUS
    <2>1. \A i \in 1 .. Len(passes) : passes[i].result \in Results
      <3>1. passes \in Seq(Pass)
        BY DEF PassInv, Task, TaskTyped
      <3>2. \A i \in 1 .. Len(passes) : passes[i] \in Pass
        BY <3>1
      <3> QED
        BY <3>2 DEF Pass
    <2>2. ASSUME NEW i \in 2 .. captured
          PROVE  LET base == passes[1].result
                     result == passes[i].result
                 IN  /\ comparisons[i].valid
                     /\ comparisons[i].exact <=> SameNotes(base, result)
                     /\ SerialComparable(base, result) =>
                          /\ comparisons[i].missing = Excess(base, result)
                          /\ comparisons[i].extra = Excess(result, base)
      <3>1. passes[1].result \in Results /\ passes[i].result \in Results
        <4>1. passes \in Seq(Pass)
          BY DEF PassInv, Task, TaskTyped
        <4>2. 1 \in 1 .. Len(passes) /\ i \in 1 .. Len(passes)
          BY <4>1 DEF captured
        <4> QED
          BY <2>1, <4>2
      <3>2. comparisons[i] = Compare(passes[1].result, passes[i].result)
        BY DEF Compared, captured
      <3> QED
        BY <3>1, <3>2 DEF CompareIsRight
    <2>3. ASSUME state = "complete"
          PROVE  AllPassesMatch
                   <=> \A i \in 1 .. captured : SameNotes(passes[1].result, passes[i].result)
      <3>1. captured > 0 /\ captured \in Nat
        BY <2>3, PassAssumption DEF PassInv, Task, TaskTyped, Progress, captured
      <3>2. \A i \in 1 .. captured : i = 1 \/ i \in 2 .. captured
        BY <3>1
      <3>3. \A i \in 2 .. captured : i \in 1 .. captured
        BY <3>1
      <3> QED
        BY <2>2, <3>1, <3>2, <3>3, SameNotesItself, Zenon DEF AllPassesMatch
    <2> QED
      BY <2>2, <2>3, Zenon DEF VerdictTrue
  <1> QED
    BY <1>1, ComparedAlways, PTL
=============================================================================
