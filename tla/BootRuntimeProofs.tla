------------------------- MODULE BootRuntimeProofs -------------------------
(***************************************************************************)
(* Proofs about BootRuntime for any number of self-tests and any timeouts: *)
(* the records of the self-test's progress agree, and a finish is pending  *)
(* only after every self-test passed.                                      *)
(***************************************************************************)
EXTENDS BootRuntime, TLAPS

(* The part of the state the two invariants are about.                     *)
ServiceTyped ==
  /\ g_stage \in Stage
  /\ g_handshake_state \in {"idle", "sent", "ok"}
  /\ g_self_test_sequence_index \in 0 .. NumSteps
  /\ g_self_test_results \in [Step -> Verdict \cup {"none"}]
  /\ g_boot_finish_timer \in 0 .. NoTimer
  /\ replies \in Seq(Replies)

(* A boot that is done stays done: only an answered handshake gets there,  *)
(* and no other handshake is sent or accepted after it.                    *)
DoneIsAnswered == g_stage = Done => g_handshake_state = "ok"

BootInv == ServiceTyped /\ ProgressAgrees /\ DoneIsAnswered /\ FinishOnlyAfterPass

(* What the invariant depends on.                                          *)
bootView == <<g_stage, g_handshake_state, g_self_test_sequence_index, g_self_test_results,
              g_self_test_event_consumed, g_boot_finish_timer>>

LEMMA BootInvInit == Init => BootInv
  BY BootAssumption
  DEF Init, BootInv, ServiceTyped, ProgressAgrees, DoneIsAnswered, FinishOnlyAfterPass,
      AllPassed, Stage, Handshake, Done, Fail, SelfTesting, Step, NoTimer

(* Steps that leave the boot service and the timer alone, or drop it.      *)
LEMMA Unaffected ==
  ASSUME BootInv, replies' \in Seq(Replies),
         UNCHANGED <<g_stage, g_handshake_state, g_self_test_sequence_index,
                     g_self_test_results, g_self_test_event_consumed>>,
         g_boot_finish_timer' \in {g_boot_finish_timer, NoTimer}
  PROVE  BootInv'
  BY BootAssumption
  DEF BootInv, ServiceTyped, ProgressAgrees, DoneIsAnswered, FinishOnlyAfterPass,
      AllPassed, SelfTesting, Stage, Done, Fail, Step, NoTimer

(* An answer that is recorded moves the self-test from stage k to k + 1.   *)
LEMMA RecordedAdvances ==
  ASSUME BootInv, SelfTestRecorded
  PROVE  BootInv'
PROOF
  <1> DEFINE r == Head(replies)
             k == g_stage
             results == [g_self_test_results EXCEPT ![r.step] = r.verdict]
             failed == \E s \in Step : results[s] = "fail"
  <1>1. r \in SelfTestReplies /\ replies' \in Seq(Replies)
    <2>1. r \in Replies /\ replies' \in Seq(Replies)
      BY DEF SelfTestRecorded, TakeReply, BootInv, ServiceTyped
    <2>2. r.kind = "selftest"
      BY DEF SelfTestRecorded, Recordable
    <2> QED
      BY <2>1, <2>2 DEF Replies, HandshakeReplies, CountReports
  <1>2. /\ k \in Step /\ r.step = k /\ g_self_test_sequence_index = k
        /\ g_self_test_results[k] = "none" /\ g_handshake_state = "ok"
        /\ ~g_self_test_event_consumed
    BY DEF SelfTestRecorded, Recordable, BootInv, ProgressAgrees, SelfTesting
  <1>3. r.verdict \in Verdict
    BY <1>1 DEF SelfTestReplies
  <1>4. results \in [Step -> Verdict \cup {"none"}]
    BY <1>2, <1>3 DEF BootInv, ServiceTyped
  <1>5. \A s \in Step : results[s] # "none" <=> s < k + 1
    <2>1. \A s \in Step : g_self_test_results[s] # "none" <=> s < k
      BY <1>2 DEF BootInv, ProgressAgrees, SelfTesting
    <2>2. \A s \in Step : results[s] = IF s = k THEN r.verdict ELSE g_self_test_results[s]
      BY <1>2 DEF BootInv, ServiceTyped
    <2>3. r.verdict # "none"
      BY <1>3 DEF Verdict
    <2> QED
      BY <1>2, <2>1, <2>2, <2>3, BootAssumption DEF Step
  <1>6. g_boot_finish_timer = NoTimer
    BY <1>2, BootAssumption DEF BootInv, FinishOnlyAfterPass, Done, Step
  <1>7. g_self_test_results' = results /\ g_handshake_state' = "ok"
    BY <1>2 DEF SelfTestRecorded
  <1>8. CASE k < NumSteps
    <2>0. ~(k + 1 > NumSteps)
      BY <1>2, <1>8, BootAssumption DEF Step
    <2>1. /\ g_stage' = k + 1 /\ ~g_self_test_event_consumed'
          /\ SendNextSelfTest(k) /\ UNCHANGED g_boot_finish_timer
      BY <1>2, <2>0, Zenon DEF SelfTestRecorded
    <2>2. g_self_test_sequence_index' = k + 1 /\ g_boot_finish_timer' = NoTimer
      BY <1>6, <1>8, <2>1 DEF SendNextSelfTest
    <2> QED
      BY <1>1, <1>2, <1>4, <1>5, <1>7, <1>8, <2>1, <2>2, BootAssumption
      DEF BootInv, ServiceTyped, ProgressAgrees, DoneIsAnswered, FinishOnlyAfterPass,
          SelfTesting, Stage, Done, Fail, Step, NoTimer
  <1>9. CASE k = NumSteps /\ failed
    <2>1. g_stage' = Fail /\ g_self_test_sequence_index' = k /\ g_boot_finish_timer' = NoTimer
      BY <1>2, <1>6, <1>9, BootAssumption DEF SelfTestRecorded, Step
    <2> QED
      BY <1>1, <1>2, <1>4, <1>7, <1>9, <2>1, BootAssumption
      DEF BootInv, ServiceTyped, ProgressAgrees, DoneIsAnswered, FinishOnlyAfterPass,
          SelfTesting, Stage, Done, Fail, Step, NoTimer
  <1>10. CASE k = NumSteps /\ ~failed
    <2>1. g_stage' = Done /\ g_self_test_sequence_index' = k /\ g_boot_finish_timer' = 0
      BY <1>2, <1>10, BootAssumption DEF SelfTestRecorded, Step, Done
    <2>2. AllPassed'
      BY <1>4, <1>5, <1>7, <1>10, BootAssumption DEF AllPassed, Step, Verdict
    <2> QED
      BY <1>1, <1>2, <1>4, <1>7, <1>10, <2>1, <2>2, BootAssumption
      DEF BootInv, ServiceTyped, ProgressAgrees, DoneIsAnswered, FinishOnlyAfterPass,
          SelfTesting, Stage, Done, Fail, Step, NoTimer
  <1> QED
    BY <1>2, <1>8, <1>9, <1>10, BootAssumption DEF Step

(* A handshake is answered only before the boot is done, so that no finish *)
(* is pending when the self-test starts over.                              *)
LEMMA HandshakeStartsOver ==
  ASSUME BootInv, HandshakeAccepted
  PROVE  BootInv'
PROOF
  <1>1. replies' \in Seq(Replies)
    BY DEF HandshakeAccepted, TakeReply, BootInv, ServiceTyped
  <1>2. g_boot_finish_timer = NoTimer /\ g_boot_finish_timer' = NoTimer
    BY DEF HandshakeAccepted, BootInv, FinishOnlyAfterPass, DoneIsAnswered
  <1>3. /\ g_stage' = 1 /\ g_self_test_sequence_index' = 1 /\ g_handshake_state' = "ok"
        /\ g_self_test_results' = [s \in Step |-> "none"] /\ ~g_self_test_event_consumed'
    BY BootAssumption DEF HandshakeAccepted, SendNextSelfTest
  <1> QED
    BY <1>1, <1>2, <1>3, BootAssumption
    DEF BootInv, ServiceTyped, ProgressAgrees, DoneIsAnswered, FinishOnlyAfterPass,
        SelfTesting, Stage, Done, Fail, Step, NoTimer

LEMMA BootInvNext == BootInv /\ [Next]_vars => BootInv'
PROOF
  <1> SUFFICES ASSUME BootInv, [Next]_vars
               PROVE  BootInv'
    OBVIOUS
  <1> USE DEF serviceVars, clocks, uiVars, lineVars
  <1>1. CASE Tick
    <2>1. CASE g_boot_finish_timer = NoTimer
      BY <1>1, <2>1, Unaffected DEF Tick, BootInv, ServiceTyped
    <2>2. CASE g_boot_finish_timer # NoTimer
      <3>1. g_boot_finish_timer' \in 0 .. FinishDelay
        BY <1>1, <2>2, BootAssumption DEF Tick, Capped, BootInv, ServiceTyped, NoTimer
      <3> QED
        BY <1>1, <2>2, <3>1, BootAssumption
        DEF Tick, BootInv, ServiceTyped, ProgressAgrees, DoneIsAnswered,
            FinishOnlyAfterPass, AllPassed, SelfTesting, NoTimer
    <2> QED
      BY <2>1, <2>2
  <1>2. CASE Lvgl
    BY <1>2, Unaffected
    DEF Lvgl, AnimEnds, Confirm, Navigate, FinishTimerFires, LvglDone, BootInv, ServiceTyped
  <1>3. CASE HandshakeAccepted
    BY <1>3, HandshakeStartsOver
  <1>4. CASE SelfTestRecorded
    BY <1>4, RecordedAdvances
  <1>5. CASE ReplyIgnored
    <2>1. replies' \in Seq(Replies)
      BY <1>5 DEF ReplyIgnored, TakeReply, BootInv, ServiceTyped
    <2> QED
      BY <1>5, <2>1, Unaffected DEF ReplyIgnored
  <1>5a. CASE CountStarts \/ FaultReported \/ FaultsCleared
    <2>1. replies # <<>> /\ replies' = Tail(replies)
      BY <1>5a DEF CountStarts, FaultReported, FaultsCleared, TakeReply
    <2>2. replies' \in Seq(Replies)
      BY <2>1 DEF BootInv, ServiceTyped
    <2> QED
      BY <1>5a, <2>2, Unaffected DEF CountStarts, FaultReported, FaultsCleared
  <1>6. CASE FramesDone
    BY <1>6, Unaffected DEF FramesDone, BootInv, ServiceTyped
  <1>7. CASE PollElsewhere
    BY <1>7, Unaffected DEF PollElsewhere, CancelFinish, BootInv, ServiceTyped
  <1>8. CASE PollSendHandshake
    <2>1. g_stage = Handshake /\ g_stage' = Handshake /\ g_handshake_state' = "sent"
      BY <1>8 DEF PollSendHandshake, HandshakeDue
    <2> QED
      BY <1>8, <2>1, BootAssumption
      DEF PollSendHandshake, BootInv, ServiceTyped, ProgressAgrees, DoneIsAnswered,
          FinishOnlyAfterPass, SelfTesting, Stage, Handshake, Done, Fail, Step
  <1>9. CASE PollTimeout
    <2>1. g_stage # Done
      BY <1>9, BootAssumption
      DEF PollTimeout, TimeoutDue, WaitsForHandshake, SelfTesting, Handshake, Done, Step
    <2> QED
      BY <1>9, <2>1, BootAssumption
      DEF PollTimeout, BootInv, ServiceTyped, ProgressAgrees, DoneIsAnswered,
          FinishOnlyAfterPass, SelfTesting, Stage, Done, Fail, Step
  <1>10. CASE PollNothing
    BY <1>10, Unaffected DEF PollNothing, BootInv, ServiceTyped
  <1>11. CASE Controller
    <2>1. replies' = replies \/ \E r \in Replies : replies' = Append(replies, r)
      BY <1>11, Zenon DEF Controller, Answer, Lose, Spurious
    <2>2. replies' \in Seq(Replies)
      BY <2>1 DEF BootInv, ServiceTyped
    <2> QED
      BY <1>11, <2>2, Unaffected DEF Controller, Answer, Lose, Spurious
  <1>12. CASE UNCHANGED vars
    BY <1>12, Unaffected DEF vars, BootInv, ServiceTyped
  <1> QED
    BY <1>1, <1>2, <1>3, <1>4, <1>5, <1>6, <1>7, <1>8, <1>9, <1>10, <1>11, <1>12,
       <1>5a
    DEF Next, Frames, Poll

LEMMA BootInvAlways == Spec => []BootInv
  BY BootInvInit, BootInvNext, PTL DEF Spec

(* For every number of self-tests, in stage k exactly the first k - 1      *)
(* results are in and the k-th test alone is outstanding, whatever replies *)
(* come late, twice or out of order (boot_service.c:223-252).              *)
THEOREM BootProgress == Spec => []ProgressAgrees
  BY BootInvAlways, PTL DEF BootInv

(* For every number of self-tests and all timeouts, the finish that leads  *)
(* to the counting page is pending only after every self-test passed, also *)
(* when a late handshake started the self-test again after a timeout       *)
(* (app_boot_runtime.c:102-113).                                           *)
THEOREM BootFinish == Spec => []FinishOnlyAfterPass
  BY BootInvAlways, PTL DEF BootInv

-----------------------------------------------------------------------------
(* The rest of the state, and what the user sees.                          *)
ScreenTyped ==
  /\ page \in {"boot", "main", "sensor"} /\ onBootPage \in BOOLEAN
  /\ animActive \in BOOLEAN /\ popups \subseteq Popup /\ taken \in BOOLEAN
  /\ away \in 0 .. 2
ClockTyped ==
  /\ g_boot_started \in BOOLEAN /\ g_boot_timeout_consumed \in BOOLEAN
  /\ g_self_test_event_consumed \in BOOLEAN
  /\ bootAge \in 0 .. TotalTimeout /\ handshakeAge \in 0 .. Retry
  /\ pc \in {"lvgl", "frames", "poll"}
LineTyped == asked \in Seq(0 .. NumSteps) /\ spurious \in 0 .. MaxSpurious

(* Once the boot page was left for a poll, the loop knows it.              *)
AwayIsKnown == away >= 1 => page # "boot" /\ ~onBootPage

ScreenInv == ScreenTyped /\ AwayIsKnown /\ FailureIsShown /\ NoLateFinish

LEMMA ScreenInit == Init => ScreenInv /\ ClockTyped /\ LineTyped
PROOF
  <1> SUFFICES ASSUME Init PROVE ScreenInv /\ ClockTyped /\ LineTyped
    OBVIOUS
  <1> USE BootAssumption DEF Init
  <1>1. ScreenTyped
    <2>1. page \in {"boot", "main", "sensor"} /\ away \in 0 .. 2
      OBVIOUS
    <2>2. onBootPage \in BOOLEAN /\ animActive \in BOOLEAN /\ taken \in BOOLEAN
      BY Zenon
    <2>3. popups \subseteq Popup
      BY Zenon
    <2> QED
      BY <2>1, <2>2, <2>3, Zenon DEF ScreenTyped
  <1>2. AwayIsKnown /\ FailureIsShown /\ NoLateFinish
    BY DEF AwayIsKnown, FailureIsShown, NoLateFinish, Handshake, Fail
  <1>3. ClockTyped
    <2>1. bootAge \in 0 .. TotalTimeout /\ handshakeAge \in 0 .. Retry
      OBVIOUS
    <2> QED
      BY <2>1 DEF ClockTyped
  <1>4. LineTyped
    BY DEF LineTyped
  <1> QED
    BY <1>1, <1>2, <1>3, <1>4 DEF ScreenInv

LEMMA ClockStep ==
  ASSUME BootInv, ClockTyped, [Next]_vars
  PROVE  ClockTyped'
PROOF
  <1> USE BootAssumption DEF ClockTyped, serviceVars, clocks, uiVars, lineVars
  <1>1. CASE Tick
    BY <1>1 DEF Tick, Capped
  <1>2. CASE Lvgl
    BY <1>2 DEF Lvgl, AnimEnds, Confirm, Navigate, FinishTimerFires, LvglDone
  <1>3. CASE HandshakeAccepted \/ CountStarts \/ FaultReported \/ FaultsCleared
             \/ ReplyIgnored \/ FramesDone
    BY <1>3
    DEF HandshakeAccepted, CountStarts, FaultReported, FaultsCleared, ReplyIgnored, FramesDone
  <1>4. CASE SelfTestRecorded
    <2>1. \E b \in BOOLEAN : g_self_test_event_consumed' = (g_self_test_event_consumed \/ b)
      BY <1>4 DEF SelfTestRecorded
    <2>2. g_self_test_event_consumed' \in BOOLEAN
      BY <2>1
    <2> QED
      BY <1>4, <2>2 DEF SelfTestRecorded
  <1>5. CASE PollElsewhere \/ PollTimeout \/ PollNothing
    BY <1>5 DEF PollElsewhere, PollTimeout, PollNothing, PollEnds
  <1>5a. CASE PollSendHandshake
    <2>1. bootAge' \in {bootAge, 0} /\ handshakeAge' = 0 /\ pc' = "lvgl"
      BY <1>5a DEF PollSendHandshake, PollEnds
    <2> QED
      BY <1>5a, <2>1 DEF PollSendHandshake
  <1>6. CASE Controller
    BY <1>6 DEF Controller, Answer, Lose, Spurious
  <1>7. CASE UNCHANGED vars
    BY <1>7 DEF vars
  <1> QED
    BY <1>1, <1>2, <1>3, <1>4, <1>5, <1>5a, <1>6, <1>7, Zenon DEF Next, Frames, Poll

LEMMA LineStep ==
  ASSUME BootInv, LineTyped, [Next]_vars
  PROVE  LineTyped'
PROOF
  <1> USE BootAssumption DEF LineTyped, serviceVars, clocks, uiVars, lineVars
  <1>1. CASE Tick \/ Lvgl
    BY <1>1 DEF Tick, Lvgl, AnimEnds, Confirm, Navigate, FinishTimerFires, LvglDone
  <1>2. ASSUME NEW i \in 0 .. NumSteps, SendNextSelfTest(i)
        PROVE  asked' \in Seq(0 .. NumSteps)
    BY <1>2 DEF SendNextSelfTest
  <1>3. CASE HandshakeAccepted
    BY <1>2, <1>3 DEF HandshakeAccepted
  <1>4. CASE SelfTestRecorded
    <2>1. SendNextSelfTest(g_self_test_sequence_index) \/ UNCHANGED asked
      BY <1>4 DEF SelfTestRecorded
    <2>2. UNCHANGED spurious
      BY <1>4 DEF SelfTestRecorded
    <2> QED
      BY <1>2, <2>1, <2>2 DEF BootInv, ServiceTyped
  <1>5. CASE CountStarts \/ FaultReported \/ FaultsCleared \/ ReplyIgnored \/ FramesDone
    BY <1>5 DEF CountStarts, FaultReported, FaultsCleared, ReplyIgnored, FramesDone
  <1>6. CASE PollElsewhere \/ PollTimeout \/ PollNothing
    BY <1>6 DEF PollElsewhere, PollTimeout, PollNothing
  <1>6a. CASE PollSendHandshake
    <2>1. spurious' = spurious /\ (asked' = asked \/ asked' = Append(asked, 0))
      BY <1>6a DEF PollSendHandshake
    <2> QED
      BY <2>1
  <1>7. CASE Answer \/ Lose
    <2>1. asked # <<>> /\ asked' = Tail(asked) /\ spurious' = spurious
      BY <1>7 DEF Answer, Lose
    <2> QED
      BY <2>1
  <1>7a. CASE Spurious
    BY <1>7a DEF Spurious
  <1>8. CASE UNCHANGED vars
    BY <1>8 DEF vars
  <1> QED
    BY <1>1, <1>3, <1>4, <1>5, <1>6, <1>6a, <1>7, <1>7a, <1>8, Zenon
    DEF Next, Frames, Poll, Controller

(* Steps that change nothing on the screen: a failed boot stays shown, and *)
(* a finish is pending after them only if it was before, or for frames.    *)
LEMMA ScreenUnmoved ==
  ASSUME ScreenInv, UNCHANGED uiVars,
         g_stage' = Fail => g_stage = Fail,
         pc' = "lvgl" => pc = "lvgl",
         pc = "lvgl" /\ g_boot_finish_timer = NoTimer => g_boot_finish_timer' = NoTimer
  PROVE  ScreenInv'
  BY DEF ScreenInv, ScreenTyped, AwayIsKnown, FailureIsShown, NoLateFinish, uiVars

(* What the fault popup does: shown, it leads away from the boot page where*)
(* it comes up there; taken away, it leaves its mark on a failed boot.     *)
LEMMA FaultShown ==
  ASSUME ScreenInv, ShowFault, UNCHANGED <<page, onBootPage, animActive, away>>, pc' # "lvgl"
  PROVE  ScreenInv'
PROOF
  <1>1. popups' \subseteq Popup /\ taken' = FALSE
    BY DEF ShowFault, ScreenInv, ScreenTyped, Popup, FaultPopup, LeadsToSensor
  <1>2. page = "boot" => "faultOnBoot" \in popups'
    BY DEF ShowFault
  <1> QED
    BY <1>1, <1>2
    DEF ScreenInv, ScreenTyped, AwayIsKnown, FailureIsShown, NoLateFinish, LeadsToSensor

(* The end of a poll: the second one away from the boot page drops the     *)
(* timer.                                                                  *)
LEMMA PollMovesOn ==
  ASSUME ScreenInv, PollEnds, popups \subseteq popups', popups' \subseteq Popup,
         g_stage' = Fail => g_stage = Fail \/ "error" \in popups',
         away >= 1 => g_boot_finish_timer' = NoTimer
  PROVE  ScreenInv'
PROOF
  <1>1. ScreenTyped'
    BY DEF ScreenInv, ScreenTyped, PollEnds, Capped
  <1>2. AwayIsKnown'
    <2>1. CASE page = "boot"
      BY <2>1 DEF PollEnds, AwayIsKnown
    <2>2. CASE page # "boot"
      <3>1. ~onBootPage' /\ page' # "boot"
        BY <2>2, Zenon DEF PollEnds
      <3> QED
        BY <3>1 DEF AwayIsKnown
    <2> QED
      BY <2>1, <2>2
  <1>3. FailureIsShown'
    BY DEF ScreenInv, FailureIsShown, PollEnds, LeadsToSensor
  <1>4. NoLateFinish'
    BY DEF ScreenInv, ScreenTyped, NoLateFinish, PollEnds, Capped
  <1> QED
    BY <1>1, <1>2, <1>3, <1>4 DEF ScreenInv

LEMMA ScreenStep ==
  ASSUME BootInv, ScreenInv, [Next]_vars
  PROVE  ScreenInv'
PROOF
  <1> USE DEF serviceVars, clocks, lineVars
  <1>1. CASE Tick
    BY <1>1, ScreenUnmoved DEF Tick
  <1>2. CASE AnimEnds \/ Confirm \/ Navigate \/ FinishTimerFires
    <2> USE DEF ScreenInv, ScreenTyped, AwayIsKnown, FailureIsShown, NoLateFinish
    <2>1. CASE AnimEnds
      BY <2>1 DEF AnimEnds
    <2>2. CASE Confirm
      BY <2>2 DEF Confirm, LeadsToSensor, Popup
    <2>3. CASE Navigate
      BY <2>3 DEF Navigate
    <2>4. CASE FinishTimerFires
      BY <2>4 DEF FinishTimerFires
    <2> QED
      BY <1>2, <2>1, <2>2, <2>3, <2>4
  <1>3. CASE LvglDone \/ ReplyIgnored \/ FramesDone
    BY <1>3, ScreenUnmoved DEF LvglDone, ReplyIgnored, TakeReply, FramesDone
  <1>4. CASE HandshakeAccepted
    <2>1. g_stage' # Fail
      BY <1>4, BootAssumption DEF HandshakeAccepted, Fail
    <2> QED
      BY <1>4, <2>1, ScreenUnmoved DEF HandshakeAccepted, TakeReply
  <1>5. CASE SelfTestRecorded
    <2>1. pc = "frames" /\ pc' = "frames" /\ UNCHANGED <<page, onBootPage, animActive, away>>
      BY <1>5 DEF SelfTestRecorded, TakeReply
    <2>2. ShowFault \/ (UNCHANGED <<popups, taken>> /\ g_stage' = g_stage + 1)
      BY <1>5, Zenon DEF SelfTestRecorded
    <2>3. CASE ShowFault
      BY <2>1, <2>3, FaultShown
    <2>4. CASE UNCHANGED <<popups, taken>> /\ g_stage' = g_stage + 1
      <3>1. g_stage' # Fail
        BY <1>5, <2>4, BootAssumption
        DEF SelfTestRecorded, Recordable, SelfTesting, Step, Fail
      <3> QED
        BY <2>1, <2>4, <3>1
        DEF ScreenInv, ScreenTyped, AwayIsKnown, FailureIsShown, NoLateFinish
    <2> QED
      BY <2>2, <2>3, <2>4
  <1>6. CASE CountStarts
    BY <1>6
    DEF CountStarts, TakeReply, ScreenInv, ScreenTyped, AwayIsKnown, FailureIsShown, NoLateFinish
  <1>6a. CASE FaultReported
    <2>1. /\ UNCHANGED <<g_stage, g_boot_finish_timer, page, onBootPage, animActive, away>>
          /\ pc = "frames" /\ pc' = "frames"
          /\ ShowFault \/ UNCHANGED <<popups, taken>>
      BY <1>6a DEF FaultReported, TakeReply
    <2>2. CASE ShowFault
      BY <2>1, <2>2, FaultShown
    <2>3. CASE UNCHANGED <<popups, taken>>
      BY <2>1, <2>3, ScreenUnmoved DEF uiVars
    <2> QED
      BY <2>1, <2>2, <2>3
  <1>6b. CASE FaultsCleared
    <2>1. /\ UNCHANGED <<g_stage, page, onBootPage, animActive, away>> /\ pc' = "frames"
          /\ popups' = popups \ FaultPopup
          /\ taken' = (taken \/ (g_stage = Fail /\ "faultOnBoot" \in popups))
      BY <1>6b DEF FaultsCleared, TakeReply
    <2>2. taken' \in BOOLEAN
      BY <2>1 DEF ScreenInv, ScreenTyped
    <2>3. FailureIsShown'
      BY <2>1 DEF ScreenInv, FailureIsShown, FaultPopup, LeadsToSensor
    <2> QED
      BY <2>1, <2>2, <2>3 DEF ScreenInv, ScreenTyped, AwayIsKnown, NoLateFinish
  <1>7. CASE Poll
    <2>1. away >= 1 => ~onBootPage
      BY DEF ScreenInv, AwayIsKnown
    <2>2. popups' = popups \/ popups' = popups \cup {"error"}
      BY <1>7
      DEF Poll, PollElsewhere, PollSendHandshake, PollTimeout, PollNothing, ShowError
    <2>3. g_stage' = Fail => g_stage = Fail \/ "error" \in popups'
      BY <1>7
      DEF Poll, PollElsewhere, PollSendHandshake, PollTimeout, PollNothing, ShowError
    <2>4. away >= 1 => g_boot_finish_timer' = NoTimer
      BY <1>7, <2>1
      DEF Poll, PollElsewhere, PollSendHandshake, PollTimeout, PollNothing, PollBoot,
          CancelFinish
    <2>5. PollEnds
      BY <1>7 DEF Poll, PollElsewhere, PollSendHandshake, PollTimeout, PollNothing
    <2> QED
      BY <2>2, <2>3, <2>4, <2>5, PollMovesOn DEF ScreenInv, ScreenTyped, Popup, LeadsToSensor
  <1>8. CASE Controller
    BY <1>8, ScreenUnmoved DEF Controller, Answer, Lose, Spurious
  <1>9. CASE UNCHANGED vars
    BY <1>9, ScreenUnmoved DEF vars
  <1> QED
    BY <1>1, <1>2, <1>3, <1>4, <1>5, <1>6, <1>6a, <1>6b, <1>7, <1>8, <1>9, Zenon
    DEF Next, Lvgl, Frames

LEMMA ScreenAlways == Spec => [](ScreenInv /\ ClockTyped /\ LineTyped)
PROOF
  <1>1. BootInv /\ ScreenInv /\ ClockTyped /\ LineTyped /\ [Next]_vars
        => (ScreenInv /\ ClockTyped /\ LineTyped)'
    BY ScreenStep, ClockStep, LineStep
  <1> QED
    BY <1>1, ScreenInit, BootInvAlways, PTL DEF Spec

(* The values of the boot stay what they are for every number of self-tests*)
(* and every timeout.                                                      *)
THEOREM BootTyped == Spec => []TypeOK
PROOF
  <1>1. BootInv /\ ScreenInv /\ ClockTyped /\ LineTyped => TypeOK
    BY DEF BootInv, ServiceTyped, ScreenInv, ScreenTyped, ClockTyped, LineTyped, TypeOK
  <1> QED
    BY <1>1, BootInvAlways, ScreenAlways, PTL

(* For every number of self-tests and all timeouts, a boot that failed     *)
(* with the user on the boot page shows him a popup that leads on, also    *)
(* after late answers and the faults of a count, unless the controller     *)
(* reported since that no fault is left, which takes the fault popup away  *)
(* (app_boot_runtime.c:114-117, 132-138, app_counting_runtime.c:206-214).  *)
THEOREM BootFailureShown == Spec => []FailureIsShown
  BY ScreenAlways, PTL DEF ScreenInv

(* For every length of the finish delay, no finish comes upon a user who   *)
(* left the boot page more than one loop iteration ago                     *)
(* (app_boot_runtime.c:124-127).                                           *)
THEOREM BootNoLateFinish == Spec => []NoLateFinish
  BY ScreenAlways, PTL DEF ScreenInv
=============================================================================
