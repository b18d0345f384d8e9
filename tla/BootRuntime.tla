---------------------------- MODULE BootRuntime ----------------------------
(***************************************************************************)
(* The power-on sequence: src/un260/boot/boot_service.c, boot/boot_reply.c *)
(* and app_service/app_boot_runtime.c, driven by the main loop of main.c.  *)
(* The panel sends handshakes until the controller answers, then asks for  *)
(* one self-test after the other, then leaves the boot page.               *)
(*                                                                         *)
(* One loop iteration runs LVGL (timers and touches), the received frames  *)
(* and the boot poll, in that order; pc says which part is next.  Clocks   *)
(* are ages that stop counting at the limit the code compares them with.   *)
(***************************************************************************)
EXTENDS Naturals, Sequences, FiniteSets

CONSTANTS
  NumSteps,     \* length of g_self_test_sequence
  TotalTimeout, \* BOOT_SERVICE_TOTAL_TIMEOUT_MS, in ticks
  Retry,        \* BOOT_SERVICE_HANDSHAKE_RETRY_MS, in ticks
  FinishDelay,  \* APP_BOOT_FINISH_DELAY_MS, in ticks
  MaxSpurious   \* bound: frames the controller sends that nobody asked for

ASSUME BootAssumption ==
  /\ NumSteps \in Nat \ {0}
  /\ TotalTimeout \in Nat \ {0} /\ Retry \in Nat \ {0} /\ FinishDelay \in Nat \ {0}
  /\ MaxSpurious \in Nat

Step == 1 .. NumSteps      \* the self-tests, in the order they are asked for
Verdict == {"pass", "fail"}

(* boot_stage_t: 0 handshake, the NumSteps self-test stages, done, fail.   *)
Handshake == 0
Done == NumSteps + 1
Fail == NumSteps + 2
Stage == 0 .. Fail
SelfTesting(s) == s \in Step

NoTimer == FinishDelay + 1 \* g_boot_finish_timer == NULL

(* The error popup of a timeout, and the fault popup, of which there is at *)
(* most one: failed self-tests and the faults of a count share it.  What   *)
(* CONFIRM does on it is fixed when it is shown: on the boot page it goes  *)
(* to the sensor page, on any other it stays.                              *)
FaultPopup == {"faultOnBoot", "faultElsewhere"}
LeadsToSensor == {"error", "faultOnBoot"}
Popup == LeadsToSensor \cup FaultPopup

VARIABLES
  g_stage,
  g_boot_started,
  g_boot_timeout_consumed,
  g_handshake_state,           \* "idle", "sent", "ok"
  g_self_test_sequence_index,  \* how many self-tests were asked for
  g_self_test_results,         \* per step: "none" or its verdict
  g_self_test_event_consumed,
  bootAge,                     \* now - g_boot_start_tick
  handshakeAge,                \* now - g_handshake_tick
  g_boot_finish_timer,         \* age of the finish timer, NoTimer for NULL
  page,                        \* "boot", "main" or "sensor"
  onBootPage,                  \* the loop's current_page == UI_PAGE_BOOT
  animActive,                  \* ui_page_00_boot_anim_is_active()
  popups,                      \* the popups on the screen
  taken,                       \* history: a report "no fault" took a failed boot's popup
  away,                        \* history: boot polls since the boot page was left
  pc,                          \* next part of the loop
  asked,                       \* requests the controller has not answered
  replies,                     \* answers not yet handled, oldest first
  spurious                     \* unasked frames so far

serviceVars == <<g_stage, g_boot_started, g_boot_timeout_consumed, g_handshake_state,
                 g_self_test_sequence_index, g_self_test_results,
                 g_self_test_event_consumed>>
clocks == <<bootAge, handshakeAge>>
uiVars == <<page, onBootPage, animActive, popups, taken, away>>
lineVars == <<asked, replies, spurious>>
vars == <<serviceVars, clocks, g_boot_finish_timer, uiVars, pc, lineVars>>

HandshakeReplies == [kind : {"handshake"}, ok : BOOLEAN]
SelfTestReplies == [kind : {"selftest"}, step : Step, verdict : Verdict]
CountReports == [kind : {"start", "fault", "clear"}]
Replies == HandshakeReplies \cup SelfTestReplies \cup CountReports

Init ==
  /\ g_stage = Handshake
  /\ g_boot_started = FALSE
  /\ g_boot_timeout_consumed = FALSE
  /\ g_handshake_state = "idle"
  /\ g_self_test_sequence_index = 0
  /\ g_self_test_results = [s \in Step |-> "none"]
  /\ g_self_test_event_consumed = FALSE
  /\ bootAge = 0 /\ handshakeAge = 0
  /\ g_boot_finish_timer = NoTimer
  /\ page = "boot" /\ onBootPage = TRUE /\ animActive = TRUE
  /\ popups = {} /\ taken = FALSE /\ away = 0
  /\ pc = "lvgl"
  /\ asked = <<>> /\ replies = <<>> /\ spurious = 0

-----------------------------------------------------------------------------
(* Time passes: every running clock ages, up to the limit it is compared   *)
(* with.                                                                   *)
Capped(age, limit) == IF age < limit THEN age + 1 ELSE age

TimerDue == g_boot_finish_timer = FinishDelay

Tick ==
  /\ bootAge' = Capped(bootAge, TotalTimeout)
  /\ handshakeAge' = Capped(handshakeAge, Retry)
  /\ g_boot_finish_timer' =
       IF g_boot_finish_timer = NoTimer THEN NoTimer
                                        ELSE Capped(g_boot_finish_timer, FinishDelay)
  /\ UNCHANGED <<serviceVars, uiVars, pc, lineVars>>

-----------------------------------------------------------------------------
(* LVGL's part of the loop.                                                *)
AnimEnds ==
  /\ pc = "lvgl"
  /\ animActive
  /\ animActive' = FALSE
  /\ UNCHANGED <<serviceVars, clocks, g_boot_finish_timer, page, onBootPage, popups, taken,
                 away, pc, lineVars>>

(* CONFIRM on a popup.  A popup survives a change of page.                 *)
Confirm ==
  /\ pc = "lvgl"
  /\ \E p \in popups :
       /\ popups' = popups \ {p}
       /\ page' = IF p \in LeadsToSensor THEN "sensor" ELSE page
  /\ UNCHANGED <<serviceVars, clocks, g_boot_finish_timer, onBootPage, animActive,
                 taken, away, pc, lineVars>>

(* The user changes pages once the boot page is behind him.  A popup covers*)
(* the buttons of the page, but the gestures that lead home work over it.  *)
Navigate ==
  /\ pc = "lvgl"
  /\ page # "boot"
  /\ page' \in {"main", "sensor"} \ {page}
  /\ popups = {} \/ page' = "main"
  /\ UNCHANGED <<serviceVars, clocks, g_boot_finish_timer, onBootPage, animActive,
                 popups, taken, away, pc, lineVars>>

(* app_boot_runtime_finish_timer_cb().                                     *)
FinishTimerFires ==
  /\ pc = "lvgl"
  /\ TimerDue
  /\ g_boot_finish_timer' = NoTimer
  /\ page' = "main"
  /\ UNCHANGED <<serviceVars, clocks, onBootPage, animActive, popups, taken, away, pc,
                 lineVars>>

(* lv_timer_handler() returns once every due timer has run.                *)
LvglDone ==
  /\ pc = "lvgl"
  /\ ~TimerDue
  /\ pc' = "frames"
  /\ UNCHANGED <<serviceVars, clocks, g_boot_finish_timer, uiVars, lineVars>>

-----------------------------------------------------------------------------
(* The frame part of the loop: app_boot_runtime_handle_reply().            *)
SendNextSelfTest(index) ==
  IF index < NumSteps
    THEN /\ g_self_test_sequence_index' = index + 1
         /\ asked' = Append(asked, index + 1)
    ELSE /\ g_self_test_sequence_index' = index
         /\ UNCHANGED asked

TakeReply == pc = "frames" /\ replies # <<>> /\ replies' = Tail(replies)

HandshakeAccepted ==
  /\ TakeReply
  /\ Head(replies).kind = "handshake"
  /\ Head(replies).ok
  /\ g_handshake_state = "sent"
  /\ g_handshake_state' = "ok"
  /\ g_self_test_results' = [s \in Step |-> "none"]
  /\ g_self_test_event_consumed' = FALSE
  /\ g_stage' = 1
  /\ SendNextSelfTest(0)
  /\ UNCHANGED <<g_boot_started, g_boot_timeout_consumed, clocks, g_boot_finish_timer,
                 uiVars, pc, spurious>>

(* The guards of boot_reply_self_test_handle() and of                      *)
(* boot_service_record_self_test_result(): only the answer to the last     *)
(* request, once.                                                          *)
Recordable_AnyStep(r) == \* mutant: also the answer to another request
  /\ r.kind = "selftest"
  /\ g_handshake_state = "ok"
  /\ SelfTesting(g_stage)
  /\ g_self_test_results[r.step] = "none"
Recordable_Repeated(r) == \* mutant: also an answer already recorded
  /\ r.kind = "selftest"
  /\ g_handshake_state = "ok"
  /\ SelfTesting(g_stage)

Recordable(r) ==
  /\ r.kind = "selftest"
  /\ g_handshake_state = "ok"
  /\ SelfTesting(g_stage)
  /\ r.step = g_self_test_sequence_index
  /\ g_self_test_results[r.step] = "none"

(* show_fault_popup_ex(): the new fault popup replaces the one before it.  *)
ShowFault ==
  /\ popups' = (popups \ FaultPopup)
                \cup {IF page = "boot" THEN "faultOnBoot" ELSE "faultElsewhere"}
  /\ taken' = FALSE

SelfTestRecorded ==
  /\ TakeReply
  /\ Recordable(Head(replies))
  /\ LET results == [g_self_test_results EXCEPT ![Head(replies).step] = Head(replies).verdict]
         completed == g_stage + 1 > NumSteps /\ ~g_self_test_event_consumed
         failed == \E s \in Step : results[s] = "fail"
     IN  /\ g_self_test_results' = results
         /\ g_stage' = IF completed /\ failed THEN Fail ELSE g_stage + 1
         /\ g_self_test_event_consumed' = (g_self_test_event_consumed \/ completed)
         /\ IF ~completed
              THEN /\ SendNextSelfTest(g_self_test_sequence_index)
                   /\ UNCHANGED <<popups, taken, g_boot_finish_timer>>
              ELSE /\ IF failed THEN ShowFault ELSE UNCHANGED <<popups, taken>>
                   /\ g_boot_finish_timer' = IF failed THEN g_boot_finish_timer ELSE 0
                   /\ UNCHANGED <<g_self_test_sequence_index, asked>>
  /\ UNCHANGED <<g_boot_started, g_boot_timeout_consumed, g_handshake_state, clocks,
                 page, onBootPage, animActive, away, pc, spurious>>

(* 0x0A: notes in the hopper start a count, also during the boot, and the  *)
(* panel shows the counting page unless the user is at the sensors.        *)
CountStarts ==
  /\ TakeReply
  /\ Head(replies).kind = "start"
  /\ page' = IF page = "sensor" THEN page ELSE "main"
  /\ UNCHANGED <<serviceVars, clocks, g_boot_finish_timer, onBootPage, animActive, popups,
                 taken, away, pc, asked, spurious>>

(* 0x0F with a fault and a refused 0x0A, on any page and in any stage: the *)
(* fault popup comes up, or nothing does where the user turned the popups  *)
(* off.                                                                    *)
FaultReported ==
  /\ TakeReply
  /\ Head(replies).kind = "fault"
  /\ ShowFault \/ UNCHANGED <<popups, taken>>
  /\ UNCHANGED <<serviceVars, clocks, g_boot_finish_timer, page, onBootPage, animActive,
                 away, pc, asked, spurious>>

(* 0x0F with code 0: the fault popup goes, whatever it was shown for.      *)
FaultsCleared ==
  /\ TakeReply
  /\ Head(replies).kind = "clear"
  /\ popups' = popups \ FaultPopup
  /\ taken' = (taken \/ (g_stage = Fail /\ "faultOnBoot" \in popups))
  /\ UNCHANGED <<serviceVars, clocks, g_boot_finish_timer, page, onBootPage, animActive,
                 away, pc, asked, spurious>>

ReplyIgnored ==
  /\ TakeReply
  /\ ~Recordable(Head(replies))
  /\ Head(replies) \notin CountReports
  /\ ~(Head(replies).kind = "handshake" /\ Head(replies).ok /\ g_handshake_state = "sent")
  /\ UNCHANGED <<serviceVars, clocks, g_boot_finish_timer, uiVars, pc, asked, spurious>>

(* The queue is empty or the loop has handled its 64 frames.               *)
FramesDone ==
  /\ pc = "frames"
  /\ pc' = "poll"
  /\ UNCHANGED <<serviceVars, clocks, g_boot_finish_timer, uiVars, lineVars>>

-----------------------------------------------------------------------------
(* The poll part: app_boot_runtime_poll() and boot_service_poll().  The    *)
(* next iteration reads the current page right after it.                   *)
PollEnds ==
  /\ pc' = "lvgl"
  /\ onBootPage' = (page = "boot")
  /\ away' = IF page = "boot" THEN 0 ELSE Capped(away, 2)
  /\ UNCHANGED <<page, animActive, taken>>

CancelFinish_Never == UNCHANGED g_boot_finish_timer \* mutant
CancelFinish == g_boot_finish_timer' = NoTimer

PollElsewhere ==
  /\ pc = "poll"
  /\ ~(onBootPage /\ ~animActive)
  /\ CancelFinish
  /\ PollEnds
  /\ UNCHANGED <<serviceVars, clocks, popups, lineVars>>

TimedOut == g_boot_started /\ ~g_boot_timeout_consumed /\ bootAge >= TotalTimeout

(* boot_service_poll() looks at the total timeout only while it waits for  *)
(* the controller, and at the retry interval only while it shakes hands.   *)
WaitsForHandshake == g_stage = Handshake /\ g_handshake_state = "sent"
TimeoutDue_HandshakeOnly == TimedOut /\ WaitsForHandshake \* mutant
TimeoutDue == TimedOut /\ (WaitsForHandshake \/ SelfTesting(g_stage))
HandshakeDue ==
  /\ g_stage = Handshake
  /\ g_handshake_state = "idle" \/ (g_handshake_state = "sent" /\ handshakeAge >= Retry)

PollBoot == pc = "poll" /\ onBootPage /\ ~animActive

(* app_boot_runtime_send_handshake(): first one, or a retry that is due.   *)
PollSendHandshake ==
  /\ PollBoot
  /\ ~TimeoutDue
  /\ HandshakeDue
  /\ g_boot_started' = TRUE
  /\ bootAge' = IF g_boot_started THEN bootAge ELSE 0
  /\ g_handshake_state' = "sent"
  /\ handshakeAge' = 0
  /\ asked' = Append(asked, 0)
  /\ PollEnds
  /\ UNCHANGED <<g_stage, g_boot_timeout_consumed, g_self_test_sequence_index,
                 g_self_test_results, g_self_test_event_consumed, g_boot_finish_timer,
                 popups, replies, spurious>>

(* The total timeout, in the handshake or in a self-test.                  *)
ShowError_SelfTestOnly == \* mutant: no popup for a handshake that timed out
  popups' = IF SelfTesting(g_stage) THEN popups \cup {"error"} ELSE popups
ShowError == popups' = popups \cup {"error"}

PollTimeout ==
  /\ PollBoot
  /\ TimeoutDue
  /\ g_boot_timeout_consumed' = TRUE
  /\ g_stage' = Fail
  /\ ShowError
  /\ PollEnds
  /\ UNCHANGED <<g_boot_started, g_handshake_state, g_self_test_sequence_index,
                 g_self_test_results, g_self_test_event_consumed, clocks,
                 g_boot_finish_timer, lineVars>>

PollNothing ==
  /\ PollBoot
  /\ ~TimeoutDue
  /\ ~HandshakeDue
  /\ PollEnds
  /\ UNCHANGED <<serviceVars, clocks, g_boot_finish_timer, popups, lineVars>>

-----------------------------------------------------------------------------
(* The controller: answers its requests in order, late or never, may fail  *)
(* a handshake or a test, and may send what nobody asked for.              *)
ReplyTo(request, r) ==
  IF request = 0 THEN r \in HandshakeReplies
                 ELSE r \in SelfTestReplies /\ r.step = request

Answer ==
  /\ asked # <<>>
  /\ \E r \in Replies : ReplyTo(Head(asked), r) /\ replies' = Append(replies, r)
  /\ asked' = Tail(asked)
  /\ UNCHANGED <<serviceVars, clocks, g_boot_finish_timer, uiVars, pc, spurious>>

Lose ==
  /\ asked # <<>>
  /\ asked' = Tail(asked)
  /\ UNCHANGED <<serviceVars, clocks, g_boot_finish_timer, uiVars, pc, replies, spurious>>

Spurious ==
  /\ spurious < MaxSpurious
  /\ spurious' = spurious + 1
  /\ \E r \in Replies : replies' = Append(replies, r)
  /\ UNCHANGED <<serviceVars, clocks, g_boot_finish_timer, uiVars, pc, asked>>

Lvgl == AnimEnds \/ Confirm \/ Navigate \/ FinishTimerFires \/ LvglDone
Frames == HandshakeAccepted \/ SelfTestRecorded \/ CountStarts \/ FaultReported
            \/ FaultsCleared \/ ReplyIgnored \/ FramesDone
Poll == PollElsewhere \/ PollSendHandshake \/ PollTimeout \/ PollNothing
Controller == Answer \/ Lose \/ Spurious

Next == Tick \/ Lvgl \/ Frames \/ Poll \/ Controller

(* The loop keeps running, time passes and the boot animation ends.  The   *)
(* user need not press CONFIRM and the controller need not answer.         *)
Fairness ==
  /\ WF_vars(Tick)
  /\ WF_vars(LvglDone) /\ WF_vars(FinishTimerFires) /\ SF_vars(AnimEnds)
  /\ WF_vars(FramesDone) /\ WF_vars(Poll)

Spec == Init /\ [][Next]_vars /\ Fairness

-----------------------------------------------------------------------------
TypeOK ==
  /\ g_stage \in Stage
  /\ g_boot_started \in BOOLEAN /\ g_boot_timeout_consumed \in BOOLEAN
  /\ g_handshake_state \in {"idle", "sent", "ok"}
  /\ g_self_test_sequence_index \in 0 .. NumSteps
  /\ g_self_test_results \in [Step -> Verdict \cup {"none"}]
  /\ g_self_test_event_consumed \in BOOLEAN
  /\ bootAge \in 0 .. TotalTimeout /\ handshakeAge \in 0 .. Retry
  /\ g_boot_finish_timer \in 0 .. NoTimer
  /\ page \in {"boot", "main", "sensor"} /\ onBootPage \in BOOLEAN
  /\ animActive \in BOOLEAN /\ popups \subseteq Popup /\ taken \in BOOLEAN
  /\ away \in 0 .. 2
  /\ pc \in {"lvgl", "frames", "poll"}
  /\ asked \in Seq(0 .. NumSteps) /\ replies \in Seq(Replies)
  /\ spurious \in 0 .. MaxSpurious

(* Three records of the self-test's progress agree whatever late, repeated *)
(* or failed replies arrive: in stage k exactly the first k - 1 results    *)
(* are in and the k-th test, no other, is outstanding (boot_reply.c:42-56, *)
(* boot_service.c:188-203, 223-252).                                       *)
ProgressAgrees ==
  SelfTesting(g_stage) =>
    /\ g_handshake_state = "ok"
    /\ g_self_test_sequence_index = g_stage
    /\ \A s \in Step : g_self_test_results[s] # "none" <=> s < g_stage
    /\ ~g_self_test_event_consumed

(* A finish, which leads to the counting page, is pending only after every *)
(* self-test was answered with a pass, whatever came before: a timeout, a  *)
(* late handshake, repeated or failed answers (app_boot_runtime.c:102-113).*)
AllPassed == \A s \in Step : g_self_test_results[s] = "pass"
FinishOnlyAfterPass ==
  g_boot_finish_timer # NoTimer => g_stage = Done /\ AllPassed

(* A boot that failed while the user was on the boot page has told him: a  *)
(* failed boot without a popup that leads away is a dead end.  No stage,   *)
(* timeout, late or repeated answer or fault of a count leaves it without  *)
(* one; only the controller's report that no fault is left, which hides the*)
(* fault popup whatever it is shown for, takes it away                     *)
(* (app_boot_runtime.c:114-117, 132-138, app_counting_runtime.c:206-214).  *)
FailureIsShown ==
  (g_stage = Fail /\ page = "boot") => popups \cap LeadsToSensor # {} \/ taken

(* The finish, which resets the counting session and changes the page,     *)
(* never comes upon a user who left the boot page more than one loop       *)
(* iteration ago: the boot poll of the next iteration drops the timer, also*)
(* one armed by frames of that iteration (app_boot_runtime.c:124-127).     *)
NoLateFinish == (pc = "lvgl" /\ away = 2) => g_boot_finish_timer = NoTimer

(* The boot comes to an end for the user: whatever the controller answers, *)
(* loses or repeats, he gets another page or a popup to press CONFIRM on.  *)
UserReached == <>(page # "boot" \/ popups # {})

=============================================================================
