----------------------- MODULE SettingRequestsProofs -----------------------
(***************************************************************************)
(* Proofs about SettingRequests for any settings, values, timeout and      *)
(* number of requests: a setting whose reply names its value never comes   *)
(* to a value the controller never had, a page shows what the screen       *)
(* believes, and what the screen believes is true once all is answered.    *)
(***************************************************************************)
EXTENDS SettingRequests, TLAPS

(* The types, by the part of the system the variables belong to.           *)
SlotTyped ==
  /\ pending \in BOOLEAN /\ age \in 0 .. Timeout /\ (pending \/ age = 0)
  /\ target \in Values /\ previous \in Values /\ mirror \in Values
PageTyped == page_open \in BOOLEAN /\ reopened \in BOOLEAN /\ display \in Values
LinkTyped ==
  /\ toController \in Seq(Values) /\ toScreen \in Seq(Replies)
  /\ Len(toController) <= MaxInFlight /\ Len(toScreen) <= MaxInFlight
  /\ ever \subseteq Values /\ actual \in ever
RestTyped ==
  /\ setting \in Settings /\ trusted \in BOOLEAN
  /\ requests \in 0 .. MaxRequests /\ faults \in 0 .. MaxFaults
Typed == SlotTyped /\ PageTyped /\ LinkTyped /\ RestTyped

(* Whatever a reply or a failure may put into the copy of an echoed        *)
(* setting, the controller had it.                                         *)
Vouched(reply) == reply.kind \in {"success", "boot"} => reply.level \in ever
EchoTrue ==
  setting \in Echoed =>
    /\ mirror \in ever /\ previous \in ever
    /\ \A i \in 1 .. Len(toScreen) : Vouched(toScreen[i])

(* Only pages are opened; one that will ignore a success shows what the    *)
(* success will confirm, if it was there when the request was made.        *)
PageKnown ==
  /\ page_open => setting \in Paged
  /\ DisplayAgrees
  /\ page_open /\ pending /\ ~reopened /\ setting \in KeepDisplay => display = target

SettingInv == Typed /\ EchoTrue /\ PageKnown

LEMMA TypedParts == Typed <=> TypeOK
PROOF
  <1>1. LinkTyped => actual \in Values
    BY DEF LinkTyped
  <1> QED
    BY <1>1, Zenon DEF Typed, SlotTyped, PageTyped, LinkTyped, RestTyped, TypeOK

LEMMA AtStart ==
  0 \in 0 .. Timeout /\ 0 \in 0 .. MaxRequests /\ 0 \in 0 .. MaxFaults
  BY SettingAssumption

(* A slot that ends has no age.                                            *)
LEMMA SlotEnds ==
  ASSUME SlotTyped, Finish, mirror' \in Values
  PROVE  SlotTyped'
PROOF
  <1>1. pending' = FALSE /\ age' = 0 /\ target' = target /\ previous' = previous
    BY DEF Finish
  <1> QED
    BY <1>1, AtStart, Zenon DEF SlotTyped

LEMMA SettingInit == Init => SettingInv
PROOF
  <1> SUFFICES ASSUME Init PROVE SettingInv
    OBVIOUS
  <1> USE SettingAssumption DEF Init
  <1>1. SlotTyped
    BY AtStart, Zenon DEF SlotTyped
  <1>2. PageTyped /\ RestTyped
    BY AtStart, Zenon DEF PageTyped, RestTyped
  <1>2a. LinkTyped
    BY DEF LinkTyped
  <1>3. EchoTrue
    BY DEF EchoTrue
  <1>4. PageKnown
    BY DEF PageKnown, DisplayAgrees
  <1> QED
    BY <1>1, <1>2, <1>2a, <1>3, <1>4 DEF SettingInv, Typed

-----------------------------------------------------------------------------
(* What the replies and the timeouts leave behind, in the terms the        *)
(* invariant needs.                                                        *)
AfterReply ==
  /\ SlotTyped' /\ PageTyped' /\ PageKnown'
  /\ setting \in Echoed => mirror' \in ever /\ previous' = previous

LEMMA AfterFailureTyped ==
  ASSUME SlotTyped, EchoTrue
  PROVE  AfterFailure \in Values /\ (setting \in Echoed => AfterFailure \in ever)
  BY DEF SlotTyped, EchoTrue, AfterFailure, Restored, Echoed, Batch, Paged

(* An outcome that is no success, and whose page is told.                  *)
LEMMA FailureOutcome ==
  ASSUME SettingInv, Finish, mirror' = AfterFailure, ShowOutcome(FALSE),
         UNCHANGED <<setting, page_open, reopened>>
  PROVE  AfterReply
PROOF
  <1>1. AfterFailure \in Values /\ (setting \in Echoed => AfterFailure \in ever)
    BY AfterFailureTyped DEF SettingInv, Typed
  <1>2. SlotTyped'
    BY <1>1, SlotEnds DEF SettingInv, Typed
  <1>3. display' = IF setting \in Paged THEN mirror' ELSE display
    BY DEF ShowOutcome
  <1>4. PageTyped'
    BY <1>1, <1>3 DEF SettingInv, Typed, PageTyped
  <1>5. PageKnown'
    BY <1>3 DEF SettingInv, PageKnown, DisplayAgrees, Finish
  <1> QED
    BY <1>1, <1>2, <1>4, <1>5 DEF AfterReply, Finish

LEMMA SuccessOutcome ==
  ASSUME SettingInv, NEW reply, TakeSuccess(reply), Vouched(reply) \/ setting \notin Echoed,
         UNCHANGED <<setting, page_open, reopened>>
  PROVE  AfterReply
PROOF
  <1>1. pending /\ ~pending' /\ age' = 0 /\ mirror' = target
        /\ target' = target /\ previous' = previous
    BY DEF TakeSuccess, CanTakeResult, Finish
  <1>2. SlotTyped'
    <2>1. mirror' \in Values
      BY <1>1 DEF SettingInv, Typed, SlotTyped
    <2> QED
      BY <2>1, SlotEnds DEF SettingInv, Typed, TakeSuccess
  <1>3. setting \in Echoed => mirror' \in ever
    BY <1>1 DEF TakeSuccess, Matches, Vouched
  <1>4. display' = IF setting \in Paged /\ setting \notin KeepDisplay THEN target ELSE display
    BY <1>1 DEF TakeSuccess, ShowOutcome
  <1>5. PageTyped'
    BY <1>4 DEF SettingInv, Typed, SlotTyped, PageTyped
  <1>6. PageKnown'
    BY <1>1, <1>4 DEF SettingInv, PageKnown, DisplayAgrees
  <1> QED
    BY <1>1, <1>2, <1>3, <1>5, <1>6 DEF AfterReply

LEMMA BootOutcome ==
  ASSUME SettingInv, NEW reply \in Replies, TakeBootReport(reply),
         Vouched(reply) \/ setting \notin Echoed, UNCHANGED <<setting, page_open, reopened>>
  PROVE  AfterReply
PROOF
  <1>1. mirror' = reply.level /\ reply.level \in Values /\ reply.kind = "boot"
    BY DEF TakeBootReport, Replies
  <1>2. Finish \/ UNCHANGED slotVars
    BY DEF TakeBootReport
  <1>3. SlotTyped' /\ previous' = previous
    <2>1. CASE Finish
      BY <1>1, <2>1, SlotEnds DEF SettingInv, Typed, Finish
    <2>2. CASE UNCHANGED slotVars
      BY <1>1, <2>2, Zenon DEF SettingInv, Typed, SlotTyped, slotVars
    <2> QED
      BY <1>2, <2>1, <2>2
  <1>4. display' = IF setting \in Paged THEN mirror' ELSE display
    BY DEF TakeBootReport
  <1>5. PageTyped'
    BY <1>1, <1>4 DEF SettingInv, Typed, PageTyped
  <1>6. setting \in Paged => ~pending'
    BY DEF TakeBootReport, DropsRequest, Finish
  <1>7. PageKnown'
    BY <1>4, <1>6 DEF SettingInv, PageKnown, DisplayAgrees
  <1> QED
    BY <1>1, <1>3, <1>5, <1>7 DEF AfterReply, Vouched

LEMMA IgnoredOutcome ==
  ASSUME SettingInv, UNCHANGED <<slotVars, mirror, display, setting, page_open, reopened>>
  PROVE  AfterReply
  BY DEF SettingInv, Typed, SlotTyped, PageTyped, PageKnown, DisplayAgrees, EchoTrue,
         AfterReply, slotVars

(* A reply taken off the line.                                             *)
LEMMA ReplyStep == SettingInv /\ TakeReply => SettingInv'
PROOF
  <1> SUFFICES ASSUME SettingInv, TakeReply PROVE SettingInv'
    OBVIOUS
  <1> DEFINE reply == Head(toScreen)
  <1>1. /\ toScreen \in Seq(Replies) /\ toScreen # <<>> /\ toScreen' = Tail(toScreen)
        /\ TakeSuccess(reply) \/ TakeFailure(reply) \/ TakeBootReport(reply) \/ Ignore(reply)
        /\ UNCHANGED <<setting, page_open, reopened, toController, actual, ever,
                       requests, faults, trusted>>
    BY DEF TakeReply, SettingInv, Typed, LinkTyped
  <1>2. reply \in Replies /\ reply = toScreen[1] /\ 1 \in 1 .. Len(toScreen)
    BY <1>1
  <1>3. Vouched(reply) \/ setting \notin Echoed
    BY <1>2 DEF SettingInv, EchoTrue
  <1> HIDE DEF reply
  <1>4. AfterReply
    <2>1. CASE TakeSuccess(reply)
      BY <1>1, <1>3, <2>1, SuccessOutcome
    <2>2. CASE TakeFailure(reply)
      BY <1>1, <2>2, FailureOutcome DEF TakeFailure
    <2>3. CASE TakeBootReport(reply)
      BY <1>1, <1>2, <1>3, <2>3, BootOutcome
    <2>4. CASE Ignore(reply)
      BY <1>1, <2>4, IgnoredOutcome DEF Ignore
    <2> QED
      BY <1>1, <2>1, <2>2, <2>3, <2>4
  <1>5. /\ toScreen' \in Seq(Replies) /\ Len(toScreen') = Len(toScreen) - 1
        /\ \A i \in 1 .. Len(toScreen') :
             i + 1 \in 1 .. Len(toScreen) /\ toScreen'[i] = toScreen[i + 1]
    BY <1>1
  <1>6. LinkTyped'
    BY <1>1, <1>5, SettingAssumption DEF SettingInv, Typed, LinkTyped
  <1>7. RestTyped'
    BY <1>1, Zenon DEF SettingInv, Typed, RestTyped
  <1>8. EchoTrue'
    BY <1>1, <1>4, <1>5 DEF SettingInv, EchoTrue, Vouched, AfterReply
  <1> QED
    BY <1>4, <1>6, <1>7, <1>8 DEF AfterReply, SettingInv, Typed

LEMMA TimeoutStep == SettingInv /\ TakeTimeout => SettingInv'
PROOF
  <1> SUFFICES ASSUME SettingInv, TakeTimeout PROVE SettingInv'
    OBVIOUS
  <1>1. AfterReply
    BY FailureOutcome DEF TakeTimeout
  <1>2. LinkTyped'
    BY DEF TakeTimeout, SettingInv, Typed, LinkTyped, linkVars
  <1>3. RestTyped'
    BY DEF TakeTimeout, SettingInv, Typed, RestTyped
  <1>4. EchoTrue'
    BY <1>1 DEF TakeTimeout, SettingInv, EchoTrue, Vouched, AfterReply, linkVars
  <1> QED
    BY <1>1, <1>2, <1>3, <1>4 DEF AfterReply, SettingInv, Typed

-----------------------------------------------------------------------------
(* The user, time, the controller and the line.                            *)
LEMMA RequestStep ==
  ASSUME SettingInv, NEW value \in Values, Request(value)
  PROVE  SettingInv'
PROOF
  <1>1. /\ ~pending /\ Offered(value)
        /\ pending' = TRUE /\ age' = 0 /\ target' = value /\ previous' = mirror
        /\ toController' = Append(toController, value) /\ Len(toController) < MaxInFlight
        /\ display' = (IF setting \in Paged THEN value ELSE display) /\ reopened' = FALSE
        /\ requests < MaxRequests /\ requests' = requests + 1
        /\ UNCHANGED <<setting, mirror, page_open, toScreen, actual, ever, faults>>
    BY DEF Request
  <1>2. SlotTyped'
    BY <1>1, AtStart, Zenon DEF SettingInv, Typed, SlotTyped
  <1>3. PageTyped'
    BY <1>1 DEF SettingInv, Typed, PageTyped
  <1>4. LinkTyped'
    BY <1>1, SettingAssumption DEF SettingInv, Typed, LinkTyped
  <1>5. RestTyped'
    <2>1. requests' \in 0 .. MaxRequests
      BY <1>1, SettingAssumption DEF SettingInv, Typed, RestTyped
    <2>2. trusted' = (trusted /\ (BootReportComing => setting = "speed"))
      BY DEF Request
    <2> QED
      BY <1>1, <2>1, <2>2, Zenon DEF SettingInv, Typed, RestTyped
  <1>6. EchoTrue'
    BY <1>1 DEF SettingInv, EchoTrue, Vouched
  <1>7. PageKnown'
    BY <1>1 DEF SettingInv, PageKnown, DisplayAgrees, KeepDisplay, Paged
  <1> QED
    BY <1>2, <1>3, <1>4, <1>5, <1>6, <1>7 DEF SettingInv, Typed

LEMMA PageStep == SettingInv /\ (OpenPage \/ ClosePage) => SettingInv'
PROOF
  <1> SUFFICES ASSUME SettingInv, OpenPage \/ ClosePage PROVE SettingInv'
    OBVIOUS
  <1>1. UNCHANGED <<setting, slotVars, mirror, linkVars, requests, faults, trusted>>
    BY DEF OpenPage, ClosePage
  <1>2. SlotTyped' /\ RestTyped'
    BY <1>1, Zenon DEF SettingInv, Typed, SlotTyped, RestTyped, slotVars
  <1>3. LinkTyped' /\ EchoTrue'
    BY <1>1 DEF SettingInv, Typed, LinkTyped, EchoTrue, Vouched, slotVars, linkVars
  <1>4. CASE OpenPage
    <2>1. PageTyped'
      BY <1>4 DEF OpenPage, SettingInv, Typed, SlotTyped, PageTyped
    <2>2. PageKnown'
      BY <1>1, <1>4 DEF OpenPage, PageKnown, DisplayAgrees, slotVars
    <2> QED
      BY <1>2, <1>3, <2>1, <2>2 DEF SettingInv, Typed
  <1>5. CASE ClosePage
    <2>1. PageTyped'
      BY <1>5 DEF ClosePage, SettingInv, Typed, PageTyped
    <2>2. PageKnown'
      BY <1>5 DEF ClosePage, PageKnown, DisplayAgrees
    <2> QED
      BY <1>2, <1>3, <2>1, <2>2 DEF SettingInv, Typed
  <1> QED
    BY <1>4, <1>5

LEMMA TickStep == SettingInv /\ Tick => SettingInv'
PROOF
  <1> SUFFICES ASSUME SettingInv, Tick PROVE SettingInv'
    OBVIOUS
  <1>1. /\ pending /\ age < Timeout /\ age' = age + 1
        /\ UNCHANGED <<setting, pending, target, previous, mirror, pageVars, linkVars,
                       requests, faults, trusted>>
    BY DEF Tick
  <1>2. SlotTyped'
    <2>1. age' \in 0 .. Timeout
      BY <1>1, SettingAssumption DEF SettingInv, Typed, SlotTyped
    <2> QED
      BY <1>1, <2>1, Zenon DEF SettingInv, Typed, SlotTyped
  <1>3. PageTyped' /\ RestTyped'
    BY <1>1, Zenon DEF SettingInv, Typed, PageTyped, RestTyped, pageVars
  <1>4. LinkTyped' /\ EchoTrue'
    BY <1>1 DEF SettingInv, Typed, LinkTyped, EchoTrue, Vouched, linkVars
  <1>5. PageKnown'
    BY <1>1 DEF SettingInv, PageKnown, DisplayAgrees, pageVars
  <1> QED
    BY <1>2, <1>3, <1>4, <1>5 DEF SettingInv, Typed

(* What the controller says of its values, it vouches for.                 *)
LEMMA Said ==
  ASSUME SettingInv, NEW reply \in Replies, toScreen' = Append(toScreen, reply),
         Len(toScreen) < MaxInFlight, ever \subseteq ever', ever' \subseteq Values,
         actual' \in ever', reply.kind \in {"success", "boot"} => reply.level \in ever',
         toController' \in Seq(Values), Len(toController') <= MaxInFlight,
         UNCHANGED <<setting, mirror, previous>>
  PROVE  LinkTyped' /\ EchoTrue'
PROOF
  <1>1. /\ toScreen \in Seq(Replies) /\ Len(toScreen) \in Nat
        /\ toScreen' \in Seq(Replies) /\ Len(toScreen') = Len(toScreen) + 1
        /\ \A i \in 1 .. Len(toScreen') :
             \/ i \in 1 .. Len(toScreen) /\ toScreen'[i] = toScreen[i]
             \/ toScreen'[i] = reply
    BY DEF SettingInv, Typed, LinkTyped
  <1>2. LinkTyped'
    BY <1>1, SettingAssumption DEF LinkTyped
  <1>3. EchoTrue'
    BY <1>1 DEF SettingInv, EchoTrue, Vouched
  <1> QED
    BY <1>2, <1>3

(* Neither the controller nor the line touches the screen's own state.     *)
LEMMA OtherSide ==
  ASSUME SettingInv, UNCHANGED <<setting, slotVars, mirror, pageVars>>
  PROVE  SlotTyped' /\ PageTyped' /\ PageKnown'
PROOF
  <1>1. SlotTyped' /\ PageTyped'
    BY Zenon DEF SettingInv, Typed, SlotTyped, PageTyped, slotVars, pageVars
  <1>2. PageKnown'
    BY DEF SettingInv, PageKnown, DisplayAgrees, slotVars, pageVars
  <1> QED
    BY <1>1, <1>2

LEMMA ServeStep == SettingInv /\ Serve => SettingInv'
PROOF
  <1> SUFFICES ASSUME SettingInv, Serve PROVE SettingInv'
    OBVIOUS
  <1> DEFINE value == Head(toController)
  <1>1. /\ toController \in Seq(Values) /\ toController # <<>>
        /\ toController' = Tail(toController) /\ Len(toScreen) < MaxInFlight
        /\ \/ /\ actual' = value /\ ever' = ever \cup {value}
              /\ toScreen' = Append(toScreen, Reply("success", value))
           \/ /\ toScreen' = Append(toScreen, Reply("failure", value))
              /\ UNCHANGED <<actual, ever>>
        /\ UNCHANGED <<setting, slotVars, mirror, pageVars, requests, faults, trusted>>
    BY DEF Serve, SettingInv, Typed, LinkTyped
  <1>2. /\ value \in Values /\ toController' \in Seq(Values)
        /\ Len(toController') <= MaxInFlight
    BY <1>1, SettingAssumption DEF SettingInv, Typed, LinkTyped
  <1>3. /\ Reply("success", value) \in Replies /\ Reply("failure", value) \in Replies
        /\ Reply("success", value).level = value /\ Reply("failure", value).kind = "failure"
    BY <1>2 DEF Reply, Replies
  <1> HIDE DEF value
  <1>4. ever \subseteq Values /\ actual \in ever
    BY DEF SettingInv, Typed, LinkTyped
  <1>5. LinkTyped' /\ EchoTrue'
    <2>1. CASE /\ actual' = value /\ ever' = ever \cup {value}
               /\ toScreen' = Append(toScreen, Reply("success", value))
      BY <1>1, <1>2, <1>3, <1>4, <2>1, Said DEF slotVars
    <2>2. CASE toScreen' = Append(toScreen, Reply("failure", value))
               /\ UNCHANGED <<actual, ever>>
      BY <1>1, <1>2, <1>3, <1>4, <2>2, Said DEF slotVars
    <2> QED
      BY <1>1, <2>1, <2>2
  <1>6. RestTyped'
    BY <1>1, Zenon DEF SettingInv, Typed, RestTyped
  <1> QED
    BY <1>1, <1>5, <1>6, OtherSide DEF SettingInv, Typed

LEMMA FaultStep ==
  ASSUME SettingInv, faults < MaxFaults, faults' = faults + 1, trusted' \in BOOLEAN,
         UNCHANGED <<setting, requests>>
  PROVE  RestTyped'
PROOF
  <1>1. faults' \in 0 .. MaxFaults
    BY SettingAssumption DEF SettingInv, Typed, RestTyped
  <1> QED
    BY <1>1, Zenon DEF SettingInv, Typed, RestTyped

LEMMA BootStep ==
  ASSUME SettingInv, NEW value \in Values, ControllerBoots(value)
  PROVE  SettingInv'
PROOF
  <1>1. /\ faults < MaxFaults /\ faults' = faults + 1 /\ Len(toScreen) < MaxInFlight
        /\ toController' = <<>> /\ actual' = value /\ ever' = ever \cup {value}
        /\ toScreen' = Append(toScreen, Reply("boot", value))
        /\ trusted' = (trusted /\ (pending => setting = "speed"))
        /\ UNCHANGED <<setting, slotVars, mirror, pageVars, requests>>
    BY DEF ControllerBoots
  <1>2. Reply("boot", value) \in Replies /\ Reply("boot", value).level = value
    BY DEF Reply, Replies
  <1>3. toController' \in Seq(Values) /\ Len(toController') <= MaxInFlight
    BY <1>1, SettingAssumption
  <1>4. ever \subseteq Values
    BY DEF SettingInv, Typed, LinkTyped
  <1>5. LinkTyped' /\ EchoTrue'
    BY <1>1, <1>2, <1>3, <1>4, Said DEF slotVars
  <1>6. trusted' \in BOOLEAN
    BY <1>1, Zenon DEF SettingInv, Typed, RestTyped
  <1>7. RestTyped'
    BY <1>1, <1>6, FaultStep
  <1> QED
    BY <1>1, <1>5, <1>7, OtherSide DEF SettingInv, Typed

LEMMA LoseStep == SettingInv /\ Lose => SettingInv'
PROOF
  <1> SUFFICES ASSUME SettingInv, Lose PROVE SettingInv'
    OBVIOUS
  <1>1. /\ faults < MaxFaults /\ faults' = faults + 1 /\ trusted' = FALSE
        /\ \/ toController # <<>> /\ toController' = Tail(toController) /\ UNCHANGED toScreen
           \/ toScreen # <<>> /\ toScreen' = Tail(toScreen) /\ UNCHANGED toController
        /\ UNCHANGED <<setting, slotVars, mirror, pageVars, actual, ever, requests>>
    BY DEF Lose
  <1>2. RestTyped'
    BY <1>1, FaultStep
  <1>3. CASE toController # <<>> /\ toController' = Tail(toController) /\ UNCHANGED toScreen
    <2>1. LinkTyped'
      BY <1>1, <1>3, SettingAssumption DEF SettingInv, Typed, LinkTyped
    <2>2. EchoTrue'
      BY <1>1, <1>3 DEF SettingInv, EchoTrue, Vouched, slotVars
    <2> QED
      BY <1>1, <1>2, <2>1, <2>2, OtherSide DEF SettingInv, Typed
  <1>4. CASE toScreen # <<>> /\ toScreen' = Tail(toScreen) /\ UNCHANGED toController
    <2>1. /\ toScreen \in Seq(Replies) /\ toScreen' \in Seq(Replies)
          /\ Len(toScreen') = Len(toScreen) - 1
          /\ \A i \in 1 .. Len(toScreen') :
               i + 1 \in 1 .. Len(toScreen) /\ toScreen'[i] = toScreen[i + 1]
      BY <1>4 DEF SettingInv, Typed, LinkTyped
    <2>1a. Len(toScreen') <= MaxInFlight
      BY <2>1, SettingAssumption DEF SettingInv, Typed, LinkTyped
    <2>2. LinkTyped'
      BY <1>1, <1>4, <2>1, <2>1a, Zenon DEF SettingInv, Typed, LinkTyped
    <2>3. EchoTrue'
      BY <1>1, <2>1 DEF SettingInv, EchoTrue, Vouched, slotVars
    <2> QED
      BY <1>1, <1>2, <2>2, <2>3, OtherSide DEF SettingInv, Typed
  <1> QED
    BY <1>1, <1>3, <1>4

LEMMA StutterStep == SettingInv /\ UNCHANGED vars => SettingInv'
PROOF
  <1> SUFFICES ASSUME SettingInv, UNCHANGED vars PROVE SettingInv'
    OBVIOUS
  <1>1. LinkTyped' /\ EchoTrue'
    BY DEF vars, SettingInv, Typed, LinkTyped, EchoTrue, Vouched, slotVars, linkVars
  <1>2. RestTyped'
    BY Zenon DEF vars, SettingInv, Typed, RestTyped
  <1> QED
    BY <1>1, <1>2, OtherSide DEF vars, SettingInv, Typed

-----------------------------------------------------------------------------
LEMMA SettingInvAlways == Spec => []SettingInv
PROOF
  <1>1. SettingInv /\ [Next]_vars => SettingInv'
    <2> SUFFICES ASSUME SettingInv, [Next]_vars PROVE SettingInv'
      OBVIOUS
    <2>1. CASE \E value \in Values : Request(value) \/ ControllerBoots(value)
      BY <2>1, RequestStep, BootStep
    <2>2. CASE OpenPage \/ ClosePage
      BY <2>2, PageStep
    <2>3. CASE TakeReply
      BY <2>3, ReplyStep
    <2>4. CASE TakeTimeout
      BY <2>4, TimeoutStep
    <2>5. CASE Tick
      BY <2>5, TickStep
    <2>6. CASE Serve
      BY <2>6, ServeStep
    <2>7. CASE Lose
      BY <2>7, LoseStep
    <2>8. CASE UNCHANGED vars
      BY <2>8, StutterStep
    <2> QED
      BY <2>1, <2>2, <2>3, <2>4, <2>5, <2>6, <2>7, <2>8, Zenon DEF Next
  <1> QED
    BY <1>1, SettingInit, PTL DEF Spec

(* For every timeout and number of requests, losses and boots, a setting   *)
(* whose reply names its value never takes a value the controller never    *)
(* had: a late reply to another request is told by its value               *)
(* (setting_service.c:523-530), and a failure puts back a value that was   *)
(* confirmed.                                                              *)
THEOREM SettingNeverInvented == Spec => []NeverInvented
PROOF
  <1>1. SettingInv => NeverInvented
    BY TypedParts DEF SettingInv, EchoTrue, NeverInvented
  <1> QED
    BY <1>1, SettingInvAlways, PTL

(* For every setting, a page shows the copy when no request is open, in    *)
(* whatever order it is closed, opened and told of an outcome              *)
(* (page_23_set_flap.c:366-377).                                           *)
THEOREM SettingDisplay == Spec => []DisplayAgrees
PROOF
  <1>1. SettingInv => DisplayAgrees
    BY DEF SettingInv, PageKnown
  <1> QED
    BY <1>1, SettingInvAlways, PTL

-----------------------------------------------------------------------------
(* The copy against the controller.  Handling the replies of a line in     *)
(* order, each of which but a failure brings its value, leaves the copy at *)
(* the controller's value.                                                 *)
Settling(line, copy, value) ==
  /\ (\A i \in 1 .. Len(line) : line[i].kind = "failure") => copy = value
  /\ \A i \in 1 .. Len(line) :
       /\ line[i].kind # "failure"
       /\ \A j \in 1 .. Len(line) : i < j => line[j].kind = "failure"
       => line[i].level = value

(* One request or its one answer is on the way while the slot is open, and *)
(* none while it is not.  Only the speed's reports may cross a request.    *)
OneAnswer ==
  /\ ~pending => /\ toController = <<>>
                 /\ \A i \in 1 .. Len(toScreen) : toScreen[i].kind = "boot"
  /\ pending /\ setting # "speed" =>
       /\ previous = mirror
       /\ \A i \in 1 .. Len(toScreen) : toScreen[i].kind # "boot"
  /\ toController # <<>> =>
       /\ Len(toController) = 1 /\ toController[1] = target
       /\ \A i \in 1 .. Len(toScreen) : toScreen[i].kind = "boot"
  /\ \A i \in 1 .. Len(toScreen) :
       toScreen[i].kind # "boot" =>
         /\ toScreen[i].level = target
         /\ \A j \in 1 .. Len(toScreen) : j # i => toScreen[j].kind = "boot"

(* A request that expired is ended by its timeout, which is not trusted.   *)
MirrorInv == trusted => OneAnswer /\ (IsExpired \/ Settling(toScreen, mirror, actual))

LEMMA SettlingAppend ==
  ASSUME NEW line \in Seq(Replies), NEW copy, NEW value, NEW new, NEW reply \in Replies,
         Settling(line, copy, value),
         IF reply.kind = "failure" THEN new = value ELSE reply.level = new
  PROVE  Settling(Append(line, reply), copy, new)
PROOF
  <1> DEFINE longer == Append(line, reply)
  <1>1. /\ Len(line) \in Nat /\ Len(longer) = Len(line) + 1 /\ longer[Len(line) + 1] = reply
        /\ \A i \in 1 .. Len(line) : longer[i] = line[i]
    OBVIOUS
  <1> HIDE DEF longer
  <1>2. Len(line) + 1 \in 1 .. Len(longer) /\ \A i \in 1 .. Len(line) : i \in 1 .. Len(longer)
    BY <1>1
  <1>3. ASSUME \A i \in 1 .. Len(longer) : longer[i].kind = "failure"
        PROVE  copy = new
    <2>1. reply.kind = "failure"
      BY <1>1, <1>2, <1>3
    <2>2. \A i \in 1 .. Len(line) : line[i].kind = "failure"
      BY <1>1, <1>2, <1>3
    <2> QED
      BY <2>1, <2>2 DEF Settling
  <1>4. ASSUME NEW i \in 1 .. Len(longer), longer[i].kind # "failure",
               \A j \in 1 .. Len(longer) : i < j => longer[j].kind = "failure"
        PROVE  longer[i].level = new
    <2>1. CASE i = Len(line) + 1
      BY <1>1, <1>4, <2>1
    <2>2. CASE i \in 1 .. Len(line)
      <3>1. reply.kind = "failure"
        BY <1>1, <1>2, <1>4, <2>2
      <3>2. \A j \in 1 .. Len(line) : i < j => line[j].kind = "failure"
        BY <1>1, <1>2, <1>4
      <3>3. line[i].level = value
        BY <1>1, <1>4, <2>2, <3>2 DEF Settling
      <3> QED
        BY <1>1, <2>2, <3>1, <3>3
    <2> QED
      BY <1>1, <2>1, <2>2
  <1> QED
    BY <1>3, <1>4 DEF Settling, longer

LEMMA SettlingTail ==
  ASSUME NEW line \in Seq(Replies), line # <<>>, NEW copy, NEW value, NEW new,
         Settling(line, copy, value),
         IF line[1].kind = "failure" THEN new = copy ELSE new = line[1].level
  PROVE  Settling(Tail(line), new, value)
PROOF
  <1> DEFINE rest == Tail(line)
  <1>1. /\ Len(line) \in Nat /\ Len(line) >= 1 /\ Len(rest) = Len(line) - 1
        /\ \A i \in 1 .. Len(rest) : i + 1 \in 1 .. Len(line) /\ rest[i] = line[i + 1]
    OBVIOUS
  <1> HIDE DEF rest
  <1>2. \A i \in 1 .. Len(line) : i = 1 \/ (i - 1 \in 1 .. Len(rest) /\ line[i] = rest[i - 1])
    <2> SUFFICES ASSUME NEW i \in 1 .. Len(line), i # 1
                 PROVE  i - 1 \in 1 .. Len(rest) /\ line[i] = rest[i - 1]
      OBVIOUS
    <2> DEFINE k == i - 1
    <2>1. k \in 1 .. Len(rest) /\ k + 1 = i
      BY <1>1
    <2> HIDE DEF k
    <2>2. line[i] = rest[k]
      BY <1>1, <2>1
    <2> QED
      BY <2>1, <2>2 DEF k
  <1>3. ASSUME \A i \in 1 .. Len(rest) : rest[i].kind = "failure"
        PROVE  new = value
    <2>1. \A j \in 1 .. Len(line) : 1 < j => line[j].kind = "failure"
      BY <1>2, <1>3
    <2>2. 1 \in 1 .. Len(line)
      BY <1>1
    <2>3. CASE line[1].kind = "failure"
      <3>1. \A j \in 1 .. Len(line) : line[j].kind = "failure"
        BY <1>2, <1>3, <2>3
      <3> QED
        BY <2>3, <3>1 DEF Settling
    <2>4. CASE line[1].kind # "failure"
      BY <2>1, <2>2, <2>4 DEF Settling
    <2> QED
      BY <2>3, <2>4
  <1>4. ASSUME NEW i \in 1 .. Len(rest), rest[i].kind # "failure",
               \A j \in 1 .. Len(rest) : i < j => rest[j].kind = "failure"
        PROVE  rest[i].level = value
    <2>1. i + 1 \in 1 .. Len(line) /\ rest[i] = line[i + 1]
      BY <1>1
    <2>2. \A j \in 1 .. Len(line) : i + 1 < j => line[j].kind = "failure"
      <3> SUFFICES ASSUME NEW j \in 1 .. Len(line), i + 1 < j PROVE line[j].kind = "failure"
        OBVIOUS
      <3>1. j - 1 \in 1 .. Len(rest) /\ line[j] = rest[j - 1] /\ i < j - 1
        BY <1>1, <1>2
      <3> QED
        BY <1>4, <3>1
    <2> QED
      BY <1>4, <2>1, <2>2 DEF Settling
  <1> QED
    BY <1>3, <1>4 DEF Settling, rest

(* The line one reply shorter carries no more answers than before.         *)
LEMMA OneAnswerTail ==
  ASSUME SettingInv, OneAnswer, toScreen # <<>>, toScreen' = Tail(toScreen),
         UNCHANGED <<setting, toController, target>>,
         pending' => pending,
         (pending /\ ~pending') => toScreen[1].kind # "boot",
         pending' /\ setting # "speed" => previous' = mirror'
  PROVE  OneAnswer'
PROOF
  <1>1. /\ toScreen \in Seq(Replies) /\ 1 \in 1 .. Len(toScreen)
        /\ \A i \in 1 .. Len(toScreen') :
             /\ i + 1 \in 1 .. Len(toScreen) /\ i + 1 # 1 /\ toScreen'[i] = toScreen[i + 1]
             /\ \A j \in 1 .. Len(toScreen') : j # i => j + 1 # i + 1
    BY DEF SettingInv, Typed, LinkTyped
  <1>2. \A i \in 1 .. Len(toScreen') :
          toScreen'[i].kind # "boot" =>
            /\ toScreen'[i].level = target
            /\ \A j \in 1 .. Len(toScreen') : j # i => toScreen'[j].kind = "boot"
    BY <1>1 DEF OneAnswer
  <1>3. (\A i \in 1 .. Len(toScreen) : toScreen[i].kind = "boot")
          => \A i \in 1 .. Len(toScreen') : toScreen'[i].kind = "boot"
    BY <1>1
  <1>4. toScreen[1].kind # "boot" => \A i \in 1 .. Len(toScreen') : toScreen'[i].kind = "boot"
    BY <1>1 DEF OneAnswer
  <1>5. toScreen[1].kind # "boot" => toController = <<>>
    BY <1>1 DEF OneAnswer
  <1>6. ~pending' => toController = <<>> /\ \A i \in 1 .. Len(toScreen') : toScreen'[i].kind = "boot"
    BY <1>3, <1>4, <1>5 DEF OneAnswer
  <1>7. pending' /\ setting # "speed" =>
          previous' = mirror' /\ \A i \in 1 .. Len(toScreen') : toScreen'[i].kind # "boot"
    BY <1>1 DEF OneAnswer
  <1>8. toController # <<>> =>
          /\ Len(toController) = 1 /\ toController[1] = target
          /\ \A i \in 1 .. Len(toScreen') : toScreen'[i].kind = "boot"
    BY <1>3 DEF OneAnswer
  <1> QED
    BY <1>2, <1>6, <1>7, <1>8 DEF OneAnswer

LEMMA MirrorReply == SettingInv /\ MirrorInv /\ TakeReply => MirrorInv'
PROOF
  <1> SUFFICES ASSUME SettingInv, MirrorInv, TakeReply, trusted'
               PROVE  MirrorInv'
    BY DEF MirrorInv
  <1> DEFINE reply == Head(toScreen)
  <1>1. /\ toScreen \in Seq(Replies) /\ toScreen # <<>> /\ toScreen' = Tail(toScreen)
        /\ TakeSuccess(reply) \/ TakeFailure(reply) \/ TakeBootReport(reply) \/ Ignore(reply)
        /\ UNCHANGED <<setting, toController, actual>> /\ trusted
    BY DEF TakeReply, SettingInv, Typed, LinkTyped
  <1>2. reply \in Replies /\ reply = toScreen[1] /\ 1 \in 1 .. Len(toScreen)
    BY <1>1
  <1>3. OneAnswer /\ (IsExpired \/ Settling(toScreen, mirror, actual))
    BY <1>1 DEF MirrorInv
  <1> HIDE DEF reply
  <1>4. CASE TakeSuccess(reply)
    <2>1. /\ reply.kind = "success" /\ pending /\ ~IsExpired /\ ~pending' /\ mirror' = target
          /\ target' = target
      BY <1>4 DEF TakeSuccess, CanTakeResult, Finish
    <2>2. OneAnswer'
      BY <1>1, <1>2, <1>3, <2>1, OneAnswerTail
    <2>3. reply.level = target
      BY <1>2, <1>3, <2>1 DEF OneAnswer
    <2>4. Settling(Tail(toScreen), target, actual)
      BY <1>1, <1>2, <1>3, <2>1, <2>3, SettlingTail
    <2>5. Settling(toScreen, mirror, actual)'
      BY <1>1, <2>1, <2>4
    <2> QED
      BY <2>2, <2>5 DEF MirrorInv
  <1>5. CASE TakeFailure(reply)
    <2>1. /\ reply.kind = "failure" /\ pending /\ ~IsExpired /\ ~pending'
          /\ mirror' = AfterFailure /\ target' = target
      BY <1>5 DEF TakeFailure, CanTakeResult, Finish
    <2>2. OneAnswer'
      BY <1>1, <1>2, <1>3, <2>1, OneAnswerTail
    <2>3. mirror' = mirror
      <3>1. setting \in Restored => setting # "speed"
        BY DEF Restored, Batch, Paged
      <3> QED
        BY <1>3, <2>1, <3>1 DEF AfterFailure, OneAnswer
    <2>4. Settling(Tail(toScreen), mirror, actual)
      BY <1>1, <1>2, <1>3, <2>1, SettlingTail
    <2>5. Settling(toScreen, mirror, actual)'
      BY <1>1, <2>3, <2>4
    <2> QED
      BY <2>2, <2>5 DEF MirrorInv
  <1>6. CASE TakeBootReport(reply)
    <2>1. /\ reply.kind = "boot" /\ mirror' = reply.level
          /\ IF DropsRequest THEN Finish ELSE UNCHANGED slotVars
      BY <1>6 DEF TakeBootReport
    <2>2. pending => setting = "speed"
      BY <1>2, <1>3, <2>1 DEF OneAnswer
    <2>3. pending => UNCHANGED slotVars
      BY <2>1, <2>2 DEF DropsRequest, Paged
    <2>4. pending' = pending /\ target' = target /\ (IsExpired => IsExpired')
      <3>1. CASE pending
        BY <2>3, <3>1 DEF slotVars, IsExpired
      <3>2. CASE ~pending
        <4>1. ~pending' /\ target' = target /\ ~IsExpired
          BY <2>1, <3>2 DEF Finish, slotVars, IsExpired
        <4>2. pending \in BOOLEAN /\ pending' \in BOOLEAN
          BY <2>1 DEF SettingInv, Typed, SlotTyped, Finish, slotVars
        <4> QED
          BY <3>2, <4>1, <4>2
      <3> QED
        BY <3>1, <3>2
    <2>5. OneAnswer'
      BY <1>1, <1>2, <1>3, <2>1, <2>2, <2>4, OneAnswerTail
    <2>6. ~IsExpired => Settling(Tail(toScreen), mirror', actual)
      <3> DEFINE new == mirror'
      <3>1. new = toScreen[1].level /\ toScreen[1].kind # "failure"
        BY <1>2, <2>1
      <3> HIDE DEF new
      <3>2. ~IsExpired => Settling(Tail(toScreen), new, actual)
        BY <1>1, <1>3, <3>1, SettlingTail
      <3> QED
        BY <3>2 DEF new
    <2>7. ~IsExpired => Settling(toScreen, mirror, actual)'
      BY <1>1, <2>6
    <2> QED
      BY <2>4, <2>5, <2>7 DEF MirrorInv
  <1>7. CASE Ignore(reply)
    <2>1. /\ reply.kind # "boot" /\ ~(CanTakeResult /\ Matches(reply))
          /\ UNCHANGED <<slotVars, mirror>>
      BY <1>7 DEF Ignore
    <2>2. pending /\ reply.level = target
      BY <1>2, <1>3, <2>1 DEF OneAnswer
    <2>3. IsExpired
      BY <2>1, <2>2 DEF CanTakeResult, Matches
    <2>4. IsExpired'
      BY <2>1, <2>3 DEF IsExpired, slotVars
    <2>5. pending' /\ target' = target /\ (setting # "speed" => previous' = mirror')
      BY <1>3, <2>1, <2>2 DEF OneAnswer, slotVars
    <2>6. OneAnswer'
      BY <1>1, <1>3, <2>2, <2>5, OneAnswerTail
    <2> QED
      BY <2>4, <2>6 DEF MirrorInv
  <1> QED
    BY <1>1, <1>4, <1>5, <1>6, <1>7

LEMMA MirrorRequest ==
  ASSUME SettingInv, MirrorInv, NEW value \in Values, Request(value)
  PROVE  MirrorInv'
PROOF
  <1> SUFFICES ASSUME trusted' PROVE MirrorInv'
    BY DEF MirrorInv
  <1>1. /\ ~pending /\ pending' = TRUE /\ target' = value /\ previous' = mirror
        /\ toController' = Append(toController, value)
        /\ UNCHANGED <<setting, mirror, toScreen, actual>>
    BY DEF Request
  <1>2. trusted /\ (BootReportComing => setting = "speed")
    BY Zenon DEF Request
  <1>3. OneAnswer /\ Settling(toScreen, mirror, actual)
    BY <1>1, <1>2 DEF MirrorInv, IsExpired
  <1>4. /\ toController = <<>> /\ toScreen \in Seq(Replies)
        /\ \A i \in 1 .. Len(toScreen) : toScreen[i].kind = "boot"
    BY <1>1, <1>3 DEF OneAnswer, SettingInv, Typed, LinkTyped
  <1>5. toController' # <<>> /\ Len(toController') = 1 /\ toController'[1] = value
    BY <1>1, <1>4
  <1>6. setting # "speed" => \A i \in 1 .. Len(toScreen) : toScreen[i].kind # "boot"
    <2>1. DOMAIN toScreen = 1 .. Len(toScreen)
      BY <1>4
    <2> QED
      BY <1>2, <2>1 DEF BootReportComing
  <1>7. OneAnswer'
    BY <1>1, <1>4, <1>5, <1>6 DEF OneAnswer
  <1>8. Settling(toScreen, mirror, actual)'
    BY <1>1, <1>3 DEF Settling
  <1> QED
    BY <1>7, <1>8 DEF MirrorInv

(* The line one reply longer, with an answer to the open request or with a *)
(* report that may cross it.                                               *)
LEMMA OneAnswerAppend ==
  ASSUME SettingInv, OneAnswer, NEW reply \in Replies, toScreen' = Append(toScreen, reply),
         UNCHANGED <<setting, slotVars, mirror>>, toController' = <<>>,
         IF reply.kind = "boot" THEN pending => setting = "speed"
                                ELSE toController # <<>> /\ reply.level = target
  PROVE  OneAnswer'
PROOF
  <1>1. /\ Len(toScreen) \in Nat
        /\ Len(toScreen') = Len(toScreen) + 1 /\ toScreen'[Len(toScreen) + 1] = reply
        /\ \A i \in 1 .. Len(toScreen) : toScreen'[i] = toScreen[i]
        /\ \A i \in 1 .. Len(toScreen') : i = Len(toScreen) + 1 \/ i \in 1 .. Len(toScreen)
    BY DEF SettingInv, Typed, LinkTyped
  <1>2. /\ pending' = pending /\ target' = target /\ previous' = previous
        /\ mirror' = mirror /\ setting' = setting
    BY DEF slotVars
  <1>3. CASE reply.kind = "boot"
    <2>1. ~pending => \A i \in 1 .. Len(toScreen') : toScreen'[i].kind = "boot"
      BY <1>1, <1>3 DEF OneAnswer
    <2>2. \A i \in 1 .. Len(toScreen') :
            toScreen'[i].kind # "boot" =>
              /\ toScreen'[i].level = target
              /\ \A j \in 1 .. Len(toScreen') : j # i => toScreen'[j].kind = "boot"
      BY <1>1, <1>3 DEF OneAnswer
    <2> QED
      BY <1>2, <1>3, <2>1, <2>2 DEF OneAnswer
  <1>4. CASE reply.kind # "boot"
    <2>1. pending /\ \A i \in 1 .. Len(toScreen) : toScreen[i].kind = "boot"
      BY <1>4 DEF OneAnswer
    <2>2. \A i \in 1 .. Len(toScreen') :
            toScreen'[i].kind # "boot" =>
              /\ toScreen'[i].level = target
              /\ \A j \in 1 .. Len(toScreen') : j # i => toScreen'[j].kind = "boot"
      BY <1>1, <1>4, <2>1
    <2>3. setting # "speed" => previous = mirror /\ \A i \in 1 .. Len(toScreen') : toScreen'[i].kind # "boot"
      BY <1>1, <1>4, <2>1 DEF OneAnswer
    <2> QED
      BY <1>2, <2>1, <2>2, <2>3 DEF OneAnswer
  <1> QED
    BY <1>3, <1>4

LEMMA MirrorServe == SettingInv /\ MirrorInv /\ Serve => MirrorInv'
PROOF
  <1> SUFFICES ASSUME SettingInv, MirrorInv, Serve, trusted'
               PROVE  MirrorInv'
    BY DEF MirrorInv
  <1> DEFINE value == Head(toController)
  <1>1. /\ toController \in Seq(Values) /\ toController # <<>>
        /\ toController' = Tail(toController) /\ trusted
        /\ \/ /\ actual' = value
              /\ toScreen' = Append(toScreen, Reply("success", value))
           \/ /\ toScreen' = Append(toScreen, Reply("failure", value))
              /\ actual' = actual
        /\ UNCHANGED <<setting, slotVars, mirror>>
    BY DEF Serve, SettingInv, Typed, LinkTyped
  <1>2. value \in Values /\ value = toController[1]
    BY <1>1
  <1> HIDE DEF value
  <1>3. OneAnswer /\ (IsExpired \/ Settling(toScreen, mirror, actual))
    BY <1>1 DEF MirrorInv
  <1>4. value = target /\ toController' = <<>>
    BY <1>1, <1>2, <1>3 DEF OneAnswer
  <1>5. PICK reply \in Replies :
          /\ toScreen' = Append(toScreen, reply) /\ reply.kind # "boot" /\ reply.level = value
          /\ IF reply.kind = "failure" THEN actual' = actual ELSE reply.level = actual'
    <2>1. /\ Reply("success", value) \in Replies /\ Reply("failure", value) \in Replies
          /\ Reply("success", value).level = value /\ Reply("success", value).kind = "success"
          /\ Reply("failure", value).level = value /\ Reply("failure", value).kind = "failure"
      BY <1>2 DEF Reply, Replies
    <2>2. CASE actual' = value /\ toScreen' = Append(toScreen, Reply("success", value))
      BY <2>1, <2>2
    <2>3. CASE toScreen' = Append(toScreen, Reply("failure", value)) /\ actual' = actual
      BY <2>1, <2>3
    <2> QED
      BY <1>1, <2>2, <2>3
  <1>6. OneAnswer'
    BY <1>1, <1>3, <1>4, <1>5, OneAnswerAppend
  <1>7. IsExpired => IsExpired'
    BY <1>1 DEF IsExpired, slotVars
  <1>8. ~IsExpired => Settling(toScreen, mirror, actual)'
    <2> DEFINE new == actual'
    <2>1. toScreen \in Seq(Replies) /\ IF reply.kind = "failure" THEN new = actual ELSE reply.level = new
      BY <1>5 DEF SettingInv, Typed, LinkTyped
    <2> HIDE DEF new
    <2>2. ~IsExpired => Settling(Append(toScreen, reply), mirror, new)
      BY <1>3, <2>1, SettlingAppend
    <2> QED
      BY <1>1, <1>5, <2>2 DEF new
  <1> QED
    BY <1>6, <1>7, <1>8 DEF MirrorInv

LEMMA MirrorBoot ==
  ASSUME SettingInv, MirrorInv, NEW value \in Values, ControllerBoots(value)
  PROVE  MirrorInv'
PROOF
  <1> SUFFICES ASSUME trusted' PROVE MirrorInv'
    BY DEF MirrorInv
  <1> DEFINE reply == Reply("boot", value)
  <1>1. /\ toController' = <<>> /\ actual' = value /\ toScreen' = Append(toScreen, reply)
        /\ UNCHANGED <<setting, slotVars, mirror>>
    BY DEF ControllerBoots
  <1>2. trusted /\ (pending => setting = "speed")
    BY Zenon DEF ControllerBoots
  <1>3. reply \in Replies /\ reply.kind = "boot" /\ reply.level = value
    BY DEF Reply, Replies
  <1> HIDE DEF reply
  <1>4. OneAnswer /\ (IsExpired \/ Settling(toScreen, mirror, actual))
    BY <1>2 DEF MirrorInv
  <1>5. OneAnswer'
    BY <1>1, <1>2, <1>3, <1>4, OneAnswerAppend
  <1>6. IsExpired => IsExpired'
    BY <1>1 DEF IsExpired, slotVars
  <1>7. ~IsExpired => Settling(toScreen, mirror, actual)'
    <2>1. toScreen \in Seq(Replies)
      BY DEF SettingInv, Typed, LinkTyped
    <2>2. ~IsExpired => Settling(Append(toScreen, reply), mirror, value)
      BY <1>3, <1>4, <2>1, SettlingAppend
    <2> QED
      BY <1>1, <2>2
  <1> QED
    BY <1>5, <1>6, <1>7 DEF MirrorInv

LEMMA MirrorSameLine ==
  ASSUME SettingInv, MirrorInv,
         UNCHANGED <<setting, pending, target, previous, mirror, toController, toScreen,
                     actual, trusted>>,
         age' = age \/ age' = age + 1
  PROVE  MirrorInv'
PROOF
  <1>1. OneAnswer => OneAnswer'
    BY DEF OneAnswer
  <1>2. IsExpired => IsExpired'
    BY SettingAssumption DEF IsExpired, SettingInv, Typed, SlotTyped
  <1>3. Settling(toScreen, mirror, actual) => Settling(toScreen, mirror, actual)'
    BY DEF Settling
  <1> QED
    BY <1>1, <1>2, <1>3 DEF MirrorInv

(* For every setting, timeout and number of requests, losses and boots:    *)
(* once everything is answered the copy is the controller's value, unless  *)
(* a frame was lost, a request timed out or a report crossed a request     *)
(* (app_setting_reply_basic.c, app_setting_reply_detail.c).                *)
THEOREM SettingMirror == Spec => []MirrorTrue
PROOF
  <1>1. Init => MirrorInv
    BY DEF Init, MirrorInv, OneAnswer, Settling
  <1>2. SettingInv /\ MirrorInv /\ [Next]_vars => MirrorInv'
    <2> SUFFICES ASSUME SettingInv, MirrorInv, [Next]_vars PROVE MirrorInv'
      OBVIOUS
    <2>1. CASE \E value \in Values : Request(value) \/ ControllerBoots(value)
      BY <2>1, MirrorRequest, MirrorBoot
    <2>2. CASE OpenPage \/ ClosePage
      BY <2>2, MirrorSameLine DEF OpenPage, ClosePage, slotVars, linkVars
    <2>3. CASE TakeReply
      BY <2>3, MirrorReply
    <2>4. CASE TakeTimeout \/ Lose
      BY <2>4 DEF TakeTimeout, Lose, MirrorInv
    <2>5. CASE Tick
      BY <2>5, MirrorSameLine DEF Tick, linkVars
    <2>6. CASE Serve
      BY <2>6, MirrorServe
    <2>7. CASE UNCHANGED vars
      BY <2>7, MirrorSameLine DEF vars, slotVars, linkVars
    <2> QED
      BY <2>1, <2>2, <2>3, <2>4, <2>5, <2>6, <2>7, Zenon DEF Next
  <1>3. MirrorInv => MirrorTrue
    BY DEF MirrorInv, MirrorTrue, Quiet, IsExpired, Settling
  <1> QED
    BY <1>1, <1>2, <1>3, SettingInvAlways, PTL DEF Spec
=============================================================================
