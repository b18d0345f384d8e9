----------------------- MODULE CurrencySelectionProofs ----------------------
(***************************************************************************)
(* Proofs about CurrencySelection, for any lists, modes and number of      *)
(* clicks, boots, lost frames and requests on the way: the list is sound,  *)
(* index and code agree, and the screen ends on what the controller has.   *)
(***************************************************************************)
EXTENDS CurrencySelection, SequenceTheorems, WellFoundedInduction, TLAPS

-----------------------------------------------------------------------------
(* What may be on the way.                                                 *)
Requests == Modes \cup {AUTO}
BootCmds == {"start", "code", "end", "mode", "active", "index"}
ModeAnswers == {"mode ok", "mode failed"}
SwitchAnswers == {"switch ok", "switch failed"}
Cmds == BootCmds \cup ModeAnswers \cup SwitchAnswers \cup {"cleared", "detected"}
Argument == Codes \cup Requests \cup {NoCode} \cup Nat \cup [index : Nat, code : Codes]
Origins == [list : Lists \cup {<<>>}, auto : BOOLEAN, code : Codes \cup {NoCode}]

(* A frame of a report says what the controller had.                       *)
Genuine(f) ==
  /\ f.cmd \in BootCmds => f.of.list \in Lists /\ f.of.code \in ToSet(f.of.list)
  /\ f.cmd = "code" => \E i \in DOMAIN f.of.list : f.arg = [index |-> i, code |-> f.of.list[i]]
  /\ f.cmd = "mode" => f.arg \in Requests /\ (f.of.auto <=> f.arg = AUTO)
  /\ f.cmd = "active" => f.arg = f.of.code
  /\ f.cmd = "index" => f.arg = Find(f.of.code, f.of.list)
  /\ f.cmd = "detected" => f.arg \in Codes
Asks(f) ==
  /\ f.cmd = "mode" => f.arg \in Requests
  /\ f.cmd = "switch" => f.arg \in Codes

ScreenFrame == {f \in [cmd : Cmds, arg : Argument, of : Origins] : Genuine(f)}
ControllerFrame ==
  {f \in [cmd : {"mode", "switch", "clear"}, arg : Argument, of : Origins] : Asks(f)}
LineTyped == toScreen \in Seq(ScreenFrame) /\ toController \in Seq(ControllerFrame)

-----------------------------------------------------------------------------
(* The state, whatever is lost.                                            *)
CodeList(s) ==
  s \in Seq(Codes \cup {AUTO}) /\ Len(s) > 1 /\ s[1] = AUTO /\ IsInjective(s)
StateTyped ==
  /\ CodeList(codes) /\ active_code \in Codes /\ auto_selected \in BOOLEAN
  /\ active_index \in Nat /\ active_index < Len(codes)
  /\ detected_code \in Codes \cup {NoCode}
  /\ auto_selected => active_index = 0
  /\ ~auto_selected => detected_code = NoCode
Switches == [index : 0..MaxCurrencies, code : Codes \cup {NoCode}]
Transitions == [kind : {"none", "to auto", "to manual", "wait"}, index : 0..MaxCurrencies,
                code : Codes \cup {AUTO, NoCode}, mode : Requests \cup {NoCode}]
FlowTyped ==
  /\ mode \in Modes /\ mode_request \in Requests \cup {NoCode}
  /\ clear_pending \in BOOLEAN /\ mode_clear \in {"none", "scheduled", "due"}
  /\ switch_request \in Switches /\ transition \in Transitions
  /\ transition.kind \in {"to manual", "wait"} => transition.code \in Codes
ControllerTyped ==
  /\ list \in Lists /\ ctrl_auto \in BOOLEAN /\ ctrl_code \in ToSet(list)

(* The transfer of a list keeps the codes apart, and at the places they    *)
(* have in the list they are of, if that is one list.                      *)
SyncTyped ==
  /\ sync_active \in BOOLEAN /\ sync_codes \in [1..MaxCurrencies -> Codes \cup {NoCode}]
  /\ ~sync_active => sync_codes = NothingSeen
  /\ sync_of \subseteq Lists /\ mixed \in BOOLEAN
  /\ \A i, j \in 1..MaxCurrencies :
       sync_codes[i] # NoCode /\ sync_codes[i] = sync_codes[j] => i = j
  /\ \A i \in 1..MaxCurrencies :
       sync_codes[i] # NoCode =>
         \E from \in sync_of : i \in DOMAIN from /\ sync_codes[i] = from[i]
  /\ ~mixed => \E whole \in Lists :
                 /\ Len(codes) - 1 <= Len(whole)
                 /\ \A i \in 2..Len(codes) : codes[i] = whole[i - 1]

CurrencyTyped == LineTyped /\ StateTyped /\ FlowTyped /\ ControllerTyped /\ SyncTyped

-----------------------------------------------------------------------------
(* While nothing is lost, late or crossed.                                 *)
(* The reports come whole, frame after frame: each finds the panel where    *)
(* the frames before it left it, and the last is of the controller as it   *)
(* is.                                                                     *)
IsBoot(f) == f.cmd \in BootCmds
IsCode(f, k) == f.cmd = "code" /\ f.arg.index = k
Follows(f, g) ==
  /\ IsBoot(f) /\ IsBoot(g) /\ g.of = f.of /\ f.cmd # "index"
  /\ f.cmd = "start" => IsCode(g, 1)
  /\ f.cmd = "code" => IF f.arg.index < Len(f.of.list) THEN IsCode(g, f.arg.index + 1)
                                                       ELSE g.cmd = "end"
  /\ f.cmd = "end" => g.cmd = "mode"
  /\ f.cmd = "mode" => g.cmd = "active"
  /\ f.cmd = "active" => g.cmd = "index"
Chained(screen) ==
  \A i \in 1..Len(screen) :
    /\ IsBoot(screen[i]) /\ screen[i].cmd # "index" =>
         i < Len(screen) /\ Follows(screen[i], screen[i + 1])
    /\ i < Len(screen) /\ IsBoot(screen[i + 1]) /\ screen[i + 1].cmd # "start" =>
         Follows(screen[i], screen[i + 1])
LastIs(screen, origin) ==
  \A i \in 1..Len(screen) :
    screen[i].cmd = "index" =>
      screen[i].of = origin \/ \E j \in 1..Len(screen) : i < j /\ screen[j].cmd = "start"
Received(from, n) == [i \in 1..MaxCurrencies |-> IF i <= n THEN from[i] ELSE NoCode]
Awaited(f) ==
  /\ f.cmd = "code" => sync_active /\ sync_codes = Received(f.of.list, f.arg.index - 1)
  /\ f.cmd = "end" => sync_active /\ sync_codes = Received(f.of.list, Len(f.of.list))
  /\ f.cmd \in {"mode", "active", "index"} => codes = <<AUTO>> \o f.of.list
  /\ f.cmd \in {"active", "index"} => auto_selected = f.of.auto
  /\ f.cmd = "index" => active_code = f.of.code
InOrder ==
  /\ Chained(toScreen) /\ LastIs(toScreen, Origin(list, ctrl_auto, ctrl_code))
  /\ toScreen # <<>> => Awaited(toScreen[1])

(* A request is on the way, or its answer is, or neither.                  *)
Neither(line, screen, ask, answers) ==
  /\ \A i \in 1..Len(line) : line[i].cmd # ask
  /\ \A i \in 1..Len(screen) : screen[i].cmd \notin answers
Once(line, screen, ask, answers, arg) ==
  /\ \A i \in 1..Len(line) :
       line[i].cmd = ask =>
         /\ line[i].arg = arg
         /\ \A j \in 1..Len(line) : line[j].cmd = ask => j = i
         /\ \A j \in 1..Len(screen) : screen[j].cmd \notin answers
  /\ \A i \in 1..Len(screen) :
       screen[i].cmd \in answers =>
         \A j \in 1..Len(screen) : screen[j].cmd \in answers => j = i
ModeOnce ==
  /\ Once(toController, toScreen, "mode", ModeAnswers, mode_request)
  /\ ~ModePending => Neither(toController, toScreen, "mode", ModeAnswers)
SwitchOnce ==
  /\ Once(toController, toScreen, "switch", SwitchAnswers, switch_request.code)
  /\ ~SwitchPending => Neither(toController, toScreen, "switch", SwitchAnswers)

(* Without a report on the way, the answers that are lead to what the      *)
(* controller has: of two, the one that was given last.                    *)
Has(screen, cmd) == \E i \in 1..Len(screen) : screen[i].cmd = cmd
IsLast(screen, i, cmd, other) ==
  screen[i].cmd = cmd /\ \A j \in 1..Len(screen) : screen[j].cmd = other => j < i
Leads(screen, auto, to_auto, result) ==
  /\ ~Has(screen, "mode ok") /\ ~Has(screen, "switch ok") => (result <=> auto)
  /\ \A i \in 1..Len(screen) :
       /\ IsLast(screen, i, "mode ok", "switch ok") => (result <=> to_auto)
       /\ IsLast(screen, i, "switch ok", "mode ok") => ~result
Settled ==
  /\ codes = <<AUTO>> \o list
  /\ SwitchPending => SelectionListed(switch_request.index, switch_request.code)
  /\ ctrl_code = IF Has(toScreen, "switch ok") THEN switch_request.code ELSE active_code
  /\ Leads(toScreen, auto_selected, mode_request = AUTO, ctrl_auto)

(* The active code is listed, at its index unless AUTO is selected.        *)
Own == Listed(active_code, codes) /\ (~auto_selected => codes[active_index + 1] = active_code)

TrustInv ==
  /\ Own /\ InOrder /\ ModeOnce /\ SwitchOnce
  /\ IF BootComing THEN ~ModePending /\ ~SwitchPending ELSE Settled

CurrencyInv == CurrencyTyped /\ (trusted => TrustInv)

-----------------------------------------------------------------------------
(* Numbers, sequences, lists and where a code is in them.                  *)
LEMMA LeastNat ==
  ASSUME NEW T \in SUBSET Nat, T # {}
  PROVE  \E x \in T : \A y \in T : x <= y
PROOF
  <1> DEFINE R == OpToRel(<, Nat)
  <1>1. IsWellFoundedOn(R, Nat)
    BY NatLessThanWellFounded, Zenon
  <1>2. \A x, y \in Nat : <<x, y>> \in R <=> x < y
    BY DEF OpToRel
  <1> HIDE DEF R
  <1>3. PICK x \in T : \A y \in T : ~(<<y, x>> \in R)
    BY <1>1, WFMin
  <1>4. x \in Nat /\ \A y \in T : y \in Nat /\ ~(y < x)
    BY <1>2, <1>3
  <1> QED
    BY <1>4

LEMMA GreatestNat ==
  ASSUME NEW S \in SUBSET Nat, S # {}, NEW bound \in Nat, \A s \in S : s <= bound
  PROVE  Max(S) \in S /\ \A s \in S : s <= Max(S)
PROOF
  <1> DEFINE T == {b \in Nat : \A s \in S : s <= b}
  <1>1. PICK x \in T : \A y \in T : x <= y
    <2>1. bound \in T
      OBVIOUS
    <2> HIDE DEF T
    <2>2. T \in SUBSET Nat
      BY DEF T
    <2> QED
      BY <2>1, <2>2, LeastNat
  <1>2. x \in S
    <2> SUFFICES ASSUME x \notin S PROVE FALSE
      OBVIOUS
    <2>1. PICK s0 \in S : s0 \in Nat
      OBVIOUS
    <2>2. \A s \in S : s \in Nat /\ s < x /\ s <= x - 1
      BY <1>1
    <2>3. x - 1 \in Nat
      BY <2>1, <2>2, <1>1
    <2>4. x - 1 \in T
      BY <2>2, <2>3
    <2> QED
      BY <1>1, <2>4
  <1>3. \A s \in S : s \in Nat /\ x \in Nat /\ s <= x
    BY <1>1
  <1>4. \E m \in S : \A s \in S : m >= s
    BY <1>2, <1>3
  <1>5. Max(S) \in S /\ \A s \in S : Max(S) >= s
    BY <1>4, Zenon DEF Max
  <1> QED
    BY <1>5

LEMMA Names ==
  /\ AUTO \notin Codes /\ AUTO \notin Modes /\ NoCode \notin Codes /\ NoCode \notin Modes
  /\ AUTO # NoCode /\ MaxCurrencies \in Nat
  BY CurrencyAssumption DEF AUTO, NoCode

LEMMA ListIs ==
  ASSUME NEW new \in Lists
  PROVE  /\ new \in Seq(Codes) /\ Len(new) \in Nat /\ Len(new) >= 1 /\ Len(new) <= MaxCurrencies
         /\ DOMAIN new = 1..Len(new)
         /\ \A i \in 1..Len(new) : new[i] \in Codes
         /\ \A i, j \in 1..Len(new) : new[i] = new[j] => i = j
PROOF
  <1>1. new \in Seq(Codes) /\ Len(new) \in 1..MaxCurrencies /\ IsInjective(new)
    BY CurrencyAssumption, Zenon
  <1>2. Len(new) \in Nat /\ DOMAIN new = 1..Len(new) /\ \A i \in 1..Len(new) : new[i] \in Codes
    BY <1>1
  <1> QED
    BY <1>1, <1>2, Names DEF IsInjective

LEMMA ToSetIs ==
  ASSUME NEW new \in Lists, NEW code
  PROVE  code \in ToSet(new) <=> \E i \in 1..Len(new) : new[i] = code
PROOF
  <1>1. DOMAIN new = 1..Len(new)
    BY ListIs, Zenon
  <1> QED
    BY <1>1, Zenon DEF ToSet

LEMMA FindIs ==
  ASSUME NEW s, NEW n \in Nat, DOMAIN s = 1..n, NEW code, Listed(code, s)
  PROVE  /\ Find(code, s) \in Nat /\ Find(code, s) + 1 \in 1..n
         /\ s[Find(code, s) + 1] = code
PROOF
  <1> DEFINE T == {i \in DOMAIN s : s[i] = code}
             At(i) == s[i] = code /\ \A j \in DOMAIN s : s[j] = code => i <= j
             first == CHOOSE i \in DOMAIN s : At(i)
  <1>1. PICK x \in T : \A y \in T : x <= y
    <2>1. T # {}
      BY DEF Listed
    <2>2. T \in SUBSET Nat
      OBVIOUS
    <2> HIDE DEF T
    <2> QED
      BY <2>1, <2>2, LeastNat
  <1>2. \E i \in DOMAIN s : At(i)
    BY <1>1
  <1>3. first \in DOMAIN s /\ At(first)
    <2> HIDE DEF At
    <2> QED
      BY <1>2, Zenon
  <1>4. Find(code, s) = first - 1
    BY DEF Find
  <1> HIDE DEF first
  <1>5. first \in 1..n /\ s[first] = code
    BY <1>3
  <1>6. first - 1 \in Nat /\ (first - 1) + 1 = first
    BY <1>5
  <1> QED
    BY <1>4, <1>5, <1>6

LEMMA FindIn ==
  ASSUME NEW new \in Lists, NEW code \in ToSet(new)
  PROVE  /\ Listed(code, new) /\ code \in Codes
         /\ Find(code, new) \in Nat /\ Find(code, new) + 1 \in 1..Len(new)
         /\ new[Find(code, new) + 1] = code
PROOF
  <1>1. DOMAIN new = 1..Len(new) /\ Len(new) \in Nat
    BY ListIs
  <1>2. PICK i \in 1..Len(new) : new[i] = code
    BY ToSetIs
  <1>3. Listed(code, new)
    BY <1>1, <1>2 DEF Listed
  <1> QED
    BY <1>1, <1>2, <1>3, FindIs, ListIs

LEMMA Joined ==
  ASSUME NEW S, NEW s \in Seq(S), NEW t \in Seq(S)
  PROVE  /\ s \o t \in Seq(S) /\ Len(s) \in Nat /\ Len(t) \in Nat
         /\ Len(s \o t) = Len(s) + Len(t)
         /\ \A i \in 1..Len(s) : (s \o t)[i] = s[i]
         /\ \A i \in 1..Len(t) : (s \o t)[Len(s) + i] = t[i] /\ (s \o t)[i + Len(s)] = t[i]
PROOF
  <1>1. Len(s) \in Nat /\ Len(t) \in Nat
    OBVIOUS
  <1> QED
    BY <1>1, ConcatProperties

LEMMA Fronted ==
  ASSUME NEW s \in Seq(Codes)
  PROVE  /\ <<AUTO>> \o s \in Seq(Codes \cup {AUTO}) /\ Len(<<AUTO>> \o s) = Len(s) + 1
         /\ (<<AUTO>> \o s)[1] = AUTO
         /\ \A i \in 1..Len(s) : (<<AUTO>> \o s)[i + 1] = s[i]
PROOF
  <1> DEFINE S == Codes \cup {AUTO}
             front == <<AUTO>>
  <1>1. front \in Seq(S) /\ Len(front) = 1 /\ front[1] = AUTO
    OBVIOUS
  <1>2. s \in Seq(S) /\ Len(s) \in Nat
    BY SeqMonotonic
  <1> HIDE DEF S, front
  <1>3. /\ front \o s \in Seq(S) /\ Len(front \o s) = Len(front) + Len(s)
        /\ \A i \in 1..Len(front) + Len(s) :
             (front \o s)[i] = IF i <= Len(front) THEN front[i] ELSE s[i - Len(front)]
    BY <1>1, <1>2, ConcatProperties
  <1>4. (front \o s)[1] = AUTO
    BY <1>1, <1>2, <1>3
  <1>5. ASSUME NEW i \in 1..Len(s)
        PROVE  (front \o s)[i + 1] = s[i]
    <2>1. i + 1 \in 1..Len(front) + Len(s) /\ ~(i + 1 <= Len(front)) /\ (i + 1) - Len(front) = i
      BY <1>1, <1>2
    <2> QED
      BY <1>3, <2>1
  <1>6. Len(front \o s) = Len(s) + 1
    BY <1>1, <1>2, <1>3
  <1> QED
    BY <1>3, <1>4, <1>5, <1>6 DEF S, front

LEMMA RemovedIs ==
  ASSUME NEW S, NEW s \in Seq(S), NEW i \in 1..Len(s)
  PROVE  RemoveAt(s, i) \in Seq(S)
PROOF
  <1>1. Len(s) \in Nat /\ \A k \in 1..Len(s) : s[k] \in S
    OBVIOUS
  <1>2. SubSeq(s, 1, i - 1) \in Seq(S) /\ SubSeq(s, i + 1, Len(s)) \in Seq(S)
    BY <1>1, SubSeqProperties
  <1> QED
    BY <1>2, ConcatProperties DEF RemoveAt

(* The frames of a report.                                                 *)
Says(cmd, arg, new, auto, code) == [cmd |-> cmd, arg |-> arg, of |-> Origin(new, auto, code)]

LEMMA ReportIs ==
  ASSUME NEW new \in Lists, NEW auto \in BOOLEAN, NEW code \in ToSet(new), NEW reported \in Modes
  PROVE  LET report == Report(new, auto, code, reported)
             n == Len(new)
         IN  /\ report \in Seq(ScreenFrame) /\ Len(report) = n + 5
             /\ report[1] = Says("start", NoCode, new, auto, code)
             /\ \A i \in 1..n : report[i + 1] =
                  Says("code", [index |-> i, code |-> new[i]], new, auto, code)
             /\ report[n + 2] = Says("end", NoCode, new, auto, code)
             /\ report[n + 3] = Says("mode", IF auto THEN AUTO ELSE reported, new, auto, code)
             /\ report[n + 4] = Says("active", code, new, auto, code)
             /\ report[n + 5] = Says("index", Find(code, new), new, auto, code)
PROOF
  <1> DEFINE n == Len(new)
             frame(cmd, arg) == Says(cmd, arg, new, auto, code)
             front == <<frame("start", NoCode)>>
             list_ == [i \in DOMAIN new |-> frame("code", [index |-> i, code |-> new[i]])]
             rest == <<frame("end", NoCode), frame("mode", IF auto THEN AUTO ELSE reported),
                       frame("active", code), frame("index", Find(code, new))>>
  <1>1. /\ DOMAIN new = 1..n /\ n \in Nat /\ n >= 1 /\ \A i \in 1..n : new[i] \in Codes
    BY ListIs
  <1>2. code \in Codes /\ Find(code, new) \in Nat
    BY FindIn
  <1>3. Origin(new, auto, code) \in Origins
    BY <1>2 DEF Origin, Origins
  <1>4. \A cmd \in BootCmds, arg \in Argument :
          /\ frame(cmd, arg) \in [cmd : Cmds, arg : Argument, of : Origins]
          /\ frame(cmd, arg).cmd = cmd /\ frame(cmd, arg).arg = arg
          /\ frame(cmd, arg).of.list = new /\ frame(cmd, arg).of.auto = auto
          /\ frame(cmd, arg).of.code = code
    BY <1>3 DEF Says, Cmds, Origin
  <1>5. /\ NoCode \in Argument /\ code \in Argument /\ Find(code, new) \in Argument
        /\ (IF auto THEN AUTO ELSE reported) \in Argument
        /\ \A i \in 1..n : [index |-> i, code |-> new[i]] \in Argument
    BY <1>1, <1>2 DEF Argument, Requests
  <1> HIDE DEF frame
  <1>6. frame("start", NoCode) \in ScreenFrame
    BY <1>4, <1>5 DEF ScreenFrame, Genuine, BootCmds
  <1>7. \A i \in 1..n : frame("code", [index |-> i, code |-> new[i]]) \in ScreenFrame
    BY <1>1, <1>4, <1>5 DEF ScreenFrame, Genuine, BootCmds
  <1>8. frame("end", NoCode) \in ScreenFrame
    BY <1>4, <1>5 DEF ScreenFrame, Genuine, BootCmds
  <1>9. frame("mode", IF auto THEN AUTO ELSE reported) \in ScreenFrame
    BY <1>4, <1>5, Names DEF ScreenFrame, Genuine, BootCmds, Requests
  <1>10. frame("active", code) \in ScreenFrame
    BY <1>4, <1>5 DEF ScreenFrame, Genuine, BootCmds
  <1>11. frame("index", Find(code, new)) \in ScreenFrame
    BY <1>4, <1>5 DEF ScreenFrame, Genuine, BootCmds
  <1>12. /\ front \in Seq(ScreenFrame) /\ Len(front) = 1 /\ front[1] = frame("start", NoCode)
    BY <1>6
  <1>13. /\ list_ \in Seq(ScreenFrame) /\ Len(list_) = n
         /\ \A i \in 1..n : list_[i] = frame("code", [index |-> i, code |-> new[i]])
    BY <1>1, <1>7
  <1>14. /\ rest \in Seq(ScreenFrame) /\ Len(rest) = 4 /\ rest[1] = frame("end", NoCode)
         /\ rest[2] = frame("mode", IF auto THEN AUTO ELSE reported)
         /\ rest[3] = frame("active", code) /\ rest[4] = frame("index", Find(code, new))
    BY <1>8, <1>9, <1>10, <1>11
  <1>15. Report(new, auto, code, reported) = (front \o list_) \o rest
    BY DEF Report, Says, frame
  <1> HIDE DEF front, list_, rest
  <1> DEFINE first == front \o list_
             report == Report(new, auto, code, reported)
  <1>16. /\ first \in Seq(ScreenFrame) /\ Len(first) = n + 1
         /\ first[1] = front[1] /\ \A i \in 1..n : first[i + 1] = list_[i]
    <2> HIDE DEF n
    <2>0. front \in Seq(ScreenFrame) /\ list_ \in Seq(ScreenFrame)
      BY <1>12, <1>13
    <2>1. /\ first \in Seq(ScreenFrame) /\ Len(first) = Len(front) + Len(list_)
          /\ \A i \in 1..Len(front) : first[i] = front[i]
          /\ \A i \in 1..Len(list_) : first[i + Len(front)] = list_[i]
      BY <2>0, Joined
    <2> HIDE DEF first
    <2> QED
      BY <1>1, <1>12, <1>13, <2>1
  <1>17. /\ report \in Seq(ScreenFrame) /\ Len(report) = n + 5
         /\ \A i \in 1..(n + 1) : report[i] = first[i]
         /\ \A i \in 1..4 : report[n + 1 + i] = rest[i]
    <2> HIDE DEF first, report
    <2>1. report = first \o rest
      BY <1>15 DEF first, report
    <2>0. first \in Seq(ScreenFrame) /\ rest \in Seq(ScreenFrame)
      BY <1>14, <1>16
    <2>2. /\ report \in Seq(ScreenFrame) /\ Len(report) = Len(first) + Len(rest)
          /\ \A i \in 1..Len(first) : report[i] = first[i]
          /\ \A i \in 1..Len(rest) : report[Len(first) + i] = rest[i]
      BY <2>0, <2>1, Joined
    <2> QED
      BY <1>1, <1>14, <1>16, <2>2
  <1> HIDE DEF report, n, first
  <1>18. report[1] = frame("start", NoCode)
    BY <1>1, <1>12, <1>16, <1>17
  <1>19. \A i \in 1..n : report[i + 1] = frame("code", [index |-> i, code |-> new[i]])
    BY <1>1, <1>13, <1>16, <1>17
  <1>20. n + 1 + 1 = n + 2 /\ n + 1 + 2 = n + 3 /\ n + 1 + 3 = n + 4 /\ n + 1 + 4 = n + 5
    BY <1>1
  <1> QED
    BY <1>14, <1>17, <1>18, <1>19, <1>20 DEF frame, report, n

-----------------------------------------------------------------------------
(* The selection of the panel, operation by operation.                     *)
LEMMA CodesAre ==
  ASSUME StateTyped
  PROVE  /\ Len(codes) \in Nat /\ Len(codes) > 1 /\ DOMAIN codes = 1..Len(codes)
         /\ codes[1] = AUTO
         /\ \A i \in 1..Len(codes) : i # 1 => codes[i] \in Codes
         /\ \A i, j \in 1..Len(codes) : codes[i] = codes[j] => i = j
PROOF
  <1>1. CodeList(codes)
    BY DEF StateTyped
  <1>2. codes \in Seq(Codes \cup {AUTO}) /\ Len(codes) > 1 /\ codes[1] = AUTO
    BY <1>1 DEF CodeList
  <1>3. Len(codes) \in Nat /\ DOMAIN codes = 1..Len(codes)
    BY <1>2
  <1>4. \A i, j \in 1..Len(codes) : codes[i] = codes[j] => i = j
    BY <1>1, <1>3 DEF CodeList, IsInjective
  <1>5. \A i \in 1..Len(codes) : codes[i] \in Codes \cup {AUTO}
    BY <1>2, <1>3
  <1>6. ASSUME NEW i \in 1..Len(codes), i # 1
        PROVE  codes[i] \in Codes
    <2>1. 1 \in 1..Len(codes)
      BY <1>2, <1>3
    <2>2. codes[i] # AUTO
      BY <1>2, <1>4, <1>6, <2>1
    <2> QED
      BY <1>5, <2>2
  <1> QED
    BY <1>2, <1>3, <1>4, <1>6

LEMMA ListedAt ==
  ASSUME StateTyped, NEW code, Listed(code, codes)
  PROVE  /\ Find(code, codes) \in Nat /\ Find(code, codes) < Len(codes)
         /\ codes[Find(code, codes) + 1] = code
PROOF
  <1> DEFINE k == Find(code, codes)
  <1>1. k \in Nat /\ k + 1 \in 1..Len(codes) /\ codes[k + 1] = code
    BY CodesAre, FindIs, Zenon
  <1> HIDE DEF k
  <1>2. k \in Nat /\ k < Len(codes) /\ codes[k + 1] = code
    BY <1>1, CodesAre
  <1> QED
    BY <1>2 DEF k

(* What is left alone stays as it is.                                      *)
LEMMA StateKept ==
  ASSUME StateTyped, Keep
  PROVE  StateTyped' /\ (Own => Own')
  BY DEF StateTyped, Own, Keep, stateVars

LEMMA AutoConfirmed ==
  ASSUME StateTyped, ConfirmAuto
  PROVE  StateTyped' /\ (Own => Own')
PROOF
  <1>1. 0 < Len(codes)
    BY CodesAre
  <1> QED
    BY <1>1 DEF StateTyped, Own, ConfirmAuto

LEMMA AutoLeft ==
  ASSUME StateTyped, LeaveAuto
  PROVE  /\ StateTyped' /\ ~auto_selected' /\ codes' = codes
         /\ Own => Own' /\ active_code' = active_code
PROOF
  <1>1. CASE ~auto_selected
    <2>1. Keep
      BY <1>1 DEF LeaveAuto
    <2> QED
      BY <1>1, <2>1, StateKept DEF Keep, stateVars
  <1>2. CASE auto_selected
    <2> DEFINE code == IF Listed(active_code, codes) THEN active_code ELSE codes[2]
    <2>1. /\ auto_selected' = FALSE /\ detected_code' = NoCode
          /\ active_code' = code /\ active_index' = Find(code, codes) /\ codes' = codes
      BY <1>2 DEF LeaveAuto
    <2>2. 2 \in 1..Len(codes) /\ codes[2] \in Codes
      BY CodesAre
    <2>3. Listed(code, codes) /\ code \in Codes
      BY <2>2, CodesAre, Zenon DEF Listed, StateTyped
    <2> HIDE DEF code
    <2>4. /\ Find(code, codes) \in Nat /\ Find(code, codes) < Len(codes)
          /\ codes[Find(code, codes) + 1] = code
      BY <2>3, ListedAt
    <2>5. StateTyped'
      BY <2>1, <2>3, <2>4 DEF StateTyped
    <2>6. Own'
      BY <2>1, <2>3, <2>4 DEF Own
    <2>7. Own => active_code' = active_code
      BY <2>1 DEF Own, code
    <2> QED
      BY <2>1, <2>5, <2>6, <2>7
  <1> QED
    BY <1>1, <1>2 DEF StateTyped

LEMMA DetectedForgotten ==
  ASSUME StateTyped, ForgetDetected
  PROVE  StateTyped' /\ (Own => Own') /\ UNCHANGED <<codes, active_code, auto_selected>>
  BY DEF StateTyped, Own, ForgetDetected

LEMMA DetectedConfirmed ==
  ASSUME StateTyped, NEW code \in Codes, ConfirmDetected(code)
  PROVE  StateTyped' /\ (Own => Own') /\ UNCHANGED <<codes, active_code, auto_selected>>
  BY DEF StateTyped, Own, ConfirmDetected

LEMMA ActiveConfirmed ==
  ASSUME StateTyped, NEW code \in Codes, ActiveReported(code)
  PROVE  /\ StateTyped' /\ active_code' = code /\ UNCHANGED <<codes, auto_selected>>
         /\ Listed(code, codes) => Own'
PROOF
  <1>1. CASE auto_selected
    <2>1. /\ active_code' = code /\ active_index' = 0 /\ detected_code' = NoCode
          /\ UNCHANGED <<codes, auto_selected>>
      BY <1>1 DEF ActiveReported
    <2> QED
      BY <1>1, <2>1, CodesAre DEF StateTyped, Own
  <1>2. CASE ~auto_selected /\ Listed(code, codes)
    <2>1. /\ active_code' = code /\ detected_code' = NoCode
          /\ active_index' = Find(code, codes) /\ UNCHANGED <<codes, auto_selected>>
      BY <1>2 DEF ActiveReported, ConfirmActiveCode
    <2>2. /\ Find(code, codes) \in Nat /\ Find(code, codes) < Len(codes)
          /\ codes[Find(code, codes) + 1] = code
      BY <1>2, ListedAt
    <2> QED
      BY <1>2, <2>1, <2>2 DEF StateTyped, Own
  <1>3. CASE ~auto_selected /\ ~Listed(code, codes)
    BY <1>3 DEF ActiveReported, ConfirmActiveCode, StateTyped
  <1> QED
    BY <1>1, <1>2, <1>3

LEMMA SelectionConfirmed ==
  ASSUME StateTyped, NEW index \in Nat, NEW code \in Codes, SelectionListed(index, code),
         ConfirmActiveSelection(index, code)
  PROVE  StateTyped' /\ Own'
PROOF
  <1>1. index + 1 \in DOMAIN codes /\ codes[index + 1] = code /\ index < Len(codes)
    BY CodesAre DEF SelectionListed
  <1>2. Listed(code, codes)
    BY <1>1, Zenon DEF Listed
  <1> QED
    BY <1>1, <1>2 DEF ConfirmActiveSelection, StateTyped, Own

LEMMA IndexConfirmed ==
  ASSUME StateTyped, NEW index \in Nat, ConfirmActiveIndex(index)
  PROVE  /\ StateTyped' /\ UNCHANGED <<codes, active_code, auto_selected>>
         /\ Own /\ index + 1 < Len(codes) /\ codes[index + 2] = active_code => Own'
PROOF
  <1>1. (index + 1) + 1 = index + 2
    OBVIOUS
  <1> QED
    BY <1>1 DEF ConfirmActiveIndex, StateTyped, Own

-----------------------------------------------------------------------------
(* The transfer of a list.                                                 *)
LEMMA CountIs ==
  ASSUME SyncTyped
  PROVE  /\ SyncCount \in Nat /\ SyncCount <= MaxCurrencies
         /\ SyncCount > 0 => sync_codes[SyncCount] # NoCode
         /\ \A i \in 1..MaxCurrencies : sync_codes[i] # NoCode => i <= SyncCount
PROOF
  <1> DEFINE filled == {i \in DOMAIN sync_codes : sync_codes[i] # NoCode}
             S == {0} \cup filled
  <1>1. DOMAIN sync_codes = 1..MaxCurrencies /\ MaxCurrencies \in Nat
    BY Names DEF SyncTyped
  <1>2. \A i \in filled : i \in Nat /\ i >= 1 /\ i <= MaxCurrencies /\ sync_codes[i] # NoCode
    BY <1>1
  <1>3. \A i \in 1..MaxCurrencies : sync_codes[i] # NoCode => i \in filled
    BY <1>1
  <1> HIDE DEF filled
  <1>4. \A i \in S : i \in Nat /\ i <= MaxCurrencies
    BY <1>1, <1>2
  <1>5. 0 \in S /\ \A i \in filled : i \in S
    OBVIOUS
  <1>6. \A i \in S : i > 0 => i \in filled
    OBVIOUS
  <1> HIDE DEF S
  <1>7. Max(S) \in S /\ \A i \in S : i <= Max(S)
    <2>1. S \in SUBSET Nat /\ S # {}
      BY <1>4, <1>5
    <2> QED
      BY <1>1, <1>4, <2>1, GreatestNat
  <1>8. SyncCount = Max(S)
    BY DEF SyncCount, S, filled
  <1> QED
    BY <1>2, <1>3, <1>4, <1>5, <1>6, <1>7, <1>8

LEMMA NothingIs ==
  /\ NothingSeen \in [1..MaxCurrencies -> Codes \cup {NoCode}]
  /\ \A i \in 1..MaxCurrencies : NothingSeen[i] = NoCode
  BY DEF NothingSeen

(* The codes that were transferred without a gap, behind AUTO.             *)
LEMMA TransferredIs ==
  ASSUME SyncTyped, ListComplete
  PROVE  LET new == <<AUTO>> \o SubSeq(sync_codes, 1, SyncCount)
         IN  /\ new \in Seq(Codes \cup {AUTO}) /\ Len(new) = SyncCount + 1 /\ Len(new) > 1
             /\ new[1] = AUTO
             /\ \A i \in 1..SyncCount : new[i + 1] = sync_codes[i] /\ new[i + 1] \in Codes
             /\ CodeList(new)
PROOF
  <1> DEFINE n == SyncCount
             sent == SubSeq(sync_codes, 1, n)
             new == <<AUTO>> \o sent
  <1>1. n \in Nat /\ n > 0 /\ n <= MaxCurrencies /\ MaxCurrencies \in Nat
    BY CountIs, Names DEF ListComplete
  <1>2. \A i \in 1..n : i \in 1..MaxCurrencies /\ sync_codes[i] # NoCode
    BY <1>1, CountIs DEF ListComplete
  <1> HIDE DEF n
  <1>3. \A i \in 1..n : sync_codes[i] \in Codes
    BY <1>2 DEF SyncTyped
  <1>4. sent \in Seq(Codes) /\ Len(sent) = n /\ \A i \in 1..n : sent[i] = sync_codes[i]
    <2>1. 1 \in Int /\ n \in Int /\ 1 <= n /\ n - 1 + 1 = n /\ \A i \in 1..n : 1 + i - 1 = i
      BY <1>1
    <2>2. /\ sent \in Seq(Codes) /\ Len(sent) = n - 1 + 1
          /\ \A i \in 1..n - 1 + 1 : sent[i] = sync_codes[1 + i - 1]
      BY <1>3, <2>1, SubSeqProperties
    <2> QED
      BY <2>1, <2>2
  <1> HIDE DEF sent
  <1>5. /\ new \in Seq(Codes \cup {AUTO}) /\ Len(new) = n + 1
        /\ new[1] = AUTO /\ \A i \in 1..n : new[i + 1] = sent[i]
    BY <1>4, Fronted
  <1> HIDE DEF new
  <1>6. \A i \in 1..n : new[i + 1] = sync_codes[i] /\ new[i + 1] \in Codes
    BY <1>3, <1>4, <1>5
  <1>7. DOMAIN new = 1..(n + 1)
    BY <1>1, <1>5
  <1>8. ASSUME NEW i \in 1..(n + 1), NEW j \in 1..(n + 1), new[i] = new[j]
        PROVE  i = j
    <2>1. CASE i = 1 \/ j = 1
      <3>1. \A k \in 1..(n + 1) : k # 1 => k - 1 \in 1..n /\ (k - 1) + 1 = k
        BY <1>1
      <3>2. \A k \in 1..(n + 1) : k # 1 => new[k] # AUTO
        BY <3>1, <1>6, Names
      <3> QED
        BY <1>5, <1>8, <2>1, <3>2
    <2>2. CASE i # 1 /\ j # 1
      <3>1. i - 1 \in 1..n /\ j - 1 \in 1..n /\ (i - 1) + 1 = i /\ (j - 1) + 1 = j
        BY <1>1, <2>2
      <3>2. sync_codes[i - 1] = sync_codes[j - 1] /\ sync_codes[i - 1] # NoCode
        BY <1>2, <1>6, <1>8, <3>1
      <3>3. i - 1 = j - 1
        BY <1>2, <3>1, <3>2, Zenon DEF SyncTyped
      <3> QED
        BY <3>1, <3>3
    <2> QED
      BY <2>1, <2>2
  <1>9. IsInjective(new)
    BY <1>7, <1>8, Zenon DEF IsInjective
  <1>10. CodeList(new)
    BY <1>1, <1>5, <1>9 DEF CodeList
  <1> QED
    BY <1>1, <1>5, <1>6, <1>10 DEF new, sent, n

LEMMA ListFinished ==
  ASSUME StateTyped, SyncTyped, FinishListSync
  PROVE  /\ StateTyped' /\ SyncTyped' /\ (Own => Own') /\ auto_selected' = auto_selected
         /\ ListComplete => codes' = <<AUTO>> \o SubSeq(sync_codes, 1, SyncCount)
PROOF
  <1>1. /\ sync_active' = FALSE /\ sync_codes' = NothingSeen /\ sync_of' = {}
    BY DEF FinishListSync, ForgetSync
  <1>2. /\ sync_active' \in BOOLEAN /\ sync_codes' \in [1..MaxCurrencies -> Codes \cup {NoCode}]
        /\ (~sync_active' => sync_codes' = NothingSeen)
        /\ sync_of' \subseteq Lists
        /\ \A i \in 1..MaxCurrencies : sync_codes'[i] = NoCode
    BY <1>1, NothingIs
  <1>3. CASE ~ListComplete
    <2>1. Keep /\ mixed' = mixed
      BY <1>3 DEF FinishListSync
    <2>2. SyncTyped'
      BY <1>2, <2>1 DEF SyncTyped, Keep, stateVars
    <2> QED
      BY <1>3, <2>1, <2>2, StateKept DEF Keep, stateVars
  <1>4. CASE ListComplete
    <2> DEFINE n == SyncCount
               new == <<AUTO>> \o SubSeq(sync_codes, 1, n)
    <2>1. /\ codes' = new /\ active_code' = Retained(new)
          /\ active_index' = IF auto_selected THEN 0 ELSE Find(Retained(new), new)
          /\ UNCHANGED <<auto_selected, detected_code>>
          /\ mixed' = \E one, other \in sync_of : one # other
      BY <1>4 DEF FinishListSync
    <2>2. /\ new \in Seq(Codes \cup {AUTO}) /\ Len(new) = n + 1 /\ Len(new) > 1
          /\ new[1] = AUTO
          /\ \A i \in 1..n : new[i + 1] = sync_codes[i] /\ new[i + 1] \in Codes
          /\ CodeList(new)
      BY <1>4, TransferredIs
    <2>3. n \in Nat /\ n > 0 /\ n <= MaxCurrencies /\ MaxCurrencies \in Nat
      BY <1>4, CountIs, Names DEF ListComplete
    <2>4. \A i \in 1..n : i \in 1..MaxCurrencies /\ sync_codes[i] # NoCode
      BY <1>4, <2>3 DEF ListComplete
    <2> HIDE DEF n, new
    <2>5. DOMAIN new = 1..Len(new) /\ Len(new) \in Nat
      BY <2>2
    <2>6. Retained(new) \in Codes /\ Listed(Retained(new), new)
      <3>1. 1 \in 1..n /\ 1 + 1 = 2 /\ 2 \in 1..Len(new)
        BY <2>2, <2>3
      <3>2. new[2] \in Codes /\ 2 \in DOMAIN new
        BY <2>2, <2>5, <3>1
      <3> QED
        BY <3>2 DEF Retained, Listed, StateTyped
    <2> DEFINE at == Find(Retained(new), new)
    <2>7. at \in Nat /\ at + 1 \in 1..Len(new) /\ new[at + 1] = Retained(new)
      BY <2>5, <2>6, FindIs
    <2> HIDE DEF at
    <2>8. at < Len(new)
      BY <2>5, <2>7
    <2>9. StateTyped'
      BY <2>1, <2>2, <2>6, <2>7, <2>8 DEF StateTyped, at
    <2>10. Own'
      BY <2>1, <2>6, <2>7 DEF Own, at
    <2>11. (~mixed)' => \E whole \in Lists :
                         /\ Len(new) - 1 <= Len(whole)
                         /\ \A i \in 2..Len(new) : new[i] = whole[i - 1]
      <3> SUFFICES ASSUME \A one, other \in sync_of : one = other
                   PROVE  \E whole \in Lists :
                            /\ Len(new) - 1 <= Len(whole)
                            /\ \A i \in 2..Len(new) : new[i] = whole[i - 1]
        BY <2>1
      <3>1. \A i \in 1..n : \E from \in sync_of : i \in DOMAIN from /\ sync_codes[i] = from[i]
        BY <2>4, Zenon DEF SyncTyped
      <3>2. n \in 1..n
        BY <2>3
      <3>3. PICK whole \in sync_of : n \in DOMAIN whole
        BY <3>1, <3>2
      <3>4. \A i \in 1..n : sync_codes[i] = whole[i]
        BY <3>1
      <3>5. whole \in Lists
        BY DEF SyncTyped
      <3>6. n <= Len(whole) /\ Len(whole) \in Nat
        BY <3>3, <3>5, ListIs
      <3>7. Len(new) - 1 <= Len(whole)
        BY <2>2, <2>3, <3>6
      <3>8. \A i \in 2..Len(new) : i - 1 \in 1..n /\ (i - 1) + 1 = i
        BY <2>2, <2>3
      <3>9. \A i \in 2..Len(new) : new[i] = whole[i - 1]
        BY <2>2, <3>4, <3>8
      <3> QED
        BY <3>5, <3>7, <3>9
    <2>12. SyncTyped'
      <3>1. mixed' \in BOOLEAN
        BY <2>1
      <3> QED
        BY <1>1, <1>2, <2>1, <2>11, <3>1 DEF SyncTyped
    <2> QED
      BY <2>1, <2>9, <2>10, <2>12 DEF new, n
  <1> QED
    BY <1>3, <1>4

LEMMA TransferBegun ==
  ASSUME SyncTyped, BeginListSync, Keep
  PROVE  SyncTyped'
PROOF
  <1>1. sync_active' = TRUE /\ sync_codes' = NothingSeen /\ sync_of' = {} /\ mixed' = mixed
    BY DEF BeginListSync
  <1>2. codes' = codes
    BY DEF Keep, stateVars
  <1> QED
    BY <1>1, <1>2, NothingIs DEF SyncTyped

LEMMA CodeTransferred ==
  ASSUME SyncTyped, Keep, NEW from \in Lists, NEW index \in DOMAIN from, NEW item,
         item.index = index, item.code = from[index], AppendListCode(item, from)
  PROVE  SyncTyped'
PROOF
  <1>1. codes' = codes /\ sync_active' = sync_active /\ mixed' = mixed
    BY DEF Keep, stateVars, AppendListCode
  <1>2. CASE UNCHANGED <<sync_codes, sync_of>>
    BY <1>1, <1>2 DEF SyncTyped
  <1>3. CASE /\ sync_active /\ \A i \in DOMAIN sync_codes \ {index} : sync_codes[i] # from[index]
             /\ sync_codes' = [sync_codes EXCEPT ![index] = from[index]]
             /\ sync_of' = sync_of \cup {from}
    <2>1. /\ DOMAIN sync_codes = 1..MaxCurrencies
          /\ sync_codes \in [1..MaxCurrencies -> Codes \cup {NoCode}]
      BY DEF SyncTyped
    <2>2. index \in 1..MaxCurrencies /\ from[index] \in Codes
      BY ListIs, Names
    <2>3. /\ sync_codes' \in [1..MaxCurrencies -> Codes \cup {NoCode}]
          /\ sync_codes'[index] = from[index]
          /\ \A i \in 1..MaxCurrencies : i # index => sync_codes'[i] = sync_codes[i]
      BY <1>3, <2>1, <2>2
    <2>4. \A i, j \in 1..MaxCurrencies :
            sync_codes'[i] # NoCode /\ sync_codes'[i] = sync_codes'[j] => i = j
      <3> SUFFICES ASSUME NEW i \in 1..MaxCurrencies, NEW j \in 1..MaxCurrencies,
                          sync_codes'[i] # NoCode, sync_codes'[i] = sync_codes'[j]
                   PROVE  i = j
        OBVIOUS
      <3>1. CASE i = index \/ j = index
        BY <1>3, <2>1, <2>3, <3>1
      <3>2. CASE i # index /\ j # index
        BY <2>3, <3>2 DEF SyncTyped
      <3> QED
        BY <3>1, <3>2
    <2>5. \A i \in 1..MaxCurrencies :
            sync_codes'[i] # NoCode =>
              \E f \in sync_of' : i \in DOMAIN f /\ sync_codes'[i] = f[i]
      <3> SUFFICES ASSUME NEW i \in 1..MaxCurrencies, sync_codes'[i] # NoCode
                   PROVE  \E f \in sync_of' : i \in DOMAIN f /\ sync_codes'[i] = f[i]
        OBVIOUS
      <3>1. CASE i = index
        BY <1>3, <2>3, <3>1
      <3>2. CASE i # index
        <4>1. PICK f \in sync_of : i \in DOMAIN f /\ sync_codes[i] = f[i]
          BY <2>3, <3>2 DEF SyncTyped
        <4> QED
          BY <1>3, <2>3, <3>2, <4>1
      <3> QED
        BY <3>1, <3>2
    <2>6. sync_of' \subseteq Lists /\ sync_active' = TRUE
      BY <1>1, <1>3 DEF SyncTyped
    <2> QED
      BY <1>1, <2>3, <2>4, <2>5, <2>6 DEF SyncTyped
  <1> QED
    BY <1>2, <1>3 DEF AppendListCode

-----------------------------------------------------------------------------
(* The frames on the way.                                                  *)
LEMMA FramesAre ==
  /\ \A cmd \in ModeAnswers \cup SwitchAnswers \cup {"cleared"} : Frame(cmd, NoCode) \in ScreenFrame
  /\ \A code \in Codes : Frame("detected", code) \in ScreenFrame
  /\ \A requested \in Requests : Frame("mode", requested) \in ControllerFrame
  /\ \A code \in Codes : Frame("switch", code) \in ControllerFrame
  /\ Frame("clear", NoCode) \in ControllerFrame
PROOF
  <1> DEFINE none == Origin(<<>>, FALSE, NoCode)
  <1>1. none \in Origins
    BY DEF Origin, Origins
  <1> HIDE DEF none
  <1>2. \A cmd, arg : Frame(cmd, arg) = [cmd |-> cmd, arg |-> arg, of |-> none]
    BY DEF Frame, none
  <1>3. \A arg \in Codes \cup Requests \cup {NoCode} : arg \in Argument
    BY DEF Argument
  <1>4. ASSUME NEW cmd \in ModeAnswers \cup SwitchAnswers \cup {"cleared", "detected"},
               NEW arg \in Codes \cup {NoCode}, cmd = "detected" => arg \in Codes
        PROVE  Frame(cmd, arg) \in ScreenFrame
    <2>1. cmd \in Cmds /\ cmd \notin BootCmds
      BY DEF Cmds, BootCmds, ModeAnswers, SwitchAnswers
    <2>2. Frame(cmd, arg) \in [cmd : Cmds, arg : Argument, of : Origins]
      BY <1>1, <1>2, <1>3, <2>1
    <2>3. Frame(cmd, arg).cmd = cmd /\ Frame(cmd, arg).arg = arg
      BY <1>2
    <2>4. Genuine(Frame(cmd, arg))
      BY <1>4, <2>1, <2>3 DEF Genuine, BootCmds
    <2> QED
      BY <2>2, <2>4 DEF ScreenFrame
  <1>5. ASSUME NEW cmd \in {"mode", "switch", "clear"},
               NEW arg \in Codes \cup Requests \cup {NoCode},
               cmd = "mode" => arg \in Requests, cmd = "switch" => arg \in Codes
        PROVE  Frame(cmd, arg) \in ControllerFrame
    <2>1. Frame(cmd, arg) \in [cmd : {"mode", "switch", "clear"}, arg : Argument, of : Origins]
      BY <1>1, <1>2, <1>3
    <2>2. Frame(cmd, arg).cmd = cmd /\ Frame(cmd, arg).arg = arg
      BY <1>2
    <2> QED
      BY <1>5, <2>1, <2>2 DEF ControllerFrame, Asks
  <1>6. \A cmd \in ModeAnswers \cup SwitchAnswers \cup {"cleared"} : Frame(cmd, NoCode) \in ScreenFrame
    BY <1>4 DEF ModeAnswers, SwitchAnswers
  <1> QED
    BY <1>4, <1>5, <1>6

LEMMA FrameFields ==
  ASSUME NEW cmd, NEW arg
  PROVE  Frame(cmd, arg).cmd = cmd /\ Frame(cmd, arg).arg = arg
  BY DEF Frame

LEMMA ScreenFrameIs ==
  ASSUME NEW f \in ScreenFrame
  PROVE  f.cmd \in Cmds /\ Genuine(f)
  BY DEF ScreenFrame

LEMMA ScreenTaken ==
  ASSUME LineTyped, toScreen # <<>>
  PROVE  /\ Head(toScreen) \in ScreenFrame /\ Tail(toScreen) \in Seq(ScreenFrame)
         /\ Head(toScreen).cmd \in Cmds /\ Genuine(Head(toScreen))
  BY HeadTailProperties, ScreenFrameIs DEF LineTyped

LEMMA ControllerSent ==
  ASSUME LineTyped, NEW f \in ControllerFrame
  PROVE  Append(toController, f) \in Seq(ControllerFrame)
  BY AppendProperties DEF LineTyped

LEMMA NothingAsked ==
  /\ NoSwitch \in Switches /\ NoTransition \in Transitions /\ NoTransition.kind = "none"
PROOF
  <1>1. 0 \in 0..MaxCurrencies
    BY Names
  <1>2. NoSwitch \in Switches
    BY <1>1 DEF NoSwitch, Switches
  <1>3. NoTransition \in Transitions /\ NoTransition.kind = "none"
    BY <1>1 DEF NoTransition, Transitions
  <1> QED
    BY <1>2, <1>3

-----------------------------------------------------------------------------
(* The types, by step.                                                     *)
LEMMA TypedInit == Init => CurrencyTyped /\ Own
PROOF
  <1> SUFFICES ASSUME Init PROVE CurrencyTyped /\ Own
    OBVIOUS
  <1> DEFINE front == <<AUTO>> \o list
  <1>0. /\ list \in Lists /\ ctrl_code \in ToSet(list) /\ ctrl_auto \in BOOLEAN
        /\ codes = front /\ active_code = ctrl_code /\ auto_selected = ctrl_auto
        /\ active_index = IF ctrl_auto THEN 0 ELSE Find(ctrl_code, codes)
        /\ detected_code = NoCode
    BY DEF Init
  <1>1. LineTyped
    BY DEF Init, LineTyped
  <1>2. PICK i \in 1..Len(list) : list[i] = ctrl_code
    BY <1>0, ToSetIs
  <1>3. /\ list \in Lists /\ list \in Seq(Codes) /\ Len(list) \in Nat /\ Len(list) >= 1
        /\ \A k \in 1..Len(list) : list[k] \in Codes
        /\ \A a, b \in 1..Len(list) : list[a] = list[b] => a = b
    BY <1>0, ListIs
  <1>4. /\ codes \in Seq(Codes \cup {AUTO}) /\ Len(codes) = Len(list) + 1 /\ codes[1] = AUTO
        /\ \A k \in 1..Len(list) : codes[k + 1] = list[k]
    BY <1>0, <1>3, Fronted
  <1> HIDE DEF front
  <1>5. DOMAIN codes = 1..(Len(list) + 1)
    BY <1>4
  <1>6. \A k \in 1..(Len(list) + 1) : k # 1 => k - 1 \in 1..Len(list) /\ codes[k] = list[k - 1]
    BY <1>3, <1>4
  <1>7. ASSUME NEW a \in DOMAIN codes, NEW b \in DOMAIN codes, codes[a] = codes[b]
        PROVE  a = b
    <2>1. a \in 1..(Len(list) + 1) /\ b \in 1..(Len(list) + 1)
      BY <1>5
    <2>2. \A k \in 1..(Len(list) + 1) : k # 1 => codes[k] # AUTO
      BY <1>3, <1>6, Names
    <2>3. CASE a = 1 \/ b = 1
      BY <1>4, <1>7, <2>1, <2>2, <2>3
    <2>4. CASE a # 1 /\ b # 1
      <3>1. a - 1 = b - 1
        BY <1>3, <1>6, <1>7, <2>1, <2>4
      <3> QED
        BY <1>3, <2>1, <3>1
    <2> QED
      BY <2>3, <2>4
  <1>8. CodeList(codes)
    BY <1>3, <1>4, <1>7 DEF CodeList, IsInjective
  <1>9. Listed(ctrl_code, codes)
    BY <1>2, <1>3, <1>4, <1>5 DEF Listed
  <1>10. /\ Find(ctrl_code, codes) \in Nat /\ Find(ctrl_code, codes) < Len(codes)
         /\ codes[Find(ctrl_code, codes) + 1] = ctrl_code
    <2> DEFINE at == Find(ctrl_code, codes)
    <2>1. at \in Nat /\ at + 1 \in 1..(Len(list) + 1) /\ codes[at + 1] = ctrl_code
      BY <1>3, <1>5, <1>9, FindIs
    <2> HIDE DEF at
    <2>2. at \in Nat /\ at < Len(codes) /\ codes[at + 1] = ctrl_code
      BY <1>3, <1>4, <2>1
    <2> QED
      BY <2>2 DEF at
  <1>11. StateTyped
    <2>1. ctrl_code \in Codes /\ 0 < Len(codes)
      BY <1>2, <1>3, <1>4
    <2>2. active_index \in Nat /\ active_index < Len(codes)
      BY <1>0, <1>10, <2>1
    <2> QED
      BY <1>0, <1>8, <2>1, <2>2 DEF StateTyped
  <1>12. FlowTyped
    <2>1. MaxCurrencies \in Nat /\ FirstMode \in Modes
      BY CurrencyAssumption
    <2>2. /\ mode = FirstMode /\ mode_request = NoCode /\ switch_request = NoSwitch
          /\ clear_pending = FALSE /\ mode_clear = "none" /\ transition = NoTransition
      BY DEF Init
    <2> QED
      BY <2>1, <2>2, NothingAsked DEF FlowTyped
  <1>13. ControllerTyped
    BY <1>0 DEF ControllerTyped
  <1>14. SyncTyped
    <2>1. /\ sync_codes \in [1..MaxCurrencies -> Codes \cup {NoCode}]
          /\ \A k \in 1..MaxCurrencies : sync_codes[k] = NoCode
      BY NothingIs DEF Init
    <2>2. /\ Len(codes) - 1 <= Len(list)
          /\ \A k \in 2..Len(codes) : codes[k] = list[k - 1]
      BY <1>3, <1>4, <1>6
    <2>3. sync_active = FALSE /\ sync_codes = NothingSeen /\ sync_of = {} /\ mixed = FALSE
      BY DEF Init
    <2>4. \E whole \in Lists : /\ Len(codes) - 1 <= Len(whole)
                               /\ \A k \in 2..Len(codes) : codes[k] = whole[k - 1]
      BY <1>3, <2>2
    <2> QED
      BY <2>1, <2>3, <2>4 DEF SyncTyped
  <1>15. Own
    BY <1>0, <1>9, <1>10 DEF Own
  <1> QED
    BY <1>1, <1>11, <1>12, <1>13, <1>14, <1>15 DEF CurrencyTyped

LEMMA PartsKept ==
  /\ LineTyped /\ UNCHANGED <<toController, toScreen>> => LineTyped'
  /\ StateTyped /\ UNCHANGED stateVars => StateTyped'
  /\ FlowTyped /\ UNCHANGED <<requestVars, mode, mode_clear, transition>> => FlowTyped'
  /\ ControllerTyped /\ UNCHANGED ctrlVars => ControllerTyped'
  /\ SyncTyped /\ UNCHANGED <<syncVars, codes>> => SyncTyped'
PROOF
  <1>1. LineTyped /\ UNCHANGED <<toController, toScreen>> => LineTyped'
    BY DEF LineTyped
  <1>2. StateTyped /\ UNCHANGED stateVars => StateTyped'
    BY DEF StateTyped, stateVars
  <1>3. FlowTyped /\ UNCHANGED <<requestVars, mode, mode_clear, transition>> => FlowTyped'
    BY DEF FlowTyped, requestVars
  <1>4. ControllerTyped /\ UNCHANGED ctrlVars => ControllerTyped'
    BY DEF ControllerTyped, ctrlVars
  <1>5. SyncTyped /\ UNCHANGED <<syncVars, codes>> => SyncTyped'
    BY DEF SyncTyped, syncVars
  <1> QED
    BY <1>1, <1>2, <1>3, <1>4, <1>5

(* The user.                                                               *)
LEMMA SelectTyped ==
  ASSUME CurrencyTyped, NEW index \in 0..MaxCurrencies, Select(index)
  PROVE  CurrencyTyped'
PROOF
  <1> DEFINE code == codes[index + 1]
  <1>1. /\ UNCHANGED <<stateVars, syncVars, mode, mode_clear, clear_pending, toScreen, ctrlVars>>
        /\ index + 1 \in DOMAIN codes
    BY DEF Select
  <1>2. \/ /\ code = AUTO /\ switch_request' = switch_request /\ mode_request' = AUTO
           /\ transition' = [kind |-> "to auto", index |-> index, code |-> code, mode |-> AUTO]
           /\ Sends(Frame("mode", AUTO))
        \/ /\ code # AUTO /\ switch_request' = switch_request /\ mode_request' = mode
           /\ transition' = [kind |-> "to manual", index |-> index, code |-> code, mode |-> mode]
           /\ Sends(Frame("mode", mode))
        \/ /\ code # AUTO /\ switch_request' = [index |-> index, code |-> code]
           /\ UNCHANGED <<transition, mode_request>>
           /\ Sends(Frame("switch", code))
    BY DEF Select
  <1>3. code \in Codes \cup {AUTO}
    BY <1>1, CodesAre DEF CurrencyTyped
  <1> HIDE DEF code
  <1>4. mode \in Modes /\ mode \in Requests /\ AUTO \in Requests
    BY DEF CurrencyTyped, FlowTyped, Requests
  <1>5. FlowTyped'
    <2>1. FlowTyped /\ mode' = mode /\ mode_clear' = mode_clear /\ clear_pending' = clear_pending
      BY <1>1 DEF CurrencyTyped
    <2>2. CASE code = AUTO
      <3>1. /\ switch_request' = switch_request /\ mode_request' = AUTO
            /\ transition' = [kind |-> "to auto", index |-> index, code |-> code, mode |-> AUTO]
        BY <1>2, <2>2
      <3>2. transition' \in Transitions /\ transition'.kind = "to auto"
        BY <1>3, <1>4, <3>1 DEF Transitions
      <3> QED
        BY <1>4, <2>1, <3>1, <3>2 DEF FlowTyped
    <2>3. CASE /\ code # AUTO /\ switch_request' = switch_request /\ mode_request' = mode
               /\ transition' = [kind |-> "to manual", index |-> index, code |-> code, mode |-> mode]
      <3>1. transition' \in Transitions /\ transition'.code \in Codes
        BY <1>3, <1>4, <2>3 DEF Transitions
      <3> QED
        BY <1>4, <2>1, <2>3, <3>1 DEF FlowTyped
    <2>4. CASE /\ code # AUTO /\ switch_request' = [index |-> index, code |-> code]
               /\ UNCHANGED <<transition, mode_request>>
      <3>1. switch_request' \in Switches
        BY <1>3, <2>4 DEF Switches
      <3> QED
        BY <2>1, <2>4, <3>1 DEF FlowTyped
    <2> QED
      BY <1>2, <2>2, <2>3, <2>4
  <1>6. LineTyped'
    <2>1. PICK f \in ControllerFrame : Sends(f)
      BY <1>2, <1>3, <1>4, FramesAre
    <2> QED
      BY <1>1, <2>1, ControllerSent DEF Sends, CurrencyTyped, LineTyped
  <1>7. codes' = codes
    BY <1>1 DEF stateVars
  <1> QED
    BY <1>1, <1>5, <1>6, <1>7, PartsKept DEF CurrencyTyped

LEMMA NextModeTyped ==
  ASSUME CurrencyTyped, NEW next \in Modes, NextMode(next)
  PROVE  CurrencyTyped'
PROOF
  <1>1. /\ UNCHANGED <<stateVars, syncVars, switch_request, clear_pending, flowVars, toScreen, ctrlVars>>
        /\ mode_request' = next /\ Sends(Frame("mode", next))
    BY DEF NextMode
  <1>2. Frame("mode", next) \in ControllerFrame
    BY FramesAre DEF Requests
  <1>3. LineTyped'
    BY <1>1, <1>2, ControllerSent DEF Sends, CurrencyTyped, LineTyped
  <1>4. FlowTyped'
    BY <1>1 DEF CurrencyTyped, FlowTyped, flowVars, Requests
  <1>5. codes' = codes
    BY <1>1 DEF stateVars
  <1> QED
    BY <1>1, <1>3, <1>4, <1>5, PartsKept DEF CurrencyTyped

LEMMA UserClearTyped ==
  ASSUME CurrencyTyped, UserClear
  PROVE  CurrencyTyped'
PROOF
  <1>1. /\ UNCHANGED <<syncVars, mode_request, switch_request, mode, transition, toScreen, ctrlVars>>
        /\ ForgetDetected /\ mode_clear' = "none"
    BY DEF UserClear
  <1>2. LineTyped' /\ clear_pending' \in BOOLEAN
    BY FramesAre, ControllerSent DEF UserClear, Sends, CurrencyTyped, LineTyped, FlowTyped
  <1>3. FlowTyped'
    BY <1>1, <1>2 DEF CurrencyTyped, FlowTyped
  <1>4. StateTyped' /\ codes' = codes
    BY <1>1, DetectedForgotten DEF CurrencyTyped
  <1> QED
    BY <1>1, <1>2, <1>3, <1>4, PartsKept DEF CurrencyTyped

(* The frames of the controller.                                           *)
LEMMA AfterModeTyped ==
  ASSUME FlowTyped, NEW requested, NEW success \in BOOLEAN
  PROVE  /\ AfterMode(requested, success) \in Transitions
         /\ AfterMode(requested, success).kind \in {"to manual", "wait"} =>
              AfterMode(requested, success).code \in Codes
PROOF
  <1> DEFINE after == AfterMode(requested, success)
  <1>1. CASE after = transition
    BY <1>1 DEF FlowTyped
  <1>2. CASE after = NoTransition
    BY <1>2, NothingAsked
  <1>3. CASE /\ after = [transition EXCEPT !.kind = "wait"]
             /\ transition.kind \in {"to manual", "wait"}
    <2>1. transition \in Transitions /\ transition.code \in Codes
      BY <1>3 DEF FlowTyped
    <2>2. /\ [transition EXCEPT !.kind = "wait"] \in Transitions
          /\ [transition EXCEPT !.kind = "wait"].code = transition.code
      BY <2>1 DEF Transitions
    <2> QED
      BY <1>3, <2>1, <2>2
  <1>4. \/ after = transition \/ after = NoTransition
        \/ /\ after = [transition EXCEPT !.kind = "wait"]
           /\ transition.kind \in {"to manual", "wait"}
    BY DEF AfterMode, Concerns
  <1> QED
    BY <1>1, <1>2, <1>3, <1>4

LEMMA ModeTaken ==
  ASSUME StateTyped, FlowTyped, ModeSucceeds, ModePending
  PROVE  /\ StateTyped' /\ FlowTyped' /\ UNCHANGED <<codes, syncVars>>
         /\ UNCHANGED <<switch_request, clear_pending>> /\ mode_request' = NoCode
         /\ auto_selected' <=> mode_request = AUTO
         /\ Own => Own' /\ active_code' = active_code
PROOF
  <1>1. /\ transition' = AfterMode(mode_request, TRUE) /\ mode_clear' \in {"none", "scheduled"}
        /\ mode_request' = NoCode /\ UNCHANGED <<syncVars, switch_request, clear_pending>>
        /\ IF mode_request = AUTO THEN ConfirmAuto /\ UNCHANGED mode
                                  ELSE LeaveAuto /\ mode' = mode_request
    BY DEF ModeSucceeds
  <1>2. mode' \in Modes
    BY <1>1 DEF FlowTyped, ModePending, Requests
  <1>3. FlowTyped'
    BY <1>1, <1>2, AfterModeTyped DEF FlowTyped
  <1>4. CASE mode_request = AUTO
    <2>1. ConfirmAuto
      BY <1>1, <1>4
    <2> QED
      BY <1>1, <1>3, <1>4, <2>1, AutoConfirmed DEF ConfirmAuto
  <1>5. CASE mode_request # AUTO
    BY <1>1, <1>3, <1>5, AutoLeft
  <1> QED
    BY <1>4, <1>5

LEMMA ReportTaken ==
  ASSUME StateTyped, FlowTyped, NEW reported \in Requests, ModeReported(reported)
  PROVE  /\ StateTyped' /\ FlowTyped' /\ UNCHANGED <<codes, syncVars>>
         /\ mode_request' = NoCode /\ switch_request' = switch_request
         /\ auto_selected' <=> reported = AUTO
         /\ Own => Own' /\ active_code' = active_code
PROOF
  <1>1. /\ IF reported = AUTO THEN ConfirmAuto /\ UNCHANGED mode
                              ELSE LeaveAuto /\ mode' = reported
        /\ mode_request' = NoCode
        /\ UNCHANGED <<syncVars, switch_request, clear_pending, mode_clear, transition>>
    BY DEF ModeReported
  <1>2. mode' \in Modes
    BY <1>1 DEF FlowTyped, Requests
  <1>3. FlowTyped'
    BY <1>1, <1>2 DEF FlowTyped
  <1>4. CASE reported = AUTO
    <2>1. ConfirmAuto
      BY <1>1, <1>4
    <2> QED
      BY <1>1, <1>3, <1>4, <2>1, AutoConfirmed DEF ConfirmAuto
  <1>5. CASE reported # AUTO
    BY <1>1, <1>3, <1>5, AutoLeft
  <1> QED
    BY <1>4, <1>5

LEMMA SwitchTaken ==
  ASSUME StateTyped, FlowTyped, LineTyped, SwitchSucceeds
  PROVE  /\ StateTyped' /\ FlowTyped' /\ UNCHANGED <<codes, syncVars, mode_request>>
         /\ switch_request' = NoSwitch
         /\ toController' \in Seq(ControllerFrame) /\ (Own => Own')
         /\ SelectionListed(switch_request.index, switch_request.code) =>
              /\ ~auto_selected' /\ active_code' = switch_request.code
              /\ toController' = Append(toController, Frame("clear", NoCode))
PROOF
  <1> DEFINE index == switch_request.index
             code == switch_request.code
  <1>1. switch_request' = NoSwitch /\ UNCHANGED <<syncVars, mode_request, flowVars>>
    BY DEF SwitchSucceeds
  <1>2. index \in 0..MaxCurrencies /\ index \in Nat /\ code \in Codes \cup {NoCode}
    <2>1. switch_request \in Switches
      BY DEF FlowTyped
    <2>2. \A i \in 0..MaxCurrencies : i \in Nat
      BY Names
    <2>3. index \in 0..MaxCurrencies /\ code \in Codes \cup {NoCode}
      BY <2>1 DEF Switches
    <2> QED
      BY <2>2, <2>3
  <1>3. CASE SelectionListed(index, code)
    <2>1. /\ ConfirmActiveSelection(index, code) /\ clear_pending' = TRUE
          /\ toController' = Append(toController, Frame("clear", NoCode))
      BY <1>3 DEF SwitchSucceeds
    <2>2. toController' \in Seq(ControllerFrame)
      BY <2>1, FramesAre, ControllerSent
    <2> HIDE DEF index, code
    <2>3. code \in Codes \cup {AUTO}
      BY <1>2, <1>3, CodesAre DEF SelectionListed
    <2>4. CASE code \in Codes
      <3>1. StateTyped' /\ Own'
        BY <1>2, <1>3, <2>1, <2>4, SelectionConfirmed
      <3>2. FlowTyped'
        BY <1>1, <2>1, NothingAsked DEF FlowTyped, flowVars
      <3>3. codes' = codes /\ ~auto_selected' /\ active_code' = code
        BY <2>1 DEF ConfirmActiveSelection
      <3> QED
        BY <1>1, <2>1, <2>2, <3>1, <3>2, <3>3 DEF code
    <2> QED
      BY <1>2, <2>3, <2>4, Names
  <1>4. CASE ~SelectionListed(index, code)
    <2>1. Keep /\ UNCHANGED <<clear_pending, toController>>
      BY <1>4 DEF SwitchSucceeds
    <2>2. FlowTyped'
      BY <1>1, <2>1, NothingAsked DEF FlowTyped, flowVars
    <2> QED
      BY <1>1, <1>4, <2>1, <2>2, StateKept DEF Keep, stateVars, LineTyped
  <1> QED
    BY <1>3, <1>4

(* What the panel does with a frame, by its command.                       *)
TakesMode(f) == f.cmd = "mode ok" /\ ModePending /\ ModeSucceeds /\ UNCHANGED toController
TakesModeFailed(f) == f.cmd = "mode failed" /\ ModePending /\ ModeFails /\ UNCHANGED toController
TakesSwitch(f) == f.cmd = "switch ok" /\ SwitchPending /\ SwitchSucceeds
TakesSwitchFailed(f) ==
  f.cmd = "switch failed" /\ SwitchPending /\ SwitchFails /\ UNCHANGED toController
TakesNothing(f) ==
  /\ \/ f.cmd \in ModeAnswers /\ ~ModePending
     \/ f.cmd \in SwitchAnswers /\ ~SwitchPending
  /\ UNCHANGED <<stateVars, syncVars, requestVars, flowVars, toController>>
TakesCleared(f) ==
  /\ f.cmd = "cleared" /\ clear_pending' = FALSE
  /\ UNCHANGED <<stateVars, syncVars, mode_request, switch_request, flowVars, toController>>
TakesReport(f) == f.cmd = "mode" /\ ModeReported(f.arg) /\ UNCHANGED toController
TakesActive(f) == f.cmd = "active" /\ ActiveReported(f.arg) /\ UNCHANGED toController
TakesOther(f) ==
  /\ \/ f.cmd = "index" /\ ConfirmActiveIndex(f.arg) /\ UNCHANGED syncVars
     \/ f.cmd = "detected" /\ ConfirmDetected(f.arg) /\ UNCHANGED syncVars
     \/ f.cmd = "start" /\ BeginListSync /\ Keep
     \/ f.cmd = "code" /\ AppendListCode(f.arg, f.of.list) /\ Keep
     \/ f.cmd = "end" /\ FinishListSync
  /\ UNCHANGED <<requestVars, flowVars, toController>>
Takes(f) ==
  \/ TakesMode(f) \/ TakesModeFailed(f) \/ TakesSwitch(f) \/ TakesSwitchFailed(f)
  \/ TakesNothing(f) \/ TakesCleared(f) \/ TakesReport(f) \/ TakesActive(f) \/ TakesOther(f)

LEMMA TakeIs ==
  ASSUME TakeFrame
  PROVE  /\ toScreen # <<>> /\ Takes(Head(toScreen)) /\ toScreen' = Tail(toScreen)
         /\ UNCHANGED <<ctrlVars, boundVars, trusted>>
PROOF
  <1> DEFINE f == Head(toScreen)
  <1>1. toScreen # <<>> /\ toScreen' = Tail(toScreen) /\ UNCHANGED <<ctrlVars, boundVars, trusted>>
    BY DEF TakeFrame
  <1>2. \/ /\ f.cmd = "mode ok"
           /\ IF ModePending THEN ModeSucceeds
              ELSE UNCHANGED <<stateVars, syncVars, requestVars, flowVars>>
           /\ UNCHANGED toController
        \/ /\ f.cmd = "mode failed"
           /\ IF ModePending THEN ModeFails
              ELSE UNCHANGED <<stateVars, syncVars, requestVars, flowVars>>
           /\ UNCHANGED toController
        \/ /\ f.cmd = "switch ok"
           /\ IF SwitchPending THEN SwitchSucceeds
              ELSE UNCHANGED <<stateVars, syncVars, requestVars, flowVars>> /\ UNCHANGED toController
        \/ /\ f.cmd = "switch failed"
           /\ IF SwitchPending THEN SwitchFails
              ELSE UNCHANGED <<stateVars, syncVars, requestVars, flowVars>>
           /\ UNCHANGED toController
        \/ TakesCleared(f) \/ TakesReport(f) \/ TakesActive(f) \/ TakesOther(f)
    BY Zenon DEF TakeFrame, TakesCleared, TakesReport, TakesActive, TakesOther
  <1>3. Takes(f)
    BY <1>2 DEF Takes, TakesMode, TakesModeFailed, TakesSwitch, TakesSwitchFailed, TakesNothing,
                ModeAnswers, SwitchAnswers
  <1> QED
    BY <1>1, <1>3

LEMMA TakeFrameTyped ==
  ASSUME CurrencyTyped, TakeFrame
  PROVE  CurrencyTyped'
PROOF
  <1> DEFINE f == Head(toScreen)
  <1>1. /\ toScreen # <<>> /\ Takes(f) /\ toScreen' = Tail(toScreen) /\ UNCHANGED ctrlVars
    BY TakeIs
  <1>2. f \in ScreenFrame /\ Tail(toScreen) \in Seq(ScreenFrame) /\ Genuine(f)
    BY <1>1, ScreenTaken DEF CurrencyTyped
  <1> HIDE DEF f
  <1> USE DEF CurrencyTyped
  <1>3. ControllerTyped'
    BY <1>1, PartsKept
  <1>4. toController' \in Seq(ControllerFrame) => LineTyped'
    BY <1>1, <1>2 DEF LineTyped
  <1>5. toController \in Seq(ControllerFrame)
    BY DEF LineTyped
  <1>6. CASE TakesMode(f)
    BY <1>3, <1>4, <1>5, <1>6, ModeTaken, PartsKept DEF TakesMode
  <1>7. CASE TakesModeFailed(f)
    <2>1. /\ transition' = AfterMode(mode_request, FALSE) /\ mode_request' = NoCode
          /\ UNCHANGED <<stateVars, syncVars, switch_request, clear_pending, mode, mode_clear>>
      BY <1>7 DEF TakesModeFailed, ModeFails
    <2>2. FlowTyped'
      BY <2>1, AfterModeTyped DEF FlowTyped
    <2>3. codes' = codes
      BY <2>1 DEF stateVars
    <2> QED
      BY <1>3, <1>4, <1>5, <1>7, <2>1, <2>2, <2>3, PartsKept DEF TakesModeFailed
  <1>8. CASE TakesSwitch(f)
    BY <1>3, <1>4, <1>8, SwitchTaken, PartsKept DEF TakesSwitch
  <1>9. CASE TakesSwitchFailed(f)
    <2>1. /\ switch_request' = NoSwitch
          /\ UNCHANGED <<stateVars, syncVars, mode_request, clear_pending, flowVars>>
      BY <1>9 DEF TakesSwitchFailed, SwitchFails
    <2>2. FlowTyped'
      BY <2>1, NothingAsked DEF FlowTyped, flowVars
    <2>3. codes' = codes
      BY <2>1 DEF stateVars
    <2> QED
      BY <1>3, <1>4, <1>5, <1>9, <2>1, <2>2, <2>3, PartsKept DEF TakesSwitchFailed
  <1>10. CASE TakesNothing(f)
    <2>1. UNCHANGED <<stateVars, syncVars, requestVars, flowVars, toController>>
      BY <1>10 DEF TakesNothing
    <2>2. codes' = codes /\ UNCHANGED <<mode, mode_clear, transition>>
      BY <2>1 DEF stateVars, flowVars
    <2> QED
      BY <1>3, <1>4, <1>5, <2>1, <2>2, PartsKept
  <1>11. CASE TakesCleared(f)
    <2>1. /\ clear_pending' = FALSE
          /\ UNCHANGED <<stateVars, syncVars, mode_request, switch_request, flowVars, toController>>
      BY <1>11 DEF TakesCleared
    <2>2. FlowTyped'
      BY <2>1 DEF FlowTyped, flowVars
    <2>3. codes' = codes
      BY <2>1 DEF stateVars
    <2> QED
      BY <1>3, <1>4, <1>5, <2>1, <2>2, <2>3, PartsKept
  <1>12. CASE TakesReport(f)
    <2>1. f.arg \in Requests /\ ModeReported(f.arg) /\ toController' = toController
      BY <1>2, <1>12 DEF TakesReport, Genuine
    <2> QED
      BY <1>3, <1>4, <1>5, <2>1, ReportTaken, PartsKept
  <1>13. CASE TakesActive(f)
    <2>1. /\ f.of.list \in Lists /\ f.of.code \in ToSet(f.of.list) /\ f.arg = f.of.code
          /\ ActiveReported(f.arg) /\ toController' = toController
      BY <1>2, <1>13 DEF TakesActive, Genuine, BootCmds
    <2>2. f.arg \in Codes
      BY <2>1, ToSetIs, ListIs
    <2>3. StateTyped' /\ codes' = codes /\ UNCHANGED <<syncVars, requestVars, flowVars>>
      BY <2>1, <2>2, ActiveConfirmed DEF ActiveReported
    <2> QED
      BY <1>3, <1>4, <1>5, <2>1, <2>3, PartsKept DEF flowVars
  <1>14. CASE TakesOther(f)
    <2>1. FlowTyped' /\ LineTyped'
      BY <1>4, <1>5, <1>14, PartsKept DEF TakesOther, flowVars
    <2>2. CASE f.cmd = "index" /\ ConfirmActiveIndex(f.arg) /\ UNCHANGED syncVars
      <3>1. f.of.list \in Lists /\ f.of.code \in ToSet(f.of.list) /\ f.arg = Find(f.of.code, f.of.list)
        BY <1>2, <2>2 DEF Genuine, BootCmds
      <3>2. f.arg \in Nat
        BY <3>1, FindIn
      <3>3. StateTyped' /\ codes' = codes
        BY <2>2, <3>2, IndexConfirmed
      <3> QED
        BY <1>3, <2>1, <2>2, <3>3, PartsKept
    <2>3. CASE f.cmd = "detected" /\ ConfirmDetected(f.arg) /\ UNCHANGED syncVars
      <3>1. f.arg \in Codes
        BY <1>2, <2>3 DEF Genuine
      <3>2. StateTyped' /\ codes' = codes
        BY <2>3, <3>1, DetectedConfirmed
      <3> QED
        BY <1>3, <2>1, <2>3, <3>2, PartsKept
    <2>4. CASE f.cmd = "start" /\ BeginListSync /\ Keep
      BY <1>3, <2>1, <2>4, TransferBegun, StateKept
    <2>5. CASE f.cmd = "code" /\ AppendListCode(f.arg, f.of.list) /\ Keep
      <3>1. f.of.list \in Lists
        BY <1>2, <2>5 DEF Genuine, BootCmds
      <3>2. PICK i \in DOMAIN f.of.list : f.arg = [index |-> i, code |-> f.of.list[i]]
        BY <1>2, <2>5 DEF Genuine
      <3>3. f.arg.index = i /\ f.arg.code = f.of.list[i]
        BY <3>2
      <3>4. SyncTyped'
        BY <2>5, <3>1, <3>3, CodeTransferred
      <3> QED
        BY <1>3, <2>1, <2>5, <3>4, StateKept
    <2>6. CASE f.cmd = "end" /\ FinishListSync
      BY <1>3, <2>1, <2>6, ListFinished
    <2> QED
      BY <1>14, <2>2, <2>3, <2>4, <2>5, <2>6 DEF TakesOther
  <1> QED
    BY <1>1, <1>6, <1>7, <1>8, <1>9, <1>10, <1>11, <1>12, <1>13, <1>14 DEF Takes

(* The polls.                                                              *)
LEMMA TimersTyped ==
  ASSUME CurrencyTyped, ModeClearDue \/ TakeModeTimeout \/ TakeSwitchTimeout
  PROVE  CurrencyTyped'
PROOF
  <1> USE DEF CurrencyTyped
  <1>1. /\ UNCHANGED <<stateVars, syncVars, ctrlVars, toController, toScreen>>
    BY DEF ModeClearDue, TakeModeTimeout, TakeSwitchTimeout
  <1>2. codes' = codes
    BY <1>1 DEF stateVars
  <1>3. CASE ModeClearDue
    <2>1. FlowTyped'
      BY <1>3 DEF ModeClearDue, FlowTyped, requestVars
    <2> QED
      BY <1>1, <1>2, <2>1, PartsKept
  <1>4. CASE TakeModeTimeout
    <2>1. FlowTyped'
      BY <1>4, NothingAsked DEF TakeModeTimeout, ModeTimeout, FlowTyped
    <2> QED
      BY <1>1, <1>2, <2>1, PartsKept
  <1>5. CASE TakeSwitchTimeout
    <2>1. FlowTyped'
      BY <1>5, NothingAsked DEF TakeSwitchTimeout, FlowTyped, flowVars
    <2> QED
      BY <1>1, <1>2, <2>1, PartsKept
  <1> QED
    BY <1>3, <1>4, <1>5

(* A poll clears, sends the switch that a selection waits to send, or      *)
(* both, never the switch of a selection that is not listed.               *)
LEMMA PollIs ==
  ASSUME FlowTyped, StateTyped, LineTyped, NEW e \in BOOLEAN, Poll(e)
  PROVE  /\ Keep \/ ForgetDetected
         /\ FlowTyped' /\ LineTyped'
         /\ UNCHANGED <<syncVars, mode_request, mode, toScreen, ctrlVars>>
         /\ \E cleared \in Seq(ControllerFrame) :
              /\ cleared = toController \/ cleared = Append(toController, Frame("clear", NoCode))
              /\ \/ /\ toController' = cleared /\ switch_request' = switch_request
                    /\ trusted' => trusted
                 \/ /\ ~SwitchPending /\ switch_request'.code \in Codes
                    /\ SelectionListed(switch_request'.index, switch_request'.code)
                    /\ toController' = Append(cleared, Frame("switch", switch_request'.code))
                    /\ trusted' => trusted /\ ~BootComing
PROOF
  <1> DEFINE due == mode_clear = "due"
             clearing == clear_pending /\ ~e
             after == IF e \/ (due /\ clearing) THEN NoTransition ELSE transition
             clears == due /\ ~clearing
             resumes == /\ after.kind = "wait" /\ mode_clear # "scheduled"
                        /\ ~clearing /\ ~clears /\ ~SwitchPending
             sends == resumes /\ SelectionListed(after.index, after.code)
             clear == IF clears THEN <<Frame("clear", NoCode)>> ELSE <<>>
             switch == IF sends THEN <<Frame("switch", after.code)>> ELSE <<>>
  <1>1. /\ IF due THEN mode_clear' = "none" /\ ForgetDetected ELSE UNCHANGED mode_clear /\ Keep
        /\ clear_pending' = (clearing \/ clears)
        /\ transition' = IF resumes THEN NoTransition ELSE after
        /\ switch_request' = IF sends THEN [index |-> after.index, code |-> after.code]
                             ELSE switch_request
        /\ toController' = (toController \o clear) \o switch
        /\ trusted' = (trusted /\ (sends => ~BootComing))
        /\ UNCHANGED <<syncVars, mode_request, mode, stranded, toScreen, ctrlVars, boundVars>>
    BY DEF Poll
  <1>2. after \in Transitions /\ (after.kind \in {"to manual", "wait"} => after.code \in Codes)
    BY NothingAsked DEF FlowTyped
  <1>3. resumes => after.code \in Codes
    BY <1>2
  <1>4. after.index \in 0..MaxCurrencies
    BY <1>2 DEF Transitions
  <1>5. clearing \in BOOLEAN /\ clears \in BOOLEAN /\ mode_clear' \in {"none", "scheduled", "due"}
    BY <1>1 DEF FlowTyped
  <1>6. sends => resumes /\ ~SwitchPending /\ SelectionListed(after.index, after.code)
    OBVIOUS
  <1>7. clear = <<>> \/ clear = <<Frame("clear", NoCode)>>
    OBVIOUS
  <1>8. switch = IF sends THEN <<Frame("switch", after.code)>> ELSE <<>>
    OBVIOUS
  <1>9. Keep \/ ForgetDetected
    BY <1>1
  <1> HIDE DEF resumes, sends, clear, switch, after, clears, clearing
  <1>10. transition' \in Transitions /\ (transition'.kind \in {"to manual", "wait"} => transition'.code \in Codes)
    BY <1>1, <1>2, NothingAsked
  <1>11. switch_request' \in Switches
    <2>1. CASE sends
      BY <1>1, <1>3, <1>4, <1>6, <2>1 DEF Switches
    <2>2. CASE ~sends
      BY <1>1, <2>2 DEF FlowTyped
    <2> QED
      BY <2>1, <2>2
  <1>12. FlowTyped'
    <2>1. clear_pending' \in BOOLEAN
      BY <1>1, <1>5
    <2>2. mode' \in Modes /\ mode_request' \in Requests \cup {NoCode}
      BY <1>1 DEF FlowTyped
    <2> QED
      BY <1>5, <1>10, <1>11, <2>1, <2>2 DEF FlowTyped
  <1> DEFINE cleared == toController \o clear
  <1>13. /\ cleared \in Seq(ControllerFrame)
         /\ cleared = toController \/ cleared = Append(toController, Frame("clear", NoCode))
    <2>1. toController \in Seq(ControllerFrame) /\ Frame("clear", NoCode) \in ControllerFrame
      BY FramesAre DEF LineTyped
    <2>2. CASE clear = <<>>
      <3>1. cleared = toController
        BY <2>1, <2>2, ConcatEmptySeq
      <3> QED
        BY <2>1, <3>1
    <2>3. CASE clear = <<Frame("clear", NoCode)>>
      <3>1. Append(toController, Frame("clear", NoCode)) = toController \o <<Frame("clear", NoCode)>>
        BY <2>1, AppendIsConcat
      <3>2. cleared = Append(toController, Frame("clear", NoCode))
        BY <2>3, <3>1
      <3> QED
        BY <2>1, <3>2, ControllerSent
    <2> QED
      BY <1>7, <2>2, <2>3
  <1> HIDE DEF cleared
  <1>14. toController' = cleared \o switch
    BY <1>1 DEF cleared
  <1>15. CASE ~sends
    <2>1. switch = <<>>
      BY <1>8, <1>15
    <2>2. toController' = cleared
      BY <1>13, <1>14, <2>1, ConcatEmptySeq
    <2>3. LineTyped'
      BY <1>1, <1>13, <2>2 DEF LineTyped
    <2>4. (trusted' => trusted) /\ switch_request' = switch_request
      BY <1>1, <1>15
    <2> QED
      BY <1>1, <1>9, <1>12, <1>13, <2>2, <2>3, <2>4
  <1>16. CASE sends
    <2>1. switch = <<Frame("switch", after.code)>> /\ after.code \in Codes
      BY <1>3, <1>6, <1>8, <1>16
    <2>2. Frame("switch", after.code) \in ControllerFrame
      BY <2>1, FramesAre
    <2>3. toController' = Append(cleared, Frame("switch", after.code))
      <3>1. Append(cleared, Frame("switch", after.code)) = cleared \o <<Frame("switch", after.code)>>
        BY <1>13, <2>2, AppendIsConcat
      <3> QED
        BY <1>14, <2>1, <3>1
    <2>4. switch_request'.index = after.index /\ switch_request'.code = after.code
      BY <1>1, <1>16
    <2>5. LineTyped'
      BY <1>1, <1>13, <2>2, <2>3, AppendProperties DEF LineTyped
    <2>6. /\ ~SwitchPending /\ SelectionListed(switch_request'.index, switch_request'.code)
          /\ switch_request'.code \in Codes
          /\ toController' = Append(cleared, Frame("switch", switch_request'.code))
      BY <1>6, <1>16, <2>1, <2>3, <2>4
    <2>7. trusted' => trusted /\ ~BootComing
      BY <1>1, <1>16
    <2> QED
      BY <1>1, <1>9, <1>12, <1>13, <2>5, <2>6, <2>7
  <1> QED
    BY <1>15, <1>16

LEMMA PollTyped ==
  ASSUME CurrencyTyped, NEW e \in BOOLEAN, Poll(e)
  PROVE  CurrencyTyped'
PROOF
  <1> USE DEF CurrencyTyped
  <1>1. /\ Keep \/ ForgetDetected
        /\ FlowTyped' /\ LineTyped' /\ UNCHANGED <<syncVars, ctrlVars>>
    BY PollIs
  <1>2. StateTyped' /\ codes' = codes
    BY <1>1, StateKept, DetectedForgotten DEF Keep, stateVars
  <1> QED
    BY <1>1, <1>2, PartsKept

(* The controller and the link.                                            *)
Answers(f, cmd) ==
  \/ f.cmd = "mode" /\ cmd = "mode ok" /\ ctrl_auto' = (f.arg = AUTO) /\ UNCHANGED ctrl_code
  \/ f.cmd = "mode" /\ cmd = "mode failed" /\ UNCHANGED <<ctrl_auto, ctrl_code>>
  \/ /\ f.cmd = "switch" /\ cmd = "switch ok" /\ f.arg \in ToSet(list)
     /\ ctrl_auto' = FALSE /\ ctrl_code' = f.arg
  \/ f.cmd = "switch" /\ cmd = "switch failed" /\ UNCHANGED <<ctrl_auto, ctrl_code>>
  \/ f.cmd = "clear" /\ cmd = "cleared" /\ UNCHANGED <<ctrl_auto, ctrl_code>>

LEMMA ServeIs ==
  ASSUME LineTyped, Serve
  PROVE  /\ toController # <<>> /\ toController' = Tail(toController)
         /\ Head(toController) \in ControllerFrame
         /\ \E cmd \in ModeAnswers \cup SwitchAnswers \cup {"cleared"} :
              Answers(Head(toController), cmd) /\ toScreen' = Append(toScreen, Frame(cmd, NoCode))
         /\ UNCHANGED <<stateVars, syncVars, requestVars, flowVars, list, boundVars, trusted>>
         /\ LineTyped'
PROOF
  <1> DEFINE f == Head(toController)
  <1>1. /\ toController # <<>> /\ toController' = Tail(toController)
        /\ UNCHANGED <<stateVars, syncVars, requestVars, flowVars, list, boundVars, trusted>>
    BY DEF Serve
  <1>2. f \in ControllerFrame /\ Tail(toController) \in Seq(ControllerFrame)
    BY <1>1, HeadTailProperties DEF LineTyped
  <1>3. \E cmd \in {"mode ok", "mode failed", "switch ok", "switch failed", "cleared"} :
          Answers(f, cmd) /\ toScreen' = Append(toScreen, Frame(cmd, NoCode))
    BY DEF Serve, Answers
  <1>4. PICK cmd \in ModeAnswers \cup SwitchAnswers \cup {"cleared"} :
          Answers(f, cmd) /\ toScreen' = Append(toScreen, Frame(cmd, NoCode))
    BY <1>3 DEF ModeAnswers, SwitchAnswers
  <1>5. Frame(cmd, NoCode) \in ScreenFrame
    BY FramesAre
  <1>6. toScreen' \in Seq(ScreenFrame)
    BY <1>4, <1>5, AppendProperties DEF LineTyped
  <1>7. LineTyped'
    BY <1>1, <1>2, <1>6 DEF LineTyped
  <1> QED
    BY <1>1, <1>2, <1>4, <1>7

LEMMA ServeTyped ==
  ASSUME CurrencyTyped, Serve
  PROVE  CurrencyTyped'
PROOF
  <1> DEFINE f == Head(toController)
  <1> USE DEF CurrencyTyped
  <1>1. /\ f \in ControllerFrame /\ \E cmd : Answers(f, cmd)
        /\ UNCHANGED <<stateVars, syncVars, requestVars, flowVars, list>> /\ LineTyped'
    BY ServeIs
  <1>2. ControllerTyped'
    BY <1>1 DEF Answers, ControllerTyped
  <1>3. codes' = codes /\ UNCHANGED <<mode, mode_clear, transition>>
    BY <1>1 DEF stateVars, flowVars
  <1> QED
    BY <1>1, <1>2, <1>3, PartsKept

LEMMA BootsTyped ==
  ASSUME CurrencyTyped, NEW new \in Lists, NEW auto \in BOOLEAN, NEW code \in ToSet(new),
         NEW reported \in Modes, NEW lost \in 0..(Len(new) + 5),
         ControllerBoots(new, auto, code, reported, lost)
  PROVE  CurrencyTyped'
PROOF
  <1> DEFINE report == Report(new, auto, code, reported)
             arrives == IF lost = 0 THEN report ELSE RemoveAt(report, lost)
  <1> USE DEF CurrencyTyped
  <1>1. /\ list' = new /\ ctrl_auto' = auto /\ ctrl_code' = code /\ toController' = <<>>
        /\ toScreen' = toScreen \o arrives
        /\ UNCHANGED <<stateVars, syncVars, requestVars, flowVars>>
    BY DEF ControllerBoots
  <1>2. report \in Seq(ScreenFrame) /\ Len(report) = Len(new) + 5
    BY ReportIs
  <1>3. Len(new) \in Nat
    BY ListIs
  <1> HIDE DEF report
  <1>4. arrives \in Seq(ScreenFrame)
    <2>1. CASE lost = 0
      BY <1>2, <2>1
    <2>2. CASE lost # 0
      <3>1. lost \in 1..Len(report)
        BY <1>2, <1>3, <2>2
      <3> QED
        BY <1>2, <2>2, <3>1, RemovedIs
    <2> QED
      BY <2>1, <2>2
  <1> HIDE DEF arrives
  <1>5. toScreen \o arrives \in Seq(ScreenFrame)
    BY <1>4, ConcatProperties DEF LineTyped
  <1>6. LineTyped'
    BY <1>1, <1>5 DEF LineTyped
  <1>7. ControllerTyped'
    BY <1>1 DEF ControllerTyped
  <1>8. codes' = codes /\ UNCHANGED <<mode, mode_clear, transition>>
    BY <1>1 DEF stateVars, flowVars
  <1> QED
    BY <1>1, <1>6, <1>7, <1>8, PartsKept

LEMMA LinkTyped ==
  ASSUME CurrencyTyped, (\E code \in ToSet(list) : Detect(code)) \/ Lose
  PROVE  CurrencyTyped'
PROOF
  <1> USE DEF CurrencyTyped
  <1>1. UNCHANGED <<stateVars, syncVars, requestVars, flowVars, ctrlVars>>
    BY DEF Detect, Lose
  <1>2. codes' = codes /\ UNCHANGED <<mode, mode_clear, transition>>
    BY <1>1 DEF stateVars, flowVars
  <1>3. LineTyped'
    <2>1. ASSUME NEW code \in ToSet(list), Detect(code)
          PROVE  LineTyped'
      <3>1. /\ toScreen' = Append(toScreen, Frame("detected", code))
            /\ toController' = toController
        BY <2>1 DEF Detect
      <3>2. code \in Codes
        BY FindIn DEF ControllerTyped
      <3>3. Frame("detected", code) \in ScreenFrame
        BY <3>2, FramesAre
      <3> QED
        BY <3>1, <3>3, AppendProperties DEF LineTyped
    <2>2. CASE Lose
      <3>1. DOMAIN toScreen = 1..Len(toScreen) /\ DOMAIN toController = 1..Len(toController)
        BY DEF LineTyped
      <3>2. CASE \E i \in DOMAIN toScreen :
                   toScreen' = RemoveAt(toScreen, i) /\ UNCHANGED toController
        BY <3>1, <3>2, RemovedIs DEF LineTyped
      <3>3. CASE \E i \in DOMAIN toController :
                   toController' = RemoveAt(toController, i) /\ UNCHANGED toScreen
        BY <3>1, <3>3, RemovedIs DEF LineTyped
      <3> QED
        BY <2>2, <3>2, <3>3 DEF Lose
    <2> QED
      BY <2>1, <2>2
  <1> QED
    BY <1>1, <1>2, <1>3, PartsKept

LEMMA TypedNext == CurrencyTyped /\ [Next]_vars => CurrencyTyped'
PROOF
  <1> SUFFICES ASSUME CurrencyTyped, [Next]_vars PROVE CurrencyTyped'
    OBVIOUS
  <1>1. CASE UserStep
    BY <1>1, SelectTyped, NextModeTyped, UserClearTyped DEF UserStep
  <1>2. CASE TakeFrame
    BY <1>2, TakeFrameTyped
  <1>3. CASE PollStep
    BY <1>3, TimersTyped, PollTyped DEF PollStep
  <1>4. CASE ControllerStep
    BY <1>4, ServeTyped, BootsTyped, LinkTyped DEF ControllerStep
  <1>5. CASE UNCHANGED vars
    <2>1. /\ UNCHANGED <<stateVars, syncVars, requestVars, mode, mode_clear, transition, ctrlVars>>
          /\ UNCHANGED <<toController, toScreen, codes>>
      BY <1>5 DEF vars, stateVars, flowVars
    <2> QED
      BY <2>1, PartsKept DEF CurrencyTyped
  <1> QED
    BY <1>1, <1>2, <1>3, <1>4, <1>5 DEF Next

LEMMA TypedAlways == Spec => []CurrencyTyped
  BY TypedInit, TypedNext, PTL DEF Spec

(* What the parts say is what ListSound says.                              *)
LEMMA TypedIsSound == CurrencyTyped => ListSound
PROOF
  <1> SUFFICES ASSUME CurrencyTyped PROVE ListSound
    OBVIOUS
  <1> USE DEF CurrencyTyped
  <1>1. /\ codes \in Seq(Codes \cup {AUTO}) /\ Len(codes) > 1 /\ codes[1] = AUTO /\ IsInjective(codes)
        /\ Len(codes) \in Nat
    BY DEF StateTyped, CodeList
  <1>2. Head(codes) = AUTO
    BY <1>1
  <1>3. ASSUME NEW i \in DOMAIN toScreen
        PROVE  FrameOK(toScreen[i])
    <2>1. toScreen \in Seq(ScreenFrame) /\ i \in 1..Len(toScreen)
      BY DEF LineTyped
    <2>2. toScreen[i] \in ScreenFrame
      BY <2>1
    <2>3. toScreen[i].cmd \in Cmds
      BY <2>2, ScreenFrameIs
    <2> QED
      BY <2>3 DEF Cmds, BootCmds, ModeAnswers, SwitchAnswers, FrameOK
  <1>4. switch_request.index \in 0..MaxCurrencies /\ switch_request.code \in Codes \cup {NoCode}
    <2>1. switch_request \in Switches
      BY DEF FlowTyped
    <2> QED
      BY <2>1 DEF Switches
  <1>5. transition.kind \in {"none", "to auto", "to manual", "wait"}
    <2>1. transition \in Transitions
      BY DEF FlowTyped
    <2> QED
      BY <2>1 DEF Transitions
  <1>6. mode \in Modes /\ mode_request \in Modes \cup {AUTO, NoCode}
    BY DEF FlowTyped, Requests
  <1>7. TypeOK
    BY <1>1, <1>3, <1>4, <1>5, <1>6 DEF TypeOK, StateTyped, FlowTyped, SyncTyped
  <1>8. ASSUME ~mixed
        PROVE  \E whole \in Lists : IsPrefix(Tail(codes), whole)
    <2>1. PICK whole \in Lists : /\ Len(codes) - 1 <= Len(whole)
                                 /\ \A i \in 2..Len(codes) : codes[i] = whole[i - 1]
      BY <1>8 DEF SyncTyped
    <2>2. /\ whole \in Seq(Codes) /\ Len(whole) \in Nat
          /\ \A i \in 1..Len(whole) : whole[i] \in Codes
      BY ListIs
    <2> DEFINE n == Len(codes) - 1
               rest == Tail(codes)
    <2>3. n \in Nat /\ n >= 1 /\ n <= Len(whole) /\ n + 1 = Len(codes)
      BY <1>1, <2>1
    <2>4. rest \in Seq(Codes \cup {AUTO}) /\ Len(rest) = n /\ \A i \in 1..n : rest[i] = codes[i + 1]
      BY <1>1
    <2>5. \A i \in 1..n : i + 1 \in 2..Len(codes) /\ (i + 1) - 1 = i
      BY <2>3
    <2> HIDE DEF n, rest
    <2>6. \A i \in 1..n : rest[i] = whole[i]
      BY <2>1, <2>4, <2>5
    <2>7. SubSeq(rest, 1, n) = rest
      BY <2>4, SubSeqFull
    <2> DEFINE cut == SubSeq(whole, 1, n)
    <2>8. cut \in Seq(Codes \cup {AUTO}) /\ Len(cut) = n /\ \A i \in 1..n : cut[i] = whole[i]
      <3>1. \A i \in 1..n : whole[i] \in Codes \cup {AUTO}
        BY <2>2, <2>3
      <3>2. 1 \in Int /\ n \in Int /\ 1 <= n /\ n - 1 + 1 = n /\ \A i \in 1..n : 1 + i - 1 = i
        BY <2>3
      <3>3. /\ cut \in Seq(Codes \cup {AUTO}) /\ Len(cut) = n - 1 + 1
            /\ \A i \in 1..n - 1 + 1 : cut[i] = whole[1 + i - 1]
        BY <3>1, <3>2, SubSeqProperties
      <3> QED
        BY <3>2, <3>3
    <2> HIDE DEF cut
    <2>9. rest = cut
      <3>1. \A i \in 1..Len(rest) : rest[i] = cut[i]
        BY <2>4, <2>6, <2>8
      <3> QED
        BY <2>4, <2>8, <3>1, SeqEqual
    <2>10. Len(rest) <= Len(whole) /\ SubSeq(rest, 1, Len(rest)) = SubSeq(whole, 1, Len(rest))
      BY <2>3, <2>4, <2>7, <2>9 DEF cut
    <2> QED
      BY <2>10 DEF IsPrefix, rest
  <1> QED
    BY <1>1, <1>2, <1>7, <1>8 DEF ListSound

(***************************************************************************)
(* currency_state.c: whatever frames of whatever reports are lost, late    *)
(* or crossed by a boot, the list is AUTO and currencies, each once, and,  *)
(* unless it was put together from two reports, the beginning of one list  *)
(* of the controller (ListSound).                                          *)
(***************************************************************************)
THEOREM CurrencyListSound == Spec => []ListSound
  BY TypedAlways, TypedIsSound, PTL

-----------------------------------------------------------------------------
(* Lines that grow at the end and shrink at the front.                     *)
LEMMA Grown ==
  ASSUME NEW S, NEW s \in Seq(S), NEW f \in S
  PROVE  /\ Append(s, f) \in Seq(S) /\ Len(s) \in Nat /\ Len(Append(s, f)) = Len(s) + 1
         /\ \A i \in 1..Len(s) : Append(s, f)[i] = s[i]
         /\ Append(s, f)[Len(s) + 1] = f
  BY AppendProperties

LEMMA Shrunk ==
  ASSUME NEW S, NEW s \in Seq(S), s # <<>>
  PROVE  /\ Tail(s) \in Seq(S) /\ Len(s) \in Nat /\ Len(s) >= 1 /\ Len(Tail(s)) = Len(s) - 1
         /\ Head(s) = s[1] /\ Head(s) \in S
         /\ \A i \in 1..Len(s) - 1 : Tail(s)[i] = s[i + 1]
PROOF
  <1>1. Len(s) \in Nat /\ Len(s) >= 1 /\ Head(s) = s[1] /\ Head(s) \in S
    OBVIOUS
  <1> QED
    BY <1>1, HeadTailProperties

LEMMA ShrunkAt ==
  ASSUME NEW S, NEW s \in Seq(S), s # <<>>
  PROVE  /\ 1 \in 1..Len(s) /\ Head(s) = s[1] /\ Len(s) \in Nat /\ Len(Tail(s)) \in Nat
         /\ \A i \in 1..Len(Tail(s)) :
              i \in Nat /\ i + 1 \in 1..Len(s) /\ i + 1 # 1 /\ Tail(s)[i] = s[i + 1]
         /\ \A i \in 1..Len(s) : \/ i = 1
                                 \/ i - 1 \in 1..Len(Tail(s)) /\ Tail(s)[i - 1] = s[i]
         /\ \A i, j \in 1..Len(Tail(s)) : i + 1 = j + 1 => i = j
PROOF
  <1> DEFINE shrunk == Tail(s)
             first == Head(s)
  <1>1. /\ Len(s) \in Nat /\ Len(s) >= 1 /\ Len(shrunk) = Len(s) - 1 /\ first = s[1]
        /\ \A i \in 1..Len(s) - 1 : shrunk[i] = s[i + 1]
    BY Shrunk
  <1> HIDE DEF shrunk, first
  <1>2. 1 \in 1..Len(s) /\ \A i \in 1..Len(shrunk) :
          i \in Nat /\ i + 1 \in 1..Len(s) /\ i + 1 # 1 /\ shrunk[i] = s[i + 1]
    BY <1>1
  <1>3. \A i \in 1..Len(s) :
          i = 1 \/ (i - 1 \in 1..Len(shrunk) /\ shrunk[i - 1] = s[i])
    BY <1>1
  <1>4. \A i, j \in 1..Len(shrunk) : i + 1 = j + 1 => i = j
    BY <1>1
  <1>5. Len(shrunk) \in Nat
    BY <1>1
  <1> QED
    BY <1>1, <1>2, <1>3, <1>4, <1>5 DEF shrunk, first

(* A request and its answer.                                               *)
LEMMA OnceKept ==
  ASSUME NEW S, NEW line \in Seq(S), NEW screen, NEW ask, NEW answers, NEW f \in S, f.cmd # ask
  PROVE  /\ Neither(line, screen, ask, answers) => Neither(Append(line, f), screen, ask, answers)
         /\ \A arg : Once(line, screen, ask, answers, arg) =>
                      Once(Append(line, f), screen, ask, answers, arg)
PROOF
  <1> DEFINE grown == Append(line, f)
  <1>1. /\ Len(line) \in Nat /\ Len(grown) = Len(line) + 1
        /\ \A i \in 1..Len(line) : grown[i] = line[i]
        /\ grown[Len(line) + 1] = f
    BY Grown
  <1> HIDE DEF grown
  <1>2. \A i \in 1..Len(grown) : grown[i].cmd = ask => i \in 1..Len(line) /\ grown[i] = line[i]
    BY <1>1
  <1>3. Neither(line, screen, ask, answers) => Neither(grown, screen, ask, answers)
    BY <1>2, Zenon DEF Neither
  <1>4. \A arg : Once(line, screen, ask, answers, arg) => Once(grown, screen, ask, answers, arg)
    BY <1>2, Zenon DEF Once
  <1> QED
    BY <1>3, <1>4 DEF grown

LEMMA OnceHeard ==
  ASSUME NEW S, NEW line, NEW screen \in Seq(S), NEW ask, NEW answers, NEW g \in S,
         g.cmd \notin answers
  PROVE  /\ Neither(line, screen, ask, answers) => Neither(line, Append(screen, g), ask, answers)
         /\ \A arg : Once(line, screen, ask, answers, arg) =>
                      Once(line, Append(screen, g), ask, answers, arg)
PROOF
  <1> DEFINE grown == Append(screen, g)
  <1>1. /\ Len(screen) \in Nat /\ Len(grown) = Len(screen) + 1
        /\ \A i \in 1..Len(screen) : grown[i] = screen[i]
        /\ grown[Len(screen) + 1] = g
    BY Grown
  <1> HIDE DEF grown
  <1>2. \A i \in 1..Len(grown) :
          grown[i].cmd \in answers => i \in 1..Len(screen) /\ grown[i] = screen[i]
    BY <1>1
  <1>3. Neither(line, screen, ask, answers) => Neither(line, grown, ask, answers)
    BY <1>2, Zenon DEF Neither
  <1>4. \A arg : Once(line, screen, ask, answers, arg) => Once(line, grown, ask, answers, arg)
    BY <1>2, Zenon DEF Once
  <1> QED
    BY <1>3, <1>4 DEF grown

LEMMA OnceAsked ==
  ASSUME NEW S, NEW line \in Seq(S), NEW screen, NEW ask, NEW answers,
         Neither(line, screen, ask, answers), NEW f \in S, f.cmd = ask
  PROVE  Once(Append(line, f), screen, ask, answers, f.arg)
PROOF
  <1> DEFINE grown == Append(line, f)
  <1>1. /\ Len(line) \in Nat /\ Len(grown) = Len(line) + 1
        /\ \A i \in 1..Len(line) : grown[i] = line[i]
        /\ grown[Len(line) + 1] = f
    BY Grown
  <1> HIDE DEF grown
  <1>2. /\ \A i \in 1..Len(line) : line[i].cmd # ask
        /\ \A i \in 1..Len(screen) : screen[i].cmd \notin answers
    BY DEF Neither
  <1>3. \A i \in 1..Len(grown) : grown[i].cmd = ask => i = Len(line) + 1 /\ grown[i] = f
    BY <1>1, <1>2
  <1>4. Once(grown, screen, ask, answers, f.arg)
    BY <1>2, <1>3, Zenon DEF Once
  <1> QED
    BY <1>4 DEF grown

LEMMA NeitherIsOnce ==
  ASSUME NEW line, NEW screen, NEW ask, NEW answers, Neither(line, screen, ask, answers), NEW arg
  PROVE  Once(line, screen, ask, answers, arg)
  BY Zenon DEF Neither, Once

LEMMA OnceServed ==
  ASSUME NEW S, NEW T, NEW line \in Seq(S), NEW screen \in Seq(T), line # <<>>,
         NEW ask, NEW answers, NEW g \in T, g.cmd \in answers <=> Head(line).cmd = ask
  PROVE  /\ Neither(line, screen, ask, answers) =>
              Neither(Tail(line), Append(screen, g), ask, answers)
         /\ \A arg : Once(line, screen, ask, answers, arg) =>
                      Once(Tail(line), Append(screen, g), ask, answers, arg)
PROOF
  <1> DEFINE shrunk == Tail(line)
             grown == Append(screen, g)
             f == Head(line)
  <1>1. /\ Len(screen) \in Nat /\ Len(grown) = Len(screen) + 1
        /\ \A i \in 1..Len(screen) : grown[i] = screen[i]
        /\ grown[Len(screen) + 1] = g
    BY Grown
  <1>2. /\ 1 \in 1..Len(line) /\ f = line[1]
        /\ \A i \in 1..Len(shrunk) : i + 1 \in 1..Len(line) /\ i + 1 # 1 /\ shrunk[i] = line[i + 1]
        /\ \A i, j \in 1..Len(shrunk) : i + 1 = j + 1 => i = j
    BY ShrunkAt, Zenon
  <1>3. g.cmd \in answers <=> f.cmd = ask
    OBVIOUS
  <1> HIDE DEF grown, shrunk, f
  <1>4. \A i \in 1..Len(grown) :
          \/ i \in 1..Len(screen) /\ grown[i] = screen[i]
          \/ i = Len(screen) + 1 /\ grown[i] = g
    BY <1>1
  <1>5. Neither(line, screen, ask, answers) => Neither(shrunk, grown, ask, answers)
    BY <1>2, <1>3, <1>4, Zenon DEF Neither
  <1>6. ASSUME NEW arg, Once(line, screen, ask, answers, arg), f.cmd = ask
        PROVE  Once(shrunk, grown, ask, answers, arg)
    <2>1. \A i \in 1..Len(screen) : screen[i].cmd \notin answers
      BY <1>2, <1>6, Zenon DEF Once
    <2>2. \A i \in 1..Len(shrunk) : shrunk[i].cmd # ask
      BY <1>2, <1>6, Zenon DEF Once
    <2>3. \A i, j \in 1..Len(grown) : grown[i].cmd \in answers /\ grown[j].cmd \in answers => j = i
      BY <1>4, <2>1, Zenon
    <2> QED
      BY <2>2, <2>3, Zenon DEF Once
  <1>7. ASSUME NEW arg, Once(line, screen, ask, answers, arg), f.cmd # ask
        PROVE  Once(shrunk, grown, ask, answers, arg)
    <2>1. \A i \in 1..Len(grown) :
            grown[i].cmd \in answers => i \in 1..Len(screen) /\ grown[i] = screen[i]
      BY <1>3, <1>4, <1>7
    <2>2. ASSUME NEW i \in 1..Len(shrunk), shrunk[i].cmd = ask
          PROVE  /\ shrunk[i].arg = arg
                 /\ \A j \in 1..Len(shrunk) : shrunk[j].cmd = ask => j = i
                 /\ \A j \in 1..Len(grown) : grown[j].cmd \notin answers
      <3>1. i + 1 \in 1..Len(line) /\ line[i + 1] = shrunk[i] /\ line[i + 1].cmd = ask
        BY <1>2, <2>2
      <3>2. /\ line[i + 1].arg = arg
            /\ \A j \in 1..Len(line) : line[j].cmd = ask => j = i + 1
            /\ \A j \in 1..Len(screen) : screen[j].cmd \notin answers
        BY <1>7, <3>1, Zenon DEF Once
      <3> QED
        BY <1>2, <2>1, <3>1, <3>2, Zenon
    <2>3. \A i \in 1..Len(grown) :
            grown[i].cmd \in answers =>
              \A j \in 1..Len(grown) : grown[j].cmd \in answers => j = i
      BY <1>7, <2>1, Zenon DEF Once
    <2> QED
      BY <2>2, <2>3, Zenon DEF Once
  <1> QED
    BY <1>5, <1>6, <1>7, Zenon DEF shrunk, grown

LEMMA OnceTaken ==
  ASSUME NEW S, NEW line, NEW screen \in Seq(S), screen # <<>>, NEW ask, NEW answers
  PROVE  /\ Neither(line, screen, ask, answers) =>
              Neither(line, Tail(screen), ask, answers) /\ Head(screen).cmd \notin answers
         /\ \A arg : Once(line, screen, ask, answers, arg) =>
              IF Head(screen).cmd \in answers
              THEN Neither(line, Tail(screen), ask, answers)
              ELSE Once(line, Tail(screen), ask, answers, arg)
PROOF
  <1> DEFINE shrunk == Tail(screen)
             f == Head(screen)
  <1>1. /\ 1 \in 1..Len(screen) /\ f = screen[1]
        /\ \A i \in 1..Len(shrunk) :
             i + 1 \in 1..Len(screen) /\ i + 1 # 1 /\ shrunk[i] = screen[i + 1]
        /\ \A i, j \in 1..Len(shrunk) : i + 1 = j + 1 => i = j
    BY ShrunkAt, Zenon
  <1> HIDE DEF shrunk, f
  <1>2. Neither(line, screen, ask, answers) => Neither(line, shrunk, ask, answers) /\ f.cmd \notin answers
    BY <1>1, Zenon DEF Neither
  <1>3. ASSUME NEW arg, Once(line, screen, ask, answers, arg), f.cmd \in answers
        PROVE  Neither(line, shrunk, ask, answers)
    <2>1. \A j \in 1..Len(screen) : screen[j].cmd \in answers => j = 1
      BY <1>1, <1>3, Zenon DEF Once
    <2>2. \A i \in 1..Len(shrunk) : shrunk[i].cmd \notin answers
      BY <1>1, <2>1
    <2>3. \A i \in 1..Len(line) : line[i].cmd # ask
      BY <1>1, <1>3, Zenon DEF Once
    <2> QED
      BY <2>2, <2>3, Zenon DEF Neither
  <1>4. ASSUME NEW arg, Once(line, screen, ask, answers, arg), f.cmd \notin answers
        PROVE  Once(line, shrunk, ask, answers, arg)
    <2>1. ASSUME NEW i \in 1..Len(shrunk), shrunk[i].cmd \in answers
          PROVE  \A j \in 1..Len(shrunk) : shrunk[j].cmd \in answers => j = i
      <3>1. i + 1 \in 1..Len(screen) /\ screen[i + 1].cmd \in answers
        BY <1>1, <2>1
      <3>2. \A j \in 1..Len(screen) : screen[j].cmd \in answers => j = i + 1
        BY <1>4, <3>1, Zenon DEF Once
      <3> QED
        BY <1>1, <3>2
    <2>2. ASSUME NEW i \in 1..Len(line), line[i].cmd = ask
          PROVE  /\ line[i].arg = arg
                 /\ \A j \in 1..Len(line) : line[j].cmd = ask => j = i
                 /\ \A j \in 1..Len(shrunk) : shrunk[j].cmd \notin answers
      <3>1. /\ line[i].arg = arg
            /\ \A j \in 1..Len(line) : line[j].cmd = ask => j = i
            /\ \A j \in 1..Len(screen) : screen[j].cmd \notin answers
        BY <1>4, <2>2, Zenon DEF Once
      <3> QED
        BY <1>1, <3>1
    <2> QED
      BY <2>1, <2>2, Zenon DEF Once
  <1> QED
    BY <1>2, <1>3, <1>4, Zenon DEF shrunk, f

(* What is on the way to the screen.                                       *)
BootOn(screen) == \E i \in 1..Len(screen) : IsBoot(screen[i])

LEMMA BootComingIs == LineTyped => (BootComing <=> BootOn(toScreen))
PROOF
  <1> SUFFICES ASSUME LineTyped PROVE BootComing <=> BootOn(toScreen)
    OBVIOUS
  <1>1. DOMAIN toScreen = 1..Len(toScreen)
    BY DEF LineTyped
  <1> QED
    BY <1>1, Zenon DEF BootComing, BootOn, IsBoot, BootCmds

LEMMA HasHeard ==
  ASSUME NEW S, NEW screen \in Seq(S), NEW g \in S
  PROVE  /\ \A cmd : Has(Append(screen, g), cmd) <=> (Has(screen, cmd) \/ g.cmd = cmd)
         /\ BootOn(Append(screen, g)) <=> (BootOn(screen) \/ IsBoot(g))
PROOF
  <1> DEFINE grown == Append(screen, g)
  <1>1. /\ Len(screen) \in Nat /\ Len(grown) = Len(screen) + 1
        /\ \A i \in 1..Len(screen) : grown[i] = screen[i]
        /\ grown[Len(screen) + 1] = g
    BY Grown
  <1> HIDE DEF grown
  <1>2. \A i \in 1..Len(screen) : i \in 1..Len(grown) /\ grown[i] = screen[i]
    BY <1>1
  <1>3. Len(screen) + 1 \in 1..Len(grown) /\ grown[Len(screen) + 1] = g
    BY <1>1
  <1>4. \A i \in 1..Len(grown) :
          (i \in 1..Len(screen) /\ grown[i] = screen[i]) \/ grown[i] = g
    BY <1>1
  <1>5. \A cmd : Has(grown, cmd) <=> (Has(screen, cmd) \/ g.cmd = cmd)
    BY <1>2, <1>3, <1>4, Zenon DEF Has
  <1>6. BootOn(grown) <=> (BootOn(screen) \/ IsBoot(g))
    BY <1>2, <1>3, <1>4, Zenon DEF BootOn
  <1> QED
    BY <1>5, <1>6 DEF grown

LEMMA HasTaken ==
  ASSUME NEW S, NEW screen \in Seq(S), screen # <<>>
  PROVE  /\ \A cmd : Head(screen).cmd # cmd => (Has(Tail(screen), cmd) <=> Has(screen, cmd))
         /\ BootOn(Tail(screen)) => BootOn(screen)
         /\ ~IsBoot(Head(screen)) => (BootOn(Tail(screen)) <=> BootOn(screen))
PROOF
  <1> DEFINE shrunk == Tail(screen)
             f == Head(screen)
  <1>1. /\ Len(screen) \in Nat /\ Len(screen) >= 1 /\ Len(shrunk) = Len(screen) - 1 /\ f = screen[1]
        /\ \A i \in 1..Len(screen) - 1 : shrunk[i] = screen[i + 1]
    BY Shrunk
  <1> HIDE DEF shrunk, f
  <1>2. \A i \in 1..Len(shrunk) : i + 1 \in 1..Len(screen) /\ shrunk[i] = screen[i + 1]
    BY <1>1
  <1>3. \A i \in 1..Len(screen) :
          i = 1 \/ (i - 1 \in 1..Len(shrunk) /\ shrunk[i - 1] = screen[i])
    BY <1>1
  <1>4. \A cmd : f.cmd # cmd => (Has(shrunk, cmd) <=> Has(screen, cmd))
    BY <1>1, <1>2, <1>3, Zenon DEF Has
  <1>5. /\ BootOn(shrunk) => BootOn(screen)
        /\ ~IsBoot(f) => (BootOn(shrunk) <=> BootOn(screen))
    BY <1>1, <1>2, <1>3, Zenon DEF BootOn
  <1> QED
    BY <1>4, <1>5 DEF shrunk, f

(* What the answers lead to.                                               *)
LEMMA LeadsHeard ==
  ASSUME NEW S, NEW screen \in Seq(S), NEW g \in S, NEW auto, NEW to_auto, NEW result,
         Leads(screen, auto, to_auto, result)
  PROVE  /\ g.cmd \notin {"mode ok", "switch ok"} => Leads(Append(screen, g), auto, to_auto, result)
         /\ g.cmd = "mode ok" => \A r : (r <=> to_auto) => Leads(Append(screen, g), auto, to_auto, r)
         /\ g.cmd = "switch ok" => Leads(Append(screen, g), auto, to_auto, FALSE)
PROOF
  <1> DEFINE grown == Append(screen, g)
             n == Len(screen)
  <1>1. /\ n \in Nat /\ Len(grown) = n + 1
        /\ \A i \in 1..n : grown[i] = screen[i]
        /\ grown[n + 1] = g
    BY Grown
  <1> HIDE DEF grown
  <1>2. \A cmd : Has(grown, cmd) <=> (Has(screen, cmd) \/ g.cmd = cmd)
    BY HasHeard DEF grown
  <1> HIDE DEF n
  <1>3. n + 1 \in 1..Len(grown) /\ \A i \in 1..n : i \in 1..Len(grown)
    BY <1>1
  <1>4. \A i \in 1..Len(grown) : i \in 1..n \/ i = n + 1
    BY <1>1
  <1>5. \A i \in 1..Len(grown) : ~(n + 1 < i)
    BY <1>1
  <1>6. ASSUME g.cmd \notin {"mode ok", "switch ok"}
        PROVE  Leads(grown, auto, to_auto, result)
    <2>1. \A i \in 1..Len(grown), cmd \in {"mode ok", "switch ok"}, other \in {"mode ok", "switch ok"} :
            IsLast(grown, i, cmd, other) => i \in 1..n /\ IsLast(screen, i, cmd, other)
      BY <1>1, <1>3, <1>4, <1>6 DEF IsLast, n
    <2>2. /\ \A i \in 1..Len(grown) : IsLast(grown, i, "mode ok", "switch ok") => (result <=> to_auto)
          /\ \A i \in 1..Len(grown) : IsLast(grown, i, "switch ok", "mode ok") => ~result
      BY <2>1 DEF Leads, n
    <2>3. ~Has(grown, "mode ok") /\ ~Has(grown, "switch ok") => (result <=> auto)
      BY <1>2, Zenon DEF Leads
    <2> QED
      BY <2>2, <2>3, Zenon DEF Leads
  <1>7. ASSUME g.cmd = "mode ok", NEW r, r <=> to_auto
        PROVE  Leads(grown, auto, to_auto, r)
    <2>1. \A i \in 1..Len(grown) : ~IsLast(grown, i, "switch ok", "mode ok")
      BY <1>1, <1>3, <1>5, <1>7, Zenon DEF IsLast
    <2>2. Has(grown, "mode ok")
      BY <1>2, <1>7
    <2> QED
      BY <1>7, <2>1, <2>2, Zenon DEF Leads
  <1>8. ASSUME g.cmd = "switch ok"
        PROVE  Leads(grown, auto, to_auto, FALSE)
    <2>1. \A i \in 1..Len(grown) : ~IsLast(grown, i, "mode ok", "switch ok")
      BY <1>1, <1>3, <1>5, <1>8, Zenon DEF IsLast
    <2>2. Has(grown, "switch ok")
      BY <1>2, <1>8
    <2> QED
      BY <2>1, <2>2, Zenon DEF Leads
  <1> QED
    BY <1>6, <1>7, <1>8 DEF grown

LEMMA LeadsAsked ==
  ASSUME NEW screen, NEW auto, NEW to_auto, NEW result, NEW any,
         Leads(screen, auto, to_auto, result), ~Has(screen, "mode ok")
  PROVE  Leads(screen, auto, any, result)
  BY Zenon DEF Leads, IsLast, Has

LEMMA LastShifted ==
  ASSUME NEW S, NEW screen \in Seq(S), screen # <<>>,
         NEW i \in 1..Len(Tail(screen)), NEW cmd, NEW other, IsLast(Tail(screen), i, cmd, other)
  PROVE  IsLast(screen, i + 1, cmd, other)
PROOF
  <1> DEFINE shrunk == Tail(screen)
             m == Len(Tail(screen))
  <1>1. /\ m \in Nat /\ i \in 1..m /\ shrunk[i] = screen[i + 1]
        /\ \A j \in 1..Len(screen) : j = 1 \/ (j - 1 \in 1..m /\ shrunk[j - 1] = screen[j])
    BY ShrunkAt, Zenon
  <1>2. shrunk[i].cmd = cmd /\ \A j \in 1..m : shrunk[j].cmd = other => j < i
    BY Zenon DEF IsLast
  <1>3. \A j \in 1..Len(screen) : j \in Int
    BY ShrunkAt
  <1> HIDE DEF shrunk, m
  <1>4. i \in Nat /\ i >= 1
    BY <1>1
  <1>5. \A j \in 1..Len(screen) : screen[j].cmd = other => j < i + 1
    BY <1>1, <1>2, <1>3, <1>4
  <1> QED
    BY <1>1, <1>2, <1>5, Zenon DEF IsLast

(* A frame that is first and comes once.                                   *)
OnlyFirst(screen, cmd) ==
  \A i \in 1..Len(screen) : screen[1].cmd = cmd /\ screen[i].cmd = cmd => i = 1

LEMMA LeadsTaken ==
  ASSUME NEW S, NEW screen \in Seq(S), screen # <<>>, NEW auto, NEW to_auto, NEW result,
         Leads(screen, auto, to_auto, result),
         OnlyFirst(screen, "mode ok"), OnlyFirst(screen, "switch ok")
  PROVE  LET f == Head(screen)
         IN  /\ f.cmd \notin {"mode ok", "switch ok"} => Leads(Tail(screen), auto, to_auto, result)
             /\ f.cmd = "mode ok" => \A any : Leads(Tail(screen), to_auto, any, result)
             /\ f.cmd = "switch ok" => Leads(Tail(screen), FALSE, to_auto, result)
PROOF
  <1> DEFINE shrunk == Tail(screen)
             f == Head(screen)
  <1>1. f = screen[1]
    BY ShrunkAt, Zenon
  <1>2. \A cmd : f.cmd # cmd => (Has(shrunk, cmd) <=> Has(screen, cmd))
    BY HasTaken
  <1>3. 1 \in 1..Len(screen) /\ \A i \in 1..Len(shrunk) :
          i \in Nat /\ i + 1 \in 1..Len(screen) /\ i + 1 # 1 /\ shrunk[i] = screen[i + 1]
    BY ShrunkAt, Zenon
  <1>4. \A i \in 1..Len(screen) :
          i = 1 \/ (i - 1 \in 1..Len(shrunk) /\ shrunk[i - 1] = screen[i])
    BY ShrunkAt, Zenon
  <1>10. Len(screen) \in Nat /\ Len(shrunk) \in Nat
    BY ShrunkAt, Zenon
  <1> HIDE DEF shrunk, f
  <1>5. \A i \in 1..Len(shrunk) : \A cmd, other :
          IsLast(shrunk, i, cmd, other) => IsLast(screen, i + 1, cmd, other)
    BY LastShifted, Zenon DEF shrunk
  <1>6. \A i \in 1..Len(shrunk) :
          /\ IsLast(shrunk, i, "mode ok", "switch ok") => (result <=> to_auto)
          /\ IsLast(shrunk, i, "switch ok", "mode ok") => ~result
    <2>1. \A i \in 1..Len(screen) :
            /\ IsLast(screen, i, "mode ok", "switch ok") => (result <=> to_auto)
            /\ IsLast(screen, i, "switch ok", "mode ok") => ~result
      BY Zenon DEF Leads
    <2> QED
      BY <1>3, <1>5, <2>1
  <1>7. ASSUME f.cmd \notin {"mode ok", "switch ok"}
        PROVE  Leads(shrunk, auto, to_auto, result)
    <2>1. ~Has(shrunk, "mode ok") /\ ~Has(shrunk, "switch ok") => (result <=> auto)
      <3>1. f.cmd # "mode ok" /\ f.cmd # "switch ok"
        BY <1>7
      <3> QED
        BY <1>2, <3>1, Zenon DEF Leads
    <2> QED
      BY <1>6, <2>1, Zenon DEF Leads
  <1>8. ASSUME f.cmd = "mode ok", NEW any
        PROVE  Leads(shrunk, to_auto, any, result)
    <2>1. \A i \in 1..Len(shrunk) : shrunk[i].cmd # "mode ok"
      BY <1>1, <1>3, <1>8, Zenon DEF OnlyFirst
    <2>2. ASSUME ~Has(shrunk, "switch ok")
          PROVE  result <=> to_auto
      <3>1. f.cmd # "switch ok"
        BY <1>8
      <3>2. ~Has(screen, "switch ok")
        BY <1>2, <2>2, <3>1
      <3>3. IsLast(screen, 1, "mode ok", "switch ok")
        BY <1>1, <1>8, <3>2, Zenon DEF IsLast, Has
      <3> QED
        BY <1>3, <3>3, Zenon DEF Leads
    <2> QED
      BY <1>6, <2>1, <2>2, Zenon DEF Leads, IsLast
  <1>9. ASSUME f.cmd = "switch ok"
        PROVE  Leads(shrunk, FALSE, to_auto, result)
    <2>1. \A i \in 1..Len(shrunk) : shrunk[i].cmd # "switch ok"
      BY <1>1, <1>3, <1>9, Zenon DEF OnlyFirst
    <2>2. ASSUME ~Has(shrunk, "mode ok")
          PROVE  ~result
      <3>1. f.cmd # "mode ok"
        BY <1>9
      <3>2. ~Has(screen, "mode ok")
        BY <1>2, <2>2, <3>1
      <3>3. IsLast(screen, 1, "switch ok", "mode ok")
        BY <1>1, <1>9, <3>2, Zenon DEF IsLast, Has
      <3> QED
        BY <1>3, <3>3, Zenon DEF Leads
    <2> QED
      BY <1>6, <2>1, <2>2, Zenon DEF Leads, IsLast
  <1> QED
    BY <1>7, <1>8, <1>9 DEF shrunk, f

(* The order of reports.                                                   *)
LEMMA ChainedNone ==
  ASSUME NEW screen, ~BootOn(screen), NEW origin, Len(screen) \in Nat
  PROVE  Chained(screen) /\ LastIs(screen, origin)
PROOF
  <1>1. \A i \in 1..Len(screen) : ~IsBoot(screen[i])
    BY DEF BootOn
  <1>2. \A i \in 1..Len(screen) : i < Len(screen) => ~IsBoot(screen[i + 1])
    BY <1>1
  <1>3. Chained(screen)
    BY <1>1, <1>2, Zenon DEF Chained
  <1>4. LastIs(screen, origin)
    BY <1>1 DEF LastIs, IsBoot, BootCmds
  <1> QED
    BY <1>3, <1>4

LEMMA ChainedHeard ==
  ASSUME NEW S, NEW screen \in Seq(S), NEW g \in S, ~IsBoot(g), NEW origin,
         Chained(screen), LastIs(screen, origin)
  PROVE  Chained(Append(screen, g)) /\ LastIs(Append(screen, g), origin)
PROOF
  <1> DEFINE grown == Append(screen, g)
             n == Len(screen)
  <1>1. /\ n \in Nat /\ Len(grown) = n + 1
        /\ \A i \in 1..n : grown[i] = screen[i]
        /\ grown[n + 1] = g
    BY Grown
  <1> HIDE DEF grown, n
  <1>2. \A i \in 1..n : i \in 1..Len(grown) /\ grown[i] = screen[i]
    BY <1>1
  <1>3. \A i \in 1..Len(grown) : IsBoot(grown[i]) => i \in 1..n /\ grown[i] = screen[i] /\ i < Len(grown)
    BY <1>1
  <1>4. \A i \in 1..n : i < n => i + 1 \in 1..n /\ grown[i + 1] = screen[i + 1]
    BY <1>1
  <1>5. \A i \in 1..n : \/ i < n
                       \/ ~IsBoot(grown[i + 1])
    BY <1>1
  <1>6. \A i \in 1..Len(grown) : i < Len(grown) => i \in 1..n /\ grown[i] = screen[i]
    BY <1>1
  <1>7. Chained(grown)
    <2>1. ASSUME NEW i \in 1..Len(grown), IsBoot(grown[i]) /\ grown[i].cmd # "index"
          PROVE  i < Len(grown) /\ Follows(grown[i], grown[i + 1])
      <3>1. i \in 1..n /\ grown[i] = screen[i] /\ i < Len(grown)
        BY <1>3, <2>1
      <3>2. i < n /\ Follows(screen[i], screen[i + 1])
        BY <2>1, <3>1, Zenon DEF Chained, n
      <3> QED
        BY <1>4, <3>1, <3>2
    <2>2. ASSUME NEW i \in 1..Len(grown), i < Len(grown), IsBoot(grown[i + 1]), grown[i + 1].cmd # "start"
          PROVE  Follows(grown[i], grown[i + 1])
      <3>1. i \in 1..n /\ grown[i] = screen[i] /\ i < n
        BY <1>5, <1>6, <2>2
      <3>2. grown[i + 1] = screen[i + 1]
        BY <1>4, <3>1
      <3>3. Follows(screen[i], screen[i + 1])
        BY <2>2, <3>1, <3>2, Zenon DEF Chained, n
      <3> QED
        BY <3>1, <3>2, <3>3
    <2> QED
      BY <2>1, <2>2, Zenon DEF Chained
  <1>8. LastIs(grown, origin)
    <2>1. \A i \in 1..Len(grown) : grown[i].cmd = "index" => i \in 1..n /\ grown[i] = screen[i]
      BY <1>3 DEF IsBoot, BootCmds
    <2> QED
      BY <1>2, <2>1, Zenon DEF LastIs, n
  <1> QED
    BY <1>7, <1>8 DEF grown

LEMMA ChainedTaken ==
  ASSUME NEW S, NEW screen \in Seq(S), screen # <<>>, NEW origin,
         Chained(screen), LastIs(screen, origin)
  PROVE  LET f == Head(screen)
             rest == Tail(screen)
         IN  /\ Chained(rest) /\ LastIs(rest, origin)
             /\ rest # <<>> => \/ ~IsBoot(rest[1]) \/ rest[1].cmd = "start" \/ Follows(f, rest[1])
             /\ IsBoot(f) /\ f.cmd # "index" => BootOn(rest) /\ rest # <<>> /\ Follows(f, rest[1])
             /\ f.cmd = "index" /\ ~BootOn(rest) => f.of = origin
PROOF
  <1> DEFINE f == Head(screen)
             rest == Tail(screen)
             m == Len(Tail(screen))
             n == Len(screen)
  <1>1. /\ 1 \in 1..n /\ f = screen[1] /\ n \in Nat /\ m \in Nat
        /\ \A i \in 1..m : i \in Nat /\ i + 1 \in 1..n /\ i + 1 # 1 /\ rest[i] = screen[i + 1]
        /\ \A i \in 1..n : i = 1 \/ (i - 1 \in 1..m /\ rest[i - 1] = screen[i])
    BY ShrunkAt, Zenon
  <1>2. n = m + 1
    BY Shrunk
  <1>0. n \in Nat /\ m \in Nat
    BY <1>1
  <1>3. rest # <<>> => m >= 1
    <2>1. rest \in Seq(S)
      BY Shrunk
    <2> QED
      BY <2>1, EmptySeq
  <1>4. m >= 1 => rest # <<>>
    OBVIOUS
  <1>5. /\ \A i \in 1..n :
            /\ IsBoot(screen[i]) /\ screen[i].cmd # "index" => i < n /\ Follows(screen[i], screen[i + 1])
            /\ i < n /\ IsBoot(screen[i + 1]) /\ screen[i + 1].cmd # "start" =>
                 Follows(screen[i], screen[i + 1])
        /\ \A i \in 1..n :
            screen[i].cmd = "index" =>
              screen[i].of = origin \/ \E j \in 1..n : i < j /\ screen[j].cmd = "start"
    BY Zenon DEF Chained, LastIs
  <1> HIDE DEF f, rest, m, n
  <1>6. \A i \in 1..m : i < m <=> i + 1 < n
    BY <1>1, <1>2
  <1>7. \A i \in 1..m : i < m => i + 1 \in 1..m /\ rest[i + 1] = screen[(i + 1) + 1]
    BY <1>1, <1>2
  <1>8. Chained(rest)
    <2>1. ASSUME NEW i \in 1..m, IsBoot(rest[i]) /\ rest[i].cmd # "index"
          PROVE  i < m /\ Follows(rest[i], rest[i + 1])
      <3>1. i + 1 \in 1..n /\ rest[i] = screen[i + 1]
        BY <1>1
      <3>2. i + 1 < n /\ Follows(screen[i + 1], screen[(i + 1) + 1])
        BY <1>5, <2>1, <3>1
      <3> QED
        BY <1>6, <1>7, <3>1, <3>2
    <2>2. ASSUME NEW i \in 1..m, i < m, IsBoot(rest[i + 1]), rest[i + 1].cmd # "start"
          PROVE  Follows(rest[i], rest[i + 1])
      <3>1. i + 1 \in 1..n /\ rest[i] = screen[i + 1] /\ i + 1 < n /\ rest[i + 1] = screen[(i + 1) + 1]
        BY <1>1, <1>6, <1>7, <2>2
      <3> QED
        BY <1>5, <2>2, <3>1
    <2> QED
      BY <2>1, <2>2, Zenon DEF Chained, m, rest
  <1>9. LastIs(rest, origin)
    <2>1. ASSUME NEW i \in 1..m, rest[i].cmd = "index"
          PROVE  rest[i].of = origin \/ \E j \in 1..m : i < j /\ rest[j].cmd = "start"
      <3>1. i \in Nat /\ i + 1 \in 1..n /\ rest[i] = screen[i + 1]
        BY <1>1
      <3>2. CASE screen[i + 1].of = origin
        BY <3>1, <3>2
      <3>3. CASE \E j \in 1..n : i + 1 < j /\ screen[j].cmd = "start"
        <4>1. PICK j \in 1..n : i + 1 < j /\ screen[j].cmd = "start"
          BY <3>3
        <4>2. i \in Int /\ j \in Int /\ i >= 0
          BY <1>0, <3>1
        <4>3. j # 1 /\ i < j - 1
          BY <4>1, <4>2
        <4>4. j - 1 \in 1..m /\ rest[j - 1] = screen[j]
          BY <1>1, <4>3
        <4> QED
          BY <4>1, <4>3, <4>4
      <3> QED
        BY <1>5, <2>1, <3>1, <3>2, <3>3
    <2> QED
      BY <2>1, Zenon DEF LastIs, m, rest
  <1>10. ASSUME rest # <<>>
         PROVE  \/ ~IsBoot(rest[1]) \/ rest[1].cmd = "start" \/ Follows(f, rest[1])
    <2>1. 1 \in 1..m /\ 1 < n /\ 1 + 1 = 2
      BY <1>1, <1>2, <1>3, <1>10
    <2>2. rest[1] = screen[2]
      BY <1>1, <2>1
    <2> QED
      BY <1>1, <1>5, <2>1, <2>2
  <1>11. ASSUME IsBoot(f), f.cmd # "index"
         PROVE  BootOn(rest) /\ rest # <<>> /\ Follows(f, rest[1])
    <2>1. 1 < n /\ Follows(screen[1], screen[1 + 1])
      BY <1>1, <1>5, <1>11
    <2>2. m >= 1 /\ 1 \in 1..m /\ rest[1] = screen[1 + 1]
      BY <1>1, <1>2, <2>1
    <2>3. rest # <<>>
      BY <1>4, <2>2
    <2>4. IsBoot(rest[1])
      BY <2>1, <2>2 DEF Follows
    <2>5. BootOn(rest)
      BY <2>2, <2>4, Zenon DEF BootOn, m, rest
    <2> QED
      BY <1>1, <2>1, <2>2, <2>3, <2>5
  <1>12. ASSUME f.cmd = "index", ~BootOn(rest)
         PROVE  f.of = origin
    <2>1. \A i \in 1..m : rest[i].cmd # "start"
      BY <1>12 DEF BootOn, IsBoot, BootCmds, m, rest
    <2>2. ASSUME NEW j \in 1..n, 1 < j
          PROVE  screen[j].cmd # "start"
      <3>1. j # 1
        BY <1>0, <2>2
      <3>2. j - 1 \in 1..m /\ rest[j - 1] = screen[j]
        BY <1>1, <3>1
      <3> QED
        BY <2>1, <3>2
    <2> QED
      BY <1>1, <1>5, <1>12, <2>2
  <1> QED
    BY <1>8, <1>9, <1>10, <1>11, <1>12 DEF f, rest

LEMMA ReportChained ==
  ASSUME NEW new \in Lists, NEW auto \in BOOLEAN, NEW code \in ToSet(new), NEW reported \in Modes
  PROVE  LET report == Report(new, auto, code, reported)
             n == Len(new)
         IN  /\ report \in Seq(ScreenFrame) /\ Len(report) = n + 5 /\ n \in Nat
             /\ report[1].cmd = "start"
             /\ \A i \in 1..(n + 5) : IsBoot(report[i])
             /\ \A i \in 1..(n + 5) :
                  i < n + 5 => report[i].cmd # "index" /\ Follows(report[i], report[i + 1])
             /\ report[n + 5].cmd = "index" /\ report[n + 5].of = Origin(new, auto, code)
PROOF
  <1> DEFINE report == Report(new, auto, code, reported)
             n == Len(new)
             frame(cmd, arg) == Says(cmd, arg, new, auto, code)
             at(i) == [index |-> i, code |-> new[i]]
  <1>1. /\ report \in Seq(ScreenFrame) /\ Len(report) = n + 5
        /\ report[1] = frame("start", NoCode)
        /\ \A i \in 1..n : report[i + 1] = frame("code", at(i))
        /\ report[n + 2] = frame("end", NoCode)
        /\ report[n + 3] = frame("mode", IF auto THEN AUTO ELSE reported)
        /\ report[n + 4] = frame("active", code)
        /\ report[n + 5] = frame("index", Find(code, new))
    BY ReportIs, Zenon
  <1>2. n \in Nat /\ n >= 1
    BY ListIs
  <1>3. \A cmd, arg : /\ frame(cmd, arg).cmd = cmd /\ frame(cmd, arg).arg = arg
                       /\ frame(cmd, arg).of = Origin(new, auto, code)
    BY DEF Says
  <1>4. Origin(new, auto, code).list = new /\ \A i : at(i).index = i
    BY DEF Origin
  <1> HIDE DEF report, frame, n, at
  <1>5. \A i \in 1..n : IsCode(report[i + 1], i)
    <2> TAKE i \in 1..n
    <2>1. report[i + 1] = frame("code", at(i))
      BY <1>1
    <2>2. report[i + 1].cmd = "code" /\ report[i + 1].arg = at(i)
      BY <1>3, <2>1
    <2>3. report[i + 1].arg.index = i
      BY <1>4, <2>2
    <2> QED
      BY <2>2, <2>3 DEF IsCode
  <1>6. ASSUME NEW i \in 1..(n + 5)
        PROVE  /\ IsBoot(report[i]) /\ report[i].of = Origin(new, auto, code)
               /\ i < n + 5 => report[i].cmd # "index"
    <2>1. CASE i = 1
      BY <1>1, <1>2, <1>3, <2>1 DEF IsBoot, BootCmds
    <2>2. CASE i \in 2..(n + 1)
      <3>1. i - 1 \in 1..n /\ (i - 1) + 1 = i
        BY <1>2, <2>2
      <3>2. report[i] = frame("code", at(i - 1))
        BY <1>1, <3>1
      <3> QED
        BY <1>3, <3>2 DEF IsBoot, BootCmds
    <2>3. CASE i = n + 2
      BY <1>1, <1>3, <2>3 DEF IsBoot, BootCmds
    <2>4. CASE i = n + 3
      BY <1>1, <1>3, <2>4 DEF IsBoot, BootCmds
    <2>5. CASE i = n + 4
      BY <1>1, <1>3, <2>5 DEF IsBoot, BootCmds
    <2>6. CASE i = n + 5
      BY <1>1, <1>2, <1>3, <2>6 DEF IsBoot, BootCmds
    <2> QED
      BY <1>2, <2>1, <2>2, <2>3, <2>4, <2>5, <2>6
  <1>7. ASSUME NEW i \in 1..(n + 5), i < n + 5
        PROVE  Follows(report[i], report[i + 1])
    <2>0. i + 1 \in 1..(n + 5)
      BY <1>2, <1>7
    <2>1. /\ IsBoot(report[i]) /\ IsBoot(report[i + 1]) /\ report[i + 1].of = report[i].of
          /\ report[i].cmd # "index" /\ report[i].of.list = new
      BY <1>4, <1>6, <1>7, <2>0
    <2>2. CASE i = 1
      <3>1. report[1].cmd = "start" /\ IsCode(report[1 + 1], 1)
        BY <1>1, <1>2, <1>3, <1>5
      <3> QED
        BY <2>1, <2>2, <3>1 DEF Follows
    <2>3. CASE i \in 2..(n + 1)
      <3>1. i - 1 \in 1..n /\ (i - 1) + 1 = i
        BY <1>2, <2>3
      <3>2. report[i].cmd = "code" /\ report[i].arg.index = i - 1
        BY <1>5, <3>1 DEF IsCode
      <3>3. CASE i - 1 < n
        <4>1. i \in 1..n
          BY <1>2, <2>3, <3>3
        <4>2. IsCode(report[i + 1], (i - 1) + 1)
          BY <1>5, <3>1, <4>1
        <4> QED
          BY <2>1, <3>2, <3>3, <4>2 DEF Follows, n
      <3>4. CASE ~(i - 1 < n)
        <4>1. i + 1 = n + 2
          BY <1>2, <2>3, <3>4
        <4>2. report[i + 1].cmd = "end"
          BY <1>1, <1>3, <4>1
        <4> QED
          BY <2>1, <3>2, <3>4, <4>2 DEF Follows, n
      <3> QED
        BY <3>3, <3>4
    <2>4. CASE i = n + 2
      <3>1. i + 1 = n + 3
        BY <1>2, <2>4
      <3>2. report[i].cmd = "end" /\ report[i + 1].cmd = "mode"
        BY <1>1, <1>3, <2>4, <3>1
      <3> QED
        BY <2>1, <3>2 DEF Follows
    <2>5. CASE i = n + 3
      <3>1. i + 1 = n + 4
        BY <1>2, <2>5
      <3>2. report[i].cmd = "mode" /\ report[i + 1].cmd = "active"
        BY <1>1, <1>3, <2>5, <3>1
      <3> QED
        BY <2>1, <3>2 DEF Follows
    <2>6. CASE i = n + 4
      <3>1. i + 1 = n + 5
        BY <1>2, <2>6
      <3>2. report[i].cmd = "active" /\ report[i + 1].cmd = "index"
        BY <1>1, <1>3, <2>6, <3>1
      <3> QED
        BY <2>1, <3>2 DEF Follows
    <2> QED
      BY <1>2, <1>7, <2>2, <2>3, <2>4, <2>5, <2>6
  <1>8. report[1].cmd = "start" /\ report[n + 5].cmd = "index" /\ report[n + 5].of = Origin(new, auto, code)
    BY <1>1, <1>3
  <1> QED
    BY <1>1, <1>2, <1>6, <1>7, <1>8 DEF report, n

LEMMA ReportHeard ==
  ASSUME NEW screen \in Seq(ScreenFrame), Chained(screen), NEW origin, LastIs(screen, origin),
         NEW new \in Lists, NEW auto \in BOOLEAN, NEW code \in ToSet(new), NEW reported \in Modes
  PROVE  LET joined == screen \o Report(new, auto, code, reported)
         IN  /\ Chained(joined) /\ LastIs(joined, Origin(new, auto, code)) /\ BootOn(joined)
             /\ joined # <<>>
             /\ IF screen = <<>> THEN joined[1].cmd = "start" ELSE joined[1] = screen[1]
             /\ \A i \in 1..Len(joined) :
                  IsBoot(joined[i]) \/ (i \in 1..Len(screen) /\ joined[i] = screen[i])
PROOF
  <1> DEFINE report == Report(new, auto, code, reported)
             joined == screen \o report
             k == Len(new) + 5
             l == Len(screen)
             origin2 == Origin(new, auto, code)
  <1>1. /\ report \in Seq(ScreenFrame) /\ Len(report) = k /\ k \in Nat /\ k >= 5
        /\ report[1].cmd = "start"
        /\ \A i \in 1..k : IsBoot(report[i])
        /\ \A i \in 1..k : i < k => report[i].cmd # "index" /\ Follows(report[i], report[i + 1])
        /\ report[k].cmd = "index" /\ report[k].of = origin2
    BY ReportChained
  <1> HIDE DEF report, k
  <1>2. /\ joined \in Seq(ScreenFrame) /\ Len(joined) = l + k /\ l \in Nat
        /\ \A i \in 1..l : joined[i] = screen[i]
        /\ \A i \in 1..k : joined[i + l] = report[i]
    <2>1. report \in Seq(ScreenFrame)
      BY <1>1
    <2>2. /\ joined \in Seq(ScreenFrame) /\ Len(joined) = l + Len(report) /\ l \in Nat
          /\ \A i \in 1..l : joined[i] = screen[i]
          /\ \A i \in 1..Len(report) : joined[i + l] = report[i]
      BY <2>1, Joined
    <2> HIDE DEF joined, l
    <2> QED
      BY <1>1, <2>2
  <1>3. /\ \A i \in 1..l :
            /\ IsBoot(screen[i]) /\ screen[i].cmd # "index" => i < l /\ Follows(screen[i], screen[i + 1])
            /\ i < l /\ IsBoot(screen[i + 1]) /\ screen[i + 1].cmd # "start" =>
                 Follows(screen[i], screen[i + 1])
    BY Zenon DEF Chained
  <1>4. l = 0 => screen = <<>>
    BY EmptySeq
  <1>5. screen = <<>> => l = 0
    OBVIOUS
  <1>6. Len(joined) >= 1 => joined # <<>>
    OBVIOUS
  <1> HIDE DEF joined, l, origin2
  <1>7. k \in Nat /\ l \in Nat /\ k >= 5
    BY <1>1, <1>2
  <1>8. \A i \in 1..(l + k) : \/ i \in 1..l /\ joined[i] = screen[i]
                             \/ /\ i - l \in 1..k /\ joined[i] = report[i - l] /\ ~(i \in 1..l)
    <2> TAKE i \in 1..(l + k)
    <2>1. CASE i <= l
      BY <1>2, <1>7, <2>1
    <2>2. CASE ~(i <= l)
      <3>1. i - l \in 1..k /\ (i - l) + l = i /\ ~(i \in 1..l)
        BY <1>7, <2>2
      <3> QED
        BY <1>2, <3>1
    <2> QED
      BY <2>1, <2>2
  <1>9. \A i \in 1..k : i + l \in 1..(l + k) /\ joined[i + l] = report[i]
    BY <1>2, <1>7
  <1>10. joined[l + 1].cmd = "start" /\ l + 1 \in 1..(l + k)
    <2>1. 1 + l = l + 1 /\ 1 \in 1..k
      BY <1>7
    <2> QED
      BY <1>1, <1>9, <2>1
  <1>11. ASSUME NEW i \in 1..l
         PROVE  /\ i < l => joined[i] = screen[i] /\ joined[i + 1] = screen[i + 1]
                /\ ~(i < l) => joined[i + 1].cmd = "start"
                /\ i < l + k
    <2>1. i < l => i + 1 \in 1..l
      BY <1>7
    <2>2. ~(i < l) => i + 1 = l + 1
      BY <1>7
    <2>3. i < l + k
      BY <1>7
    <2> QED
      BY <1>2, <1>10, <2>1, <2>2, <2>3
  <1>12. ASSUME NEW i \in 1..k
         PROVE  joined[i + l] = report[i] /\ (i < k => joined[(i + l) + 1] = report[i + 1])
    <2>1. i < k => i + 1 \in 1..k /\ (i + 1) + l = (i + l) + 1
      BY <1>7
    <2> QED
      BY <1>2, <2>1
  <1>13. ASSUME NEW i \in 1..(l + k), IsBoot(joined[i]) /\ joined[i].cmd # "index"
         PROVE  i < l + k /\ Follows(joined[i], joined[i + 1])
    <2>1. CASE i \in 1..l
      <3>1. joined[i] = screen[i]
        BY <1>2, <2>1
      <3>2. i < l /\ Follows(screen[i], screen[i + 1])
        BY <1>3, <1>13, <2>1, <3>1
      <3> QED
        BY <1>11, <2>1, <3>1, <3>2
    <2>2. CASE i \notin 1..l
      <3>1. i - l \in 1..k /\ joined[i] = report[i - l] /\ (i - l) + l = i
        BY <1>7, <1>8, <2>2
      <3>2. i - l # k
        BY <1>1, <1>13, <3>1
      <3>3. i - l < k
        BY <1>7, <3>1, <3>2
      <3>4. Follows(report[i - l], report[(i - l) + 1])
        BY <1>1, <3>1, <3>3
      <3>5. joined[i + 1] = report[(i - l) + 1]
        BY <1>12, <3>1, <3>3
      <3>6. i < l + k
        BY <1>7, <3>3
      <3> QED
        BY <3>1, <3>4, <3>5, <3>6
    <2> QED
      BY <2>1, <2>2
  <1>14. ASSUME NEW i \in 1..(l + k), i < l + k, IsBoot(joined[i + 1]), joined[i + 1].cmd # "start"
         PROVE  Follows(joined[i], joined[i + 1])
    <2>1. CASE i \in 1..l
      <3>1. i < l
        BY <1>11, <1>14, <2>1
      <3>2. joined[i] = screen[i] /\ joined[i + 1] = screen[i + 1]
        BY <1>11, <2>1, <3>1
      <3> QED
        BY <1>3, <1>14, <2>1, <3>1, <3>2
    <2>2. CASE i \notin 1..l
      <3>1. i - l \in 1..k /\ joined[i] = report[i - l] /\ (i - l) + l = i
        BY <1>7, <1>8, <2>2
      <3>3. i - l < k
        BY <1>7, <1>14, <3>1
      <3>4. Follows(report[i - l], report[(i - l) + 1])
        BY <1>1, <3>1, <3>3
      <3>5. joined[i + 1] = report[(i - l) + 1]
        BY <1>12, <3>1, <3>3
      <3> QED
        BY <3>1, <3>4, <3>5
    <2> QED
      BY <2>1, <2>2
  <1>15. Chained(joined)
    BY <1>2, <1>13, <1>14, Zenon DEF Chained
  <1>16. LastIs(joined, origin2)
    <2>1. ASSUME NEW i \in 1..(l + k), joined[i].cmd = "index"
          PROVE  joined[i].of = origin2 \/ \E j \in 1..(l + k) : i < j /\ joined[j].cmd = "start"
      <3>1. CASE i \in 1..l
        <4>1. i < l + 1
          BY <1>7, <3>1
        <4> QED
          BY <1>10, <4>1
      <3>2. CASE i \notin 1..l
        <4>1. i - l \in 1..k /\ joined[i] = report[i - l]
          BY <1>8, <3>2
        <4>2. ~(i - l < k)
          BY <1>1, <2>1, <4>1
        <4>3. i - l = k
          BY <1>7, <4>1, <4>2
        <4> QED
          BY <1>1, <4>1, <4>3
      <3> QED
        BY <3>1, <3>2
    <2> QED
      BY <1>2, <2>1, Zenon DEF LastIs
  <1>17. BootOn(joined)
    <2>1. IsBoot(joined[l + 1])
      BY <1>10 DEF IsBoot, BootCmds
    <2> QED
      BY <1>2, <1>10, <2>1, Zenon DEF BootOn
  <1>18. joined # <<>>
    BY <1>2, <1>6, <1>7
  <1>19. IF screen = <<>> THEN joined[1].cmd = "start" ELSE joined[1] = screen[1]
    <2>1. CASE screen = <<>>
      BY <1>5, <1>10, <2>1
    <2>2. CASE screen # <<>>
      <3>1. 1 \in 1..l
        BY <1>4, <1>7, <2>2
      <3> QED
        BY <1>2, <2>2, <3>1
    <2> QED
      BY <2>1, <2>2
  <1>20. \A i \in 1..Len(joined) : IsBoot(joined[i]) \/ (i \in 1..l /\ joined[i] = screen[i])
    BY <1>1, <1>2, <1>8
  <1> QED
    BY <1>15, <1>16, <1>17, <1>18, <1>19, <1>20 DEF joined, report, origin2, l

-----------------------------------------------------------------------------
(* While nothing is lost, late or crossed: the first state.                *)
LEMMA TrustInit == Init => TrustInv
PROOF
  <1> SUFFICES ASSUME Init PROVE TrustInv
    OBVIOUS
  <1> DEFINE front == <<AUTO>> \o list
  <1>1. /\ toController = <<>> /\ toScreen = <<>> /\ codes = front /\ active_code = ctrl_code
        /\ auto_selected = ctrl_auto /\ mode_request = NoCode /\ switch_request = NoSwitch
        /\ ctrl_auto \in BOOLEAN
    BY DEF Init
  <1>2. Own /\ LineTyped
    BY TypedInit DEF CurrencyTyped
  <1>3. ~ModePending /\ ~SwitchPending
    BY <1>1 DEF ModePending, SwitchPending
  <1> HIDE DEF front
  <1>4. Len(toScreen) = 0 /\ Len(toController) = 0
    BY <1>1
  <1>5. ~BootOn(toScreen) /\ \A cmd : ~Has(toScreen, cmd)
    BY <1>4 DEF BootOn, Has
  <1>6. InOrder
    BY <1>1, <1>4, <1>5, ChainedNone DEF InOrder
  <1>7. ModeOnce /\ SwitchOnce
    BY <1>4 DEF ModeOnce, SwitchOnce, Once, Neither
  <1>8. Leads(toScreen, auto_selected, mode_request = AUTO, ctrl_auto)
    BY <1>1, <1>4, <1>5 DEF Leads
  <1>9. Settled
    BY <1>1, <1>3, <1>5, <1>8 DEF Settled, front
  <1> QED
    BY <1>2, <1>3, <1>6, <1>7, <1>9 DEF TrustInv

(* What a step that leaves the panel's selection alone keeps.              *)
LEMMA OwnKept ==
  ASSUME Own, UNCHANGED <<codes, active_code, active_index, auto_selected>>
  PROVE  Own'
  BY DEF Own

LEMMA OrderKept ==
  ASSUME InOrder, UNCHANGED <<toScreen, sync_active, sync_codes, codes, active_code, auto_selected>>,
         UNCHANGED <<list, ctrl_auto, ctrl_code>>
  PROVE  InOrder'
  BY DEF InOrder, Awaited

LEMMA ComingKept ==
  ASSUME UNCHANGED toScreen
  PROVE  BootComing' <=> BootComing
  BY DEF BootComing

LEMMA NoAnswer ==
  /\ ModeOnce /\ ~ModePending => ~Has(toScreen, "mode ok")
  /\ SwitchOnce /\ ~SwitchPending => ~Has(toScreen, "switch ok")
  BY DEF ModeOnce, SwitchOnce, Neither, Has, ModeAnswers, SwitchAnswers

(* A mode request is sent.                                                 *)
LEMMA ModeSent ==
  ASSUME CurrencyTyped, TrustInv, ~BootComing, ~ModePending,
         NEW requested \in Requests, mode_request' = requested,
         toController' = Append(toController, Frame("mode", requested)),
         UNCHANGED <<toScreen, sync_active, sync_codes, stateVars, ctrlVars, switch_request>>
  PROVE  TrustInv'
PROOF
  <1> DEFINE f == Frame("mode", requested)
  <1>1. f \in ControllerFrame /\ f.cmd = "mode" /\ f.arg = requested /\ f.cmd # "switch"
    BY FramesAre, FrameFields
  <1> HIDE DEF f
  <1>2. toController \in Seq(ControllerFrame) /\ toController' = Append(toController, f)
    BY DEF CurrencyTyped, LineTyped, f
  <1>3. Own' /\ InOrder' /\ ~BootComing'
    BY OwnKept, OrderKept, ComingKept DEF TrustInv, stateVars, ctrlVars
  <1>4. ModePending'
    BY Names DEF ModePending, Requests
  <1>5. ModeOnce'
    <2>1. Neither(toController, toScreen, "mode", ModeAnswers)
      BY DEF TrustInv, ModeOnce
    <2>2. Once(Append(toController, f), toScreen, "mode", ModeAnswers, f.arg)
      BY <1>1, <1>2, <2>1, OnceAsked
    <2> QED
      BY <1>1, <1>2, <1>4, <2>2 DEF ModeOnce
  <1>6. SwitchOnce'
    <2>1. Once(Append(toController, f), toScreen, "switch", SwitchAnswers, switch_request.code)
      BY <1>1, <1>2, OnceKept DEF TrustInv, SwitchOnce
    <2>2. ~SwitchPending => Neither(Append(toController, f), toScreen, "switch", SwitchAnswers)
      BY <1>1, <1>2, OnceKept DEF TrustInv, SwitchOnce
    <2> QED
      BY <1>2, <2>1, <2>2 DEF SwitchOnce, SwitchPending
  <1>7. Settled'
    <2>1. Settled /\ ~Has(toScreen, "mode ok")
      BY NoAnswer DEF TrustInv
    <2>2. Leads(toScreen, auto_selected, (mode_request = AUTO)', ctrl_auto)
      BY <2>1, LeadsAsked DEF Settled
    <2>3. UNCHANGED <<codes, active_code, auto_selected, list, ctrl_auto, ctrl_code>>
      BY DEF stateVars, ctrlVars
    <2>4. (codes = <<AUTO>> \o list)'
      BY <2>1, <2>3 DEF Settled
    <2>5. (SwitchPending => SelectionListed(switch_request.index, switch_request.code))'
      BY <2>1, <2>3 DEF Settled, SwitchPending, SelectionListed
    <2>6. (ctrl_code = IF Has(toScreen, "switch ok") THEN switch_request.code ELSE active_code)'
      BY <2>1, <2>3 DEF Settled
    <2>7. Leads(toScreen, auto_selected, mode_request = AUTO, ctrl_auto)'
      BY <2>2, <2>3
    <2> QED
      BY <2>4, <2>5, <2>6, <2>7, Zenon DEF Settled
  <1> QED
    BY <1>3, <1>5, <1>6, <1>7 DEF TrustInv

(* A switch request is sent.                                               *)
LEMMA SwitchSent ==
  ASSUME CurrencyTyped, TrustInv, ~BootComing, ~SwitchPending,
         switch_request'.code \in Codes,
         SelectionListed(switch_request'.index, switch_request'.code),
         NEW line \in Seq(ControllerFrame),
         line = toController \/ line = Append(toController, Frame("clear", NoCode)),
         toController' = Append(line, Frame("switch", switch_request'.code)),
         UNCHANGED <<toScreen, sync_active, sync_codes, codes, active_code, active_index>>,
         UNCHANGED <<auto_selected, ctrlVars, mode_request>>
  PROVE  TrustInv'
PROOF
  <1> DEFINE f == Frame("switch", switch_request'.code)
             clear == Frame("clear", NoCode)
  <1>1. /\ f \in ControllerFrame /\ f.cmd = "switch" /\ f.arg = switch_request'.code /\ f.cmd # "mode"
        /\ clear \in ControllerFrame /\ clear.cmd # "mode" /\ clear.cmd # "switch"
    BY FramesAre, FrameFields
  <1>2. /\ toController' = Append(line, f) /\ toController \in Seq(ControllerFrame)
        /\ line = toController \/ line = Append(toController, clear)
    BY DEF CurrencyTyped, LineTyped
  <1> HIDE DEF f, clear
  <1>3. Own' /\ InOrder' /\ ~BootComing'
    BY OwnKept, OrderKept, ComingKept DEF TrustInv, ctrlVars
  <1>4. SwitchPending'
    BY Names DEF SwitchPending, NoSwitch
  <1>5. SwitchOnce'
    <2>1. Neither(toController, toScreen, "switch", SwitchAnswers)
      BY DEF TrustInv, SwitchOnce
    <2>2. Neither(line, toScreen, "switch", SwitchAnswers)
      BY <1>1, <1>2, <2>1, OnceKept
    <2>3. Once(Append(line, f), toScreen, "switch", SwitchAnswers, f.arg)
      BY <1>1, <2>2, OnceAsked
    <2> QED
      BY <1>1, <1>2, <1>4, <2>3 DEF SwitchOnce
  <1>6. ModeOnce'
    <2>1. /\ Once(toController, toScreen, "mode", ModeAnswers, mode_request)
          /\ ~ModePending => Neither(toController, toScreen, "mode", ModeAnswers)
      BY DEF TrustInv, ModeOnce
    <2>2. /\ Once(line, toScreen, "mode", ModeAnswers, mode_request)
          /\ ~ModePending => Neither(line, toScreen, "mode", ModeAnswers)
      BY <1>1, <1>2, <2>1, OnceKept
    <2>3. /\ Once(Append(line, f), toScreen, "mode", ModeAnswers, mode_request)
          /\ ~ModePending => Neither(Append(line, f), toScreen, "mode", ModeAnswers)
      BY <1>1, <1>2, <2>2, OnceKept
    <2> QED
      BY <1>2, <2>3 DEF ModeOnce, ModePending
  <1>7. Settled'
    <2>1. Settled /\ ~Has(toScreen, "switch ok")
      BY NoAnswer DEF TrustInv
    <2>2. UNCHANGED <<codes, active_code, auto_selected, list, ctrl_auto, ctrl_code>>
      BY DEF ctrlVars
    <2>3. (codes = <<AUTO>> \o list)'
      BY <2>1, <2>2 DEF Settled
    <2>4. SelectionListed(switch_request.index, switch_request.code)'
      BY <2>2 DEF SelectionListed
    <2>5. (ctrl_code = IF Has(toScreen, "switch ok") THEN switch_request.code ELSE active_code)'
      BY <2>1, <2>2 DEF Settled
    <2>6. Leads(toScreen, auto_selected, mode_request = AUTO, ctrl_auto)'
      BY <2>1, <2>2 DEF Settled
    <2> QED
      BY <2>3, <2>4, <2>5, <2>6, Zenon DEF Settled
  <1> QED
    BY <1>3, <1>5, <1>6, <1>7 DEF TrustInv

(* Nothing, or a request to clear the data, is sent.                       *)
LEMMA ClearSent ==
  ASSUME CurrencyTyped, TrustInv,
         \/ toController' = toController
         \/ toController' = Append(toController, Frame("clear", NoCode)),
         UNCHANGED <<toScreen, sync_active, sync_codes, codes, active_code, active_index>>,
         UNCHANGED <<auto_selected, ctrlVars, mode_request, switch_request>>
  PROVE  TrustInv'
PROOF
  <1> DEFINE clear == Frame("clear", NoCode)
  <1>1. clear \in ControllerFrame /\ clear.cmd # "mode" /\ clear.cmd # "switch"
    BY FramesAre, FrameFields
  <1>2. /\ toController' = toController \/ toController' = Append(toController, clear)
        /\ toController \in Seq(ControllerFrame)
    BY DEF CurrencyTyped, LineTyped
  <1> HIDE DEF clear
  <1>3. Own' /\ InOrder' /\ (BootComing' <=> BootComing)
    BY OwnKept, OrderKept, ComingKept DEF TrustInv, ctrlVars
  <1>4. ModeOnce'
    <2>1. /\ Once(toController, toScreen, "mode", ModeAnswers, mode_request)
          /\ ~ModePending => Neither(toController, toScreen, "mode", ModeAnswers)
      BY DEF TrustInv, ModeOnce
    <2>2. /\ Once(Append(toController, clear), toScreen, "mode", ModeAnswers, mode_request)
          /\ ~ModePending => Neither(Append(toController, clear), toScreen, "mode", ModeAnswers)
      BY <1>1, <1>2, <2>1, OnceKept
    <2> QED
      BY <1>2, <2>1, <2>2 DEF ModeOnce, ModePending
  <1>5. SwitchOnce'
    <2>1. /\ Once(toController, toScreen, "switch", SwitchAnswers, switch_request.code)
          /\ ~SwitchPending => Neither(toController, toScreen, "switch", SwitchAnswers)
      BY DEF TrustInv, SwitchOnce
    <2>2. /\ Once(Append(toController, clear), toScreen, "switch", SwitchAnswers, switch_request.code)
          /\ ~SwitchPending => Neither(Append(toController, clear), toScreen, "switch", SwitchAnswers)
      BY <1>1, <1>2, <2>1, OnceKept
    <2> QED
      BY <1>2, <2>1, <2>2 DEF SwitchOnce, SwitchPending
  <1>6. (ModePending' <=> ModePending) /\ (SwitchPending' <=> SwitchPending)
    BY DEF ModePending, SwitchPending
  <1>7. Settled => Settled'
    BY DEF Settled, SwitchPending, SelectionListed, ctrlVars
  <1> QED
    BY <1>3, <1>4, <1>5, <1>6, <1>7 DEF TrustInv

LEMMA SelectTrusted ==
  ASSUME CurrencyTyped, TrustInv, NEW index \in 0..MaxCurrencies, Select(index), trusted'
  PROVE  TrustInv'
PROOF
  <1> DEFINE code == codes[index + 1]
  <1>1. ~SwitchPending /\ ~ModePending /\ index + 1 \in DOMAIN codes
    BY DEF Select, Idle
  <1>2. /\ UNCHANGED <<toScreen, sync_active, sync_codes, stateVars, ctrlVars>>
        /\ UNCHANGED <<codes, active_code, active_index, auto_selected>>
    BY DEF Select, syncVars, stateVars
  <1>3. \/ \E requested \in {AUTO, mode} :
             /\ mode_request' = requested /\ UNCHANGED switch_request
             /\ Sends(Frame("mode", requested))
        \/ /\ code # AUTO /\ switch_request' = [index |-> index, code |-> code]
           /\ Sends(Frame("switch", code)) /\ UNCHANGED mode_request
    BY DEF Select
  <1>4. CASE \E requested \in {AUTO, mode} :
               /\ mode_request' = requested /\ UNCHANGED switch_request
               /\ Sends(Frame("mode", requested))
    <2>1. PICK requested \in {AUTO, mode} :
             /\ mode_request' = requested /\ UNCHANGED switch_request
             /\ Sends(Frame("mode", requested))
      BY <1>4
    <2>2. requested \in Requests
      BY DEF CurrencyTyped, FlowTyped, Requests
    <2>3. toController' = Append(toController, Frame("mode", requested)) /\ ~BootComing
      BY <2>1, Zenon DEF Sends
    <2> QED
      BY <1>1, <1>2, <2>1, <2>2, <2>3, ModeSent
  <1>5. CASE /\ code # AUTO /\ switch_request' = [index |-> index, code |-> code]
             /\ Sends(Frame("switch", code)) /\ UNCHANGED mode_request
    <2>1. toController' = Append(toController, Frame("switch", code)) /\ ~BootComing
      BY <1>5, Zenon DEF Sends
    <2>2. switch_request'.code = code /\ switch_request'.index = index
      BY <1>5
    <2>3. index \in Nat
      BY Names
    <2>4. code \in Codes /\ index < Len(codes)
      BY <1>1, <1>5, <2>3, CodesAre DEF CurrencyTyped
    <2>5. SelectionListed(switch_request'.index, switch_request'.code)
      BY <2>2, <2>4 DEF SelectionListed
    <2>6. toController \in Seq(ControllerFrame)
      BY DEF CurrencyTyped, LineTyped
    <2> HIDE DEF code
    <2> QED
      BY <1>1, <1>2, <1>5, <2>1, <2>2, <2>4, <2>5, <2>6, SwitchSent
  <1> QED
    BY <1>3, <1>4, <1>5

LEMMA NextModeTrusted ==
  ASSUME CurrencyTyped, TrustInv, NEW next \in Modes, NextMode(next), trusted'
  PROVE  TrustInv'
PROOF
  <1>1. /\ ~ModePending /\ mode_request' = next /\ next \in Requests
        /\ UNCHANGED <<toScreen, sync_active, sync_codes, stateVars, ctrlVars, switch_request>>
    BY DEF NextMode, Requests, syncVars
  <1>2. toController' = Append(toController, Frame("mode", next)) /\ ~BootComing
    BY Zenon DEF NextMode, Sends
  <1> QED
    BY <1>1, <1>2, ModeSent

LEMMA UserClearTrusted ==
  ASSUME CurrencyTyped, TrustInv, UserClear
  PROVE  TrustInv'
PROOF
  <1>1. /\ \/ toController' = toController
           \/ toController' = Append(toController, Frame("clear", NoCode))
        /\ UNCHANGED <<toScreen, sync_active, sync_codes, ctrlVars, mode_request, switch_request>>
        /\ UNCHANGED <<codes, active_code, active_index, auto_selected>>
    BY DEF UserClear, Sends, ForgetDetected, syncVars
  <1> QED
    BY <1>1, ClearSent

LEMMA TimersTrusted ==
  ASSUME CurrencyTyped, TrustInv,
         ModeClearDue \/ TakeModeTimeout \/ TakeSwitchTimeout, trusted'
  PROVE  TrustInv'
PROOF
  <1>1. ModeClearDue
    BY DEF TakeModeTimeout, TakeSwitchTimeout
  <1>2. /\ UNCHANGED <<toScreen, sync_active, sync_codes, codes, active_code, active_index>>
        /\ UNCHANGED <<auto_selected, ctrlVars, mode_request, switch_request, toController>>
    BY <1>1 DEF ModeClearDue, stateVars, syncVars, requestVars
  <1> QED
    BY <1>2, ClearSent

LEMMA PollTrusted ==
  ASSUME CurrencyTyped, TrustInv, NEW e \in BOOLEAN, Poll(e), trusted'
  PROVE  TrustInv'
PROOF
  <1> DEFINE clear == Frame("clear", NoCode)
  <1>1. /\ Keep \/ ForgetDetected
        /\ UNCHANGED <<syncVars, mode_request, mode, toScreen, ctrlVars>>
    BY PollIs DEF CurrencyTyped
  <1>2. PICK cleared \in Seq(ControllerFrame) :
              /\ cleared = toController \/ cleared = Append(toController, clear)
              /\ \/ /\ toController' = cleared /\ switch_request' = switch_request
                    /\ trusted' => trusted
                 \/ /\ ~SwitchPending /\ switch_request'.code \in Codes
                    /\ SelectionListed(switch_request'.index, switch_request'.code)
                    /\ toController' = Append(cleared, Frame("switch", switch_request'.code))
                    /\ trusted' => trusted /\ ~BootComing
    BY PollIs, Zenon DEF CurrencyTyped
  <1>3. /\ UNCHANGED <<toScreen, sync_active, sync_codes, codes, active_code, active_index>>
        /\ UNCHANGED <<auto_selected, ctrlVars, mode_request>>
    BY <1>1 DEF Keep, ForgetDetected, stateVars, syncVars
  <1>4. CASE toController' = cleared /\ switch_request' = switch_request
    BY <1>2, <1>3, <1>4, ClearSent
  <1>5. CASE /\ ~SwitchPending /\ switch_request'.code \in Codes
             /\ SelectionListed(switch_request'.index, switch_request'.code)
             /\ toController' = Append(cleared, Frame("switch", switch_request'.code))
             /\ ~BootComing
    BY <1>2, <1>3, <1>5, SwitchSent
  <1> QED
    BY <1>2, <1>4, <1>5, Zenon

(* A frame that is none of a report comes behind what is on the way.       *)
LEMMA OrderHeard ==
  ASSUME LineTyped, InOrder, NEW g \in ScreenFrame, ~IsBoot(g), toScreen' = Append(toScreen, g),
         UNCHANGED <<sync_active, sync_codes, codes, active_code, auto_selected>>,
         Origin(list, ctrl_auto, ctrl_code)' = Origin(list, ctrl_auto, ctrl_code) \/ ~BootComing
  PROVE  InOrder' /\ (BootComing' <=> BootComing)
PROOF
  <1> DEFINE origin == Origin(list, ctrl_auto, ctrl_code)
             grown == Append(toScreen, g)
  <1>1. /\ toScreen \in Seq(ScreenFrame) /\ Len(toScreen) \in Nat
        /\ grown \in Seq(ScreenFrame) /\ Len(grown) = Len(toScreen) + 1
        /\ \A i \in 1..Len(toScreen) : grown[i] = toScreen[i]
        /\ grown[Len(toScreen) + 1] = g
    BY Grown DEF LineTyped
  <1>2. BootOn(grown) <=> BootOn(toScreen)
    BY <1>1, HasHeard
  <1>3. Chained(toScreen) /\ LastIs(toScreen, origin)
    BY DEF InOrder
  <1>4. Chained(grown) /\ LastIs(grown, origin)
    BY <1>1, <1>3, ChainedHeard
  <1>5. (BootComing <=> BootOn(toScreen)) /\ toScreen' = grown
    BY BootComingIs
  <1> HIDE DEF grown, origin
  <1>6. Len(grown) \in Nat /\ DOMAIN grown = 1..Len(grown)
    BY <1>1
  <1>7. BootComing' <=> BootOn(grown)
    BY <1>5, <1>6, Zenon DEF BootComing, BootOn, IsBoot, BootCmds
  <1>8. Chained(grown) /\ LastIs(grown, origin')
    <2>1. CASE origin' = origin
      BY <1>4, <2>1
    <2>2. CASE ~BootComing
      BY <1>2, <1>5, <1>6, <2>2, ChainedNone
    <2> QED
      BY <2>1, <2>2 DEF origin
  <1>9. \/ toScreen # <<>> /\ grown[1] = toScreen[1]
        \/ ~IsBoot(grown[1])
    BY <1>1
  <1>10. (toScreen # <<>> => Awaited(toScreen[1]))'
    <2>1. CASE toScreen # <<>> /\ grown[1] = toScreen[1]
      <3>1. Awaited(toScreen[1])
        BY <2>1 DEF InOrder
      <3> QED
        BY <1>5, <2>1, <3>1 DEF Awaited
    <2>2. CASE ~IsBoot(grown[1])
      <3>1. grown[1].cmd \notin {"code", "end", "mode", "active", "index"}
        BY <2>2 DEF IsBoot, BootCmds
      <3> QED
        BY <1>5, <3>1 DEF Awaited
    <2> QED
      BY <1>9, <2>1, <2>2
  <1> QED
    BY <1>2, <1>5, <1>7, <1>8, <1>10 DEF InOrder, origin

LEMMA DetectTrusted ==
  ASSUME CurrencyTyped, TrustInv, NEW code \in ToSet(list), Detect(code)
  PROVE  TrustInv'
PROOF
  <1> DEFINE g == Frame("detected", code)
  <1>1. /\ toScreen' = Append(toScreen, g) /\ toController' = toController
        /\ UNCHANGED <<sync_active, sync_codes, codes, active_code, active_index>>
        /\ UNCHANGED <<auto_selected, ctrlVars, mode_request, switch_request>>
    BY DEF Detect, stateVars, syncVars, requestVars
  <1>2. code \in Codes
    BY FindIn DEF CurrencyTyped, ControllerTyped
  <1>3. g \in ScreenFrame /\ g.cmd = "detected" /\ toScreen \in Seq(ScreenFrame)
    BY <1>2, FramesAre, FrameFields DEF CurrencyTyped, LineTyped
  <1> HIDE DEF g
  <1>4. ~IsBoot(g) /\ g.cmd \notin ModeAnswers /\ g.cmd \notin SwitchAnswers
        /\ g.cmd \notin {"mode ok", "switch ok"}
    BY <1>3 DEF IsBoot, BootCmds, ModeAnswers, SwitchAnswers
  <1>5. InOrder' /\ (BootComing' <=> BootComing)
    BY <1>1, <1>3, <1>4, OrderHeard DEF TrustInv, CurrencyTyped, ctrlVars
  <1>6. Own'
    BY <1>1, OwnKept DEF TrustInv
  <1>7. ModeOnce'
    <2>1. /\ Once(toController, toScreen, "mode", ModeAnswers, mode_request)
          /\ ~ModePending => Neither(toController, toScreen, "mode", ModeAnswers)
      BY DEF TrustInv, ModeOnce
    <2>2. /\ Once(toController, Append(toScreen, g), "mode", ModeAnswers, mode_request)
          /\ ~ModePending => Neither(toController, Append(toScreen, g), "mode", ModeAnswers)
      BY <1>3, <1>4, <2>1, OnceHeard
    <2> QED
      BY <1>1, <2>2 DEF ModeOnce, ModePending
  <1>8. SwitchOnce'
    <2>1. /\ Once(toController, toScreen, "switch", SwitchAnswers, switch_request.code)
          /\ ~SwitchPending => Neither(toController, toScreen, "switch", SwitchAnswers)
      BY DEF TrustInv, SwitchOnce
    <2>2. /\ Once(toController, Append(toScreen, g), "switch", SwitchAnswers, switch_request.code)
          /\ ~SwitchPending => Neither(toController, Append(toScreen, g), "switch", SwitchAnswers)
      BY <1>3, <1>4, <2>1, OnceHeard
    <2> QED
      BY <1>1, <2>2 DEF SwitchOnce, SwitchPending
  <1>9. (ModePending' <=> ModePending) /\ (SwitchPending' <=> SwitchPending)
    BY <1>1 DEF ModePending, SwitchPending
  <1>10. ASSUME Settled PROVE Settled'
    <2>1. Has(Append(toScreen, g), "switch ok") <=> Has(toScreen, "switch ok")
      BY <1>3, HasHeard
    <2>2. Leads(Append(toScreen, g), auto_selected, mode_request = AUTO, ctrl_auto)
      BY <1>3, <1>4, <1>10, LeadsHeard DEF Settled
    <2>3. (codes = <<AUTO>> \o list)'
      BY <1>1, <1>10 DEF Settled, ctrlVars
    <2>4. (SwitchPending => SelectionListed(switch_request.index, switch_request.code))'
      BY <1>1, <1>10 DEF Settled, SwitchPending, SelectionListed
    <2>5. (ctrl_code = IF Has(toScreen, "switch ok") THEN switch_request.code ELSE active_code)'
      BY <1>1, <1>10, <2>1 DEF Settled, ctrlVars
    <2>6. Leads(toScreen, auto_selected, mode_request = AUTO, ctrl_auto)'
      BY <1>1, <2>2 DEF ctrlVars
    <2> QED
      BY <2>3, <2>4, <2>5, <2>6, Zenon DEF Settled
  <1> QED
    BY <1>5, <1>6, <1>7, <1>8, <1>9, <1>10 DEF TrustInv

LEMMA ServeTrusted ==
  ASSUME CurrencyTyped, TrustInv, Serve
  PROVE  TrustInv'
PROOF
  <1> DEFINE f == Head(toController)
  <1>1. /\ toController # <<>> /\ toController' = Tail(toController) /\ f \in ControllerFrame
        /\ UNCHANGED <<stateVars, syncVars, requestVars, list>> /\ LineTyped'
    BY ServeIs DEF CurrencyTyped
  <1>2. PICK cmd \in ModeAnswers \cup SwitchAnswers \cup {"cleared"} :
          Answers(f, cmd) /\ toScreen' = Append(toScreen, Frame(cmd, NoCode))
    BY ServeIs DEF CurrencyTyped
  <1> DEFINE g == Frame(cmd, NoCode)
  <1>3. g \in ScreenFrame /\ g.cmd = cmd
    BY FramesAre, FrameFields
  <1>4. /\ toScreen' = Append(toScreen, g) /\ toScreen \in Seq(ScreenFrame)
        /\ toController \in Seq(ControllerFrame) /\ 1 \in 1..Len(toController) /\ f = toController[1]
    BY <1>1, <1>2, ShrunkAt DEF CurrencyTyped, LineTyped
  <1> HIDE DEF g, f
  <1>5. /\ UNCHANGED <<sync_active, sync_codes, codes, active_code, active_index>>
        /\ UNCHANGED <<auto_selected, mode_request, switch_request, list>>
    BY <1>1 DEF stateVars, syncVars, requestVars
  <1>6. /\ ~IsBoot(g) /\ (g.cmd \in ModeAnswers <=> f.cmd = "mode")
        /\ (g.cmd \in SwitchAnswers <=> f.cmd = "switch")
    BY <1>2, <1>3 DEF Answers, IsBoot, BootCmds, ModeAnswers, SwitchAnswers
  <1>7. /\ Once(toController, toScreen, "mode", ModeAnswers, mode_request)
        /\ ~ModePending => Neither(toController, toScreen, "mode", ModeAnswers)
        /\ Once(toController, toScreen, "switch", SwitchAnswers, switch_request.code)
        /\ ~SwitchPending => Neither(toController, toScreen, "switch", SwitchAnswers)
    BY DEF TrustInv, ModeOnce, SwitchOnce
  <1>8. /\ f.cmd = "mode" => f.arg = mode_request /\ ModePending
        /\ f.cmd = "switch" => f.arg = switch_request.code /\ SwitchPending
    BY <1>4, <1>7, Zenon DEF Once, Neither
  <1>9. UNCHANGED ctrlVars \/ ~BootComing
    BY <1>2, <1>5, <1>8 DEF TrustInv, Answers, ctrlVars
  <1>10. InOrder' /\ (BootComing' <=> BootComing)
    BY <1>3, <1>4, <1>5, <1>6, <1>9, OrderHeard DEF TrustInv, CurrencyTyped, ctrlVars
  <1>11. Own'
    BY <1>5, OwnKept DEF TrustInv
  <1>12. ModeOnce'
    <2>1. /\ Once(Tail(toController), Append(toScreen, g), "mode", ModeAnswers, mode_request)
          /\ ~ModePending => Neither(Tail(toController), Append(toScreen, g), "mode", ModeAnswers)
      BY <1>1, <1>3, <1>4, <1>6, <1>7, OnceServed DEF f
    <2> QED
      BY <1>1, <1>4, <1>5, <2>1 DEF ModeOnce, ModePending
  <1>13. SwitchOnce'
    <2>1. /\ Once(Tail(toController), Append(toScreen, g), "switch", SwitchAnswers, switch_request.code)
          /\ ~SwitchPending => Neither(Tail(toController), Append(toScreen, g), "switch", SwitchAnswers)
      BY <1>1, <1>3, <1>4, <1>6, <1>7, OnceServed DEF f
    <2> QED
      BY <1>1, <1>4, <1>5, <2>1 DEF SwitchOnce, SwitchPending
  <1>14. (ModePending' <=> ModePending) /\ (SwitchPending' <=> SwitchPending)
    BY <1>5 DEF ModePending, SwitchPending
  <1>15. ASSUME Settled PROVE Settled'
    <2>1. Has(Append(toScreen, g), "switch ok") <=> (Has(toScreen, "switch ok") \/ cmd = "switch ok")
      BY <1>3, <1>4, HasHeard
    <2>2. ctrl_code' = IF Has(Append(toScreen, g), "switch ok") THEN switch_request.code ELSE active_code
      <3>1. CASE cmd = "switch ok"
        BY <1>2, <1>8, <2>1, <3>1 DEF Answers
      <3>2. CASE cmd # "switch ok"
        <4>1. ctrl_code' = ctrl_code
          BY <1>2, <3>2 DEF Answers
        <4> QED
          BY <1>15, <2>1, <3>2, <4>1 DEF Settled
      <3> QED
        BY <3>1, <3>2
    <2>3. Leads(Append(toScreen, g), auto_selected, mode_request = AUTO, ctrl_auto')
      <3>1. Leads(toScreen, auto_selected, mode_request = AUTO, ctrl_auto)
        BY <1>15 DEF Settled
      <3>2. CASE cmd = "mode ok"
        <4>1. ctrl_auto' <=> mode_request = AUTO
          BY <1>2, <1>8, <3>2 DEF Answers
        <4> QED
          BY <1>3, <1>4, <3>1, <3>2, <4>1, LeadsHeard
      <3>3. CASE cmd = "switch ok"
        <4>1. ctrl_auto' = FALSE
          BY <1>2, <3>3 DEF Answers
        <4> QED
          BY <1>3, <1>4, <3>1, <3>3, <4>1, LeadsHeard
      <3>4. CASE cmd \notin {"mode ok", "switch ok"}
        <4>1. ctrl_auto' = ctrl_auto
          BY <1>2, <3>4 DEF Answers
        <4> QED
          BY <1>3, <1>4, <3>1, <3>4, <4>1, LeadsHeard
      <3> QED
        BY <3>2, <3>3, <3>4
    <2>4. (codes = <<AUTO>> \o list)'
      BY <1>5, <1>15 DEF Settled
    <2>5. (SwitchPending => SelectionListed(switch_request.index, switch_request.code))'
      BY <1>5, <1>15 DEF Settled, SwitchPending, SelectionListed
    <2>6. (ctrl_code = IF Has(toScreen, "switch ok") THEN switch_request.code ELSE active_code)'
      BY <1>4, <1>5, <2>2
    <2>7. Leads(toScreen, auto_selected, mode_request = AUTO, ctrl_auto)'
      BY <1>4, <1>5, <2>3
    <2> QED
      BY <2>4, <2>5, <2>6, <2>7, Zenon DEF Settled
  <1> QED
    BY <1>10, <1>11, <1>12, <1>13, <1>14, <1>15 DEF TrustInv

LEMMA BootsTrusted ==
  ASSUME CurrencyTyped, TrustInv, NEW new \in Lists, NEW auto \in BOOLEAN, NEW code \in ToSet(new),
         NEW reported \in Modes, NEW lost \in 0..(Len(new) + 5),
         ControllerBoots(new, auto, code, reported, lost), trusted'
  PROVE  TrustInv'
PROOF
  <1> DEFINE joined == toScreen \o Report(new, auto, code, reported)
             origin == Origin(new, auto, code)
  <1>1. lost = 0 /\ ~ModePending /\ ~SwitchPending
    BY Zenon DEF ControllerBoots
  <1>2. /\ list' = new /\ ctrl_auto' = auto /\ ctrl_code' = code
        /\ toController' = <<>> /\ toScreen' = joined
        /\ UNCHANGED <<stateVars, syncVars, requestVars>>
    BY <1>1 DEF ControllerBoots
  <1>3. /\ Chained(toScreen) /\ LastIs(toScreen, Origin(list, ctrl_auto, ctrl_code))
        /\ toScreen # <<>> => Awaited(toScreen[1])
    BY DEF TrustInv, InOrder
  <1>4. toScreen \in Seq(ScreenFrame)
    BY DEF CurrencyTyped, LineTyped
  <1>5. /\ Chained(joined) /\ LastIs(joined, origin) /\ BootOn(joined)
        /\ IF toScreen = <<>> THEN joined[1].cmd = "start" ELSE joined[1] = toScreen[1]
        /\ \A i \in 1..Len(joined) :
             IsBoot(joined[i]) \/ (i \in 1..Len(toScreen) /\ joined[i] = toScreen[i])
    BY <1>3, <1>4, ReportHeard
  <1>6. DOMAIN joined = 1..Len(joined)
    <2>1. Report(new, auto, code, reported) \in Seq(ScreenFrame)
      BY ReportChained
    <2>2. joined \in Seq(ScreenFrame)
      BY <1>4, <2>1, Joined
    <2> HIDE DEF joined
    <2> QED
      BY <2>2
  <1> HIDE DEF joined
  <1>7. /\ UNCHANGED <<sync_active, sync_codes, codes, active_code, active_index>>
        /\ UNCHANGED <<auto_selected, mode_request, switch_request>>
    BY <1>2 DEF stateVars, syncVars, requestVars
  <1>8. Own'
    BY <1>7, OwnKept DEF TrustInv
  <1>9. ~ModePending' /\ ~SwitchPending'
    BY <1>1, <1>7 DEF ModePending, SwitchPending
  <1>10. BootComing'
    BY <1>2, <1>5, <1>6, Zenon DEF BootComing, BootOn, IsBoot, BootCmds
  <1>11. InOrder'
    <2>1. (toScreen # <<>> => Awaited(toScreen[1]))'
      BY <1>2, <1>3, <1>5, <1>7 DEF Awaited
    <2>2. Origin(list, ctrl_auto, ctrl_code)' = origin
      BY <1>2 DEF Origin
    <2> QED
      BY <1>2, <1>5, <2>1, <2>2 DEF InOrder
  <1>12. Len(toController') = 0
    BY <1>2
  <1>13. ModeOnce'
    <2>1. \A i \in 1..Len(toScreen) : toScreen[i].cmd \notin ModeAnswers
      BY <1>1 DEF TrustInv, ModeOnce, Neither
    <2>2. \A i \in 1..Len(joined) : joined[i].cmd \notin ModeAnswers
      BY <1>5, <2>1 DEF IsBoot, BootCmds, ModeAnswers
    <2>3. Neither(toController', joined, "mode", ModeAnswers)
      BY <1>12, <2>2 DEF Neither
    <2>4. Once(toController', joined, "mode", ModeAnswers, mode_request')
      BY <2>3, NeitherIsOnce
    <2> QED
      BY <1>2, <2>3, <2>4 DEF ModeOnce
  <1>14. SwitchOnce'
    <2>1. \A i \in 1..Len(toScreen) : toScreen[i].cmd \notin SwitchAnswers
      BY <1>1 DEF TrustInv, SwitchOnce, Neither
    <2>2. \A i \in 1..Len(joined) : joined[i].cmd \notin SwitchAnswers
      BY <1>5, <2>1 DEF IsBoot, BootCmds, SwitchAnswers
    <2>3. Neither(toController', joined, "switch", SwitchAnswers)
      BY <1>12, <2>2 DEF Neither
    <2>4. Once(toController', joined, "switch", SwitchAnswers, switch_request'.code)
      BY <2>3, NeitherIsOnce
    <2> QED
      BY <1>2, <2>3, <2>4 DEF SwitchOnce
  <1> QED
    BY <1>8, <1>9, <1>10, <1>11, <1>13, <1>14 DEF TrustInv

(* A frame is taken: what is left on the way.                              *)
LEMMA LineTaken ==
  ASSUME CurrencyTyped, TrustInv, toScreen # <<>>, toScreen' = Tail(toScreen)
  PROVE  LET f == Head(toScreen)
             rest == Tail(toScreen)
             origin == Origin(list, ctrl_auto, ctrl_code)
         IN  /\ f \in ScreenFrame /\ f = toScreen[1] /\ Awaited(f)
             /\ Chained(rest) /\ LastIs(rest, origin)
             /\ rest # <<>> => \/ ~IsBoot(rest[1]) \/ rest[1].cmd = "start"
                              \/ (IsBoot(f) /\ Follows(f, rest[1]))
             /\ IsBoot(f) /\ f.cmd # "index" => BootOn(rest) /\ rest # <<>> /\ Follows(f, rest[1])
             /\ f.cmd = "index" /\ ~BootOn(rest) => f.of = origin
             /\ IsBoot(f) => BootComing
             /\ BootComing' <=> BootOn(rest)
             /\ BootOn(rest) => BootComing
             /\ ~IsBoot(f) => (BootComing' <=> BootComing)
PROOF
  <1> DEFINE f == Head(toScreen)
             rest == Tail(toScreen)
             origin == Origin(list, ctrl_auto, ctrl_code)
  <1>1. toScreen \in Seq(ScreenFrame)
    BY DEF CurrencyTyped, LineTyped
  <1>2. /\ f \in ScreenFrame /\ f = toScreen[1] /\ rest \in Seq(ScreenFrame)
        /\ 1 \in 1..Len(toScreen)
    BY <1>1, Shrunk, ShrunkAt
  <1>3. Chained(toScreen) /\ LastIs(toScreen, origin) /\ Awaited(toScreen[1])
    BY DEF TrustInv, InOrder
  <1>4. /\ Chained(rest) /\ LastIs(rest, origin)
        /\ rest # <<>> => \/ ~IsBoot(rest[1]) \/ rest[1].cmd = "start" \/ Follows(f, rest[1])
        /\ IsBoot(f) /\ f.cmd # "index" => BootOn(rest) /\ rest # <<>> /\ Follows(f, rest[1])
        /\ f.cmd = "index" /\ ~BootOn(rest) => f.of = origin
    BY <1>1, <1>3, ChainedTaken
  <1>5. /\ BootOn(rest) => BootOn(toScreen)
        /\ ~IsBoot(f) => (BootOn(rest) <=> BootOn(toScreen))
    BY <1>1, HasTaken
  <1>6. BootComing <=> BootOn(toScreen)
    BY BootComingIs DEF CurrencyTyped
  <1>7. DOMAIN rest = 1..Len(rest)
    BY <1>2
  <1> HIDE DEF rest, f, origin
  <1>8. BootComing' <=> BootOn(rest)
    <2>1. toScreen' = rest
      BY DEF rest
    <2> QED
      BY <1>7, <2>1, Zenon DEF BootComing, BootOn, IsBoot, BootCmds
  <1>9. IsBoot(f) => BootOn(toScreen)
    BY <1>2, Zenon DEF BootOn
  <1>10. Follows(f, rest[1]) => IsBoot(f)
    BY DEF Follows
  <1> QED
    BY <1>2, <1>3, <1>4, <1>5, <1>6, <1>8, <1>9, <1>10 DEF f, rest, origin

LEMMA RestInOrder ==
  ASSUME CurrencyTyped, TrustInv, toScreen # <<>>, toScreen' = Tail(toScreen), UNCHANGED ctrlVars,
         ~IsBoot(Head(toScreen))
  PROVE  InOrder' /\ (BootComing' <=> BootComing)
PROOF
  <1> DEFINE rest == Tail(toScreen)
  <1>1. /\ Chained(rest) /\ LastIs(rest, Origin(list, ctrl_auto, ctrl_code))
        /\ rest # <<>> => ~IsBoot(rest[1]) \/ rest[1].cmd = "start"
        /\ BootComing' <=> BootComing
    BY LineTaken
  <1> HIDE DEF rest
  <1>2. rest # <<>> => rest[1].cmd \notin {"code", "end", "mode", "active", "index"}
    BY <1>1 DEF IsBoot, BootCmds
  <1>3. toScreen' = rest
    BY DEF rest
  <1>4. (toScreen # <<>> => Awaited(toScreen[1]))'
    BY <1>2, <1>3 DEF Awaited
  <1>5. Origin(list, ctrl_auto, ctrl_code)' = Origin(list, ctrl_auto, ctrl_code)
    BY DEF ctrlVars
  <1> QED
    BY <1>1, <1>3, <1>4, <1>5 DEF InOrder

LEMMA RestOnce ==
  ASSUME CurrencyTyped, TrustInv, toScreen # <<>>
  PROVE  LET f == Head(toScreen)
             rest == Tail(toScreen)
         IN  /\ IF f.cmd \in ModeAnswers
                THEN Neither(toController, rest, "mode", ModeAnswers)
                ELSE Once(toController, rest, "mode", ModeAnswers, mode_request)
             /\ ~ModePending =>
                  Neither(toController, rest, "mode", ModeAnswers) /\ f.cmd \notin ModeAnswers
             /\ IF f.cmd \in SwitchAnswers
                THEN Neither(toController, rest, "switch", SwitchAnswers)
                ELSE Once(toController, rest, "switch", SwitchAnswers, switch_request.code)
             /\ ~SwitchPending =>
                  Neither(toController, rest, "switch", SwitchAnswers) /\ f.cmd \notin SwitchAnswers
             /\ OnlyFirst(toScreen, "mode ok") /\ OnlyFirst(toScreen, "switch ok")
PROOF
  <1> DEFINE f == Head(toScreen)
             rest == Tail(toScreen)
  <1>1. toScreen \in Seq(ScreenFrame) /\ 1 \in 1..Len(toScreen)
    BY ShrunkAt DEF CurrencyTyped, LineTyped
  <1>2. /\ Once(toController, toScreen, "mode", ModeAnswers, mode_request)
        /\ ~ModePending => Neither(toController, toScreen, "mode", ModeAnswers)
        /\ Once(toController, toScreen, "switch", SwitchAnswers, switch_request.code)
        /\ ~SwitchPending => Neither(toController, toScreen, "switch", SwitchAnswers)
    BY DEF TrustInv, ModeOnce, SwitchOnce
  <1>3. /\ IF f.cmd \in ModeAnswers
           THEN Neither(toController, rest, "mode", ModeAnswers)
           ELSE Once(toController, rest, "mode", ModeAnswers, mode_request)
        /\ ~ModePending =>
             Neither(toController, rest, "mode", ModeAnswers) /\ f.cmd \notin ModeAnswers
    BY <1>1, <1>2, OnceTaken
  <1>4. /\ IF f.cmd \in SwitchAnswers
           THEN Neither(toController, rest, "switch", SwitchAnswers)
           ELSE Once(toController, rest, "switch", SwitchAnswers, switch_request.code)
        /\ ~SwitchPending =>
             Neither(toController, rest, "switch", SwitchAnswers) /\ f.cmd \notin SwitchAnswers
    BY <1>1, <1>2, OnceTaken
  <1>5. \A i \in 1..Len(toScreen) :
          toScreen[1].cmd \in ModeAnswers /\ toScreen[i].cmd \in ModeAnswers => i = 1
    BY <1>1, <1>2, Zenon DEF Once
  <1>6. \A i \in 1..Len(toScreen) :
          toScreen[1].cmd \in SwitchAnswers /\ toScreen[i].cmd \in SwitchAnswers => i = 1
    BY <1>1, <1>2, Zenon DEF Once
  <1>7. OnlyFirst(toScreen, "mode ok") /\ OnlyFirst(toScreen, "switch ok")
    BY <1>5, <1>6 DEF OnlyFirst, ModeAnswers, SwitchAnswers
  <1> QED
    BY <1>3, <1>4, <1>7 DEF f, rest

LEMMA TakesModeTrusted ==
  ASSUME CurrencyTyped, TrustInv, toScreen # <<>>, toScreen' = Tail(toScreen), UNCHANGED ctrlVars,
         TakesMode(Head(toScreen))
  PROVE  TrustInv'
PROOF
  <1> DEFINE f == Head(toScreen)
             rest == Tail(toScreen)
  <1>1. f.cmd = "mode ok" /\ ModePending /\ ModeSucceeds /\ toController' = toController
    BY DEF TakesMode
  <1>2. Own /\ ~BootComing /\ Settled
    BY <1>1 DEF TrustInv
  <1>3. /\ StateTyped' /\ codes' = codes /\ switch_request' = switch_request
        /\ mode_request' = NoCode /\ active_code' = active_code /\ Own'
        /\ auto_selected' <=> mode_request = AUTO
    BY <1>1, <1>2, ModeTaken DEF CurrencyTyped
  <1>4. /\ ~IsBoot(f) /\ f.cmd \in ModeAnswers /\ f.cmd \notin SwitchAnswers
    BY <1>1 DEF IsBoot, BootCmds, ModeAnswers, SwitchAnswers
  <1>5. InOrder' /\ ~BootComing'
    BY <1>2, <1>4, RestInOrder
  <1>6. /\ Neither(toController, rest, "mode", ModeAnswers)
        /\ Once(toController, rest, "switch", SwitchAnswers, switch_request.code)
        /\ ~SwitchPending => Neither(toController, rest, "switch", SwitchAnswers)
        /\ OnlyFirst(toScreen, "mode ok") /\ OnlyFirst(toScreen, "switch ok")
    BY <1>4, RestOnce
  <1>7. toScreen \in Seq(ScreenFrame)
    BY DEF CurrencyTyped, LineTyped
  <1>8. Leads(rest, mode_request = AUTO, (mode_request = AUTO)', ctrl_auto)
    <2>1. Leads(toScreen, auto_selected, mode_request = AUTO, ctrl_auto)
      BY <1>2 DEF Settled
    <2> QED
      BY <1>1, <1>6, <1>7, <2>1, LeadsTaken
  <1>9. Has(rest, "switch ok") <=> Has(toScreen, "switch ok")
    BY <1>1, <1>7, HasTaken
  <1>10. toScreen' = rest
    OBVIOUS
  <1> HIDE DEF rest, f
  <1>11. ~ModePending' /\ (SwitchPending' <=> SwitchPending)
    BY <1>3 DEF ModePending, SwitchPending
  <1>12. ModeOnce'
    <2>1. Once(toController, rest, "mode", ModeAnswers, mode_request')
      BY <1>6, NeitherIsOnce
    <2> QED
      BY <1>1, <1>6, <1>10, <2>1 DEF ModeOnce
  <1>13. SwitchOnce'
    BY <1>1, <1>3, <1>6, <1>10, <1>11 DEF SwitchOnce
  <1>14. Settled'
    <2>1. (codes = <<AUTO>> \o list)'
      BY <1>2, <1>3 DEF Settled, ctrlVars
    <2>2. (SwitchPending => SelectionListed(switch_request.index, switch_request.code))'
      BY <1>2, <1>3 DEF Settled, SwitchPending, SelectionListed
    <2>3. (ctrl_code = IF Has(toScreen, "switch ok") THEN switch_request.code ELSE active_code)'
      BY <1>2, <1>3, <1>9, <1>10 DEF Settled, ctrlVars
    <2>4. Leads(toScreen, auto_selected, mode_request = AUTO, ctrl_auto)'
      <3>1. auto_selected' = (mode_request = AUTO)
        BY <1>3 DEF StateTyped
      <3> QED
        BY <1>8, <1>10, <3>1 DEF ctrlVars
    <2> QED
      BY <2>1, <2>2, <2>3, <2>4, Zenon DEF Settled
  <1> QED
    BY <1>3, <1>5, <1>12, <1>13, <1>14 DEF TrustInv

LEMMA TakesModeFailedTrusted ==
  ASSUME CurrencyTyped, TrustInv, toScreen # <<>>, toScreen' = Tail(toScreen), UNCHANGED ctrlVars,
         TakesModeFailed(Head(toScreen))
  PROVE  TrustInv'
PROOF
  <1> DEFINE f == Head(toScreen)
             rest == Tail(toScreen)
  <1>1. f.cmd = "mode failed" /\ ModePending /\ ModeFails /\ toController' = toController
    BY DEF TakesModeFailed
  <1>2. Own /\ ~BootComing /\ Settled
    BY <1>1 DEF TrustInv
  <1>3. /\ UNCHANGED <<codes, active_code, active_index, auto_selected>>
        /\ switch_request' = switch_request /\ mode_request' = NoCode
    BY <1>1 DEF ModeFails, stateVars
  <1>4. /\ ~IsBoot(f) /\ f.cmd \in ModeAnswers /\ f.cmd \notin SwitchAnswers
        /\ f.cmd \notin {"mode ok", "switch ok"}
    BY <1>1 DEF IsBoot, BootCmds, ModeAnswers, SwitchAnswers
  <1>5. InOrder' /\ ~BootComing'
    BY <1>2, <1>4, RestInOrder
  <1>6. /\ Neither(toController, rest, "mode", ModeAnswers)
        /\ Once(toController, rest, "switch", SwitchAnswers, switch_request.code)
        /\ ~SwitchPending => Neither(toController, rest, "switch", SwitchAnswers)
        /\ OnlyFirst(toScreen, "mode ok") /\ OnlyFirst(toScreen, "switch ok")
    BY <1>4, RestOnce
  <1>7. toScreen \in Seq(ScreenFrame)
    BY DEF CurrencyTyped, LineTyped
  <1>8. Leads(rest, auto_selected, (mode_request = AUTO)', ctrl_auto)
    <2>1. Leads(toScreen, auto_selected, mode_request = AUTO, ctrl_auto)
      BY <1>2 DEF Settled
    <2>2. Leads(rest, auto_selected, mode_request = AUTO, ctrl_auto)
      BY <1>4, <1>6, <1>7, <2>1, LeadsTaken
    <2>3. ~Has(rest, "mode ok")
      BY <1>6 DEF Neither, Has, ModeAnswers
    <2> QED
      BY <2>2, <2>3, LeadsAsked
  <1>9. Has(rest, "switch ok") <=> Has(toScreen, "switch ok")
    BY <1>1, <1>7, HasTaken
  <1>10. toScreen' = rest
    OBVIOUS
  <1> HIDE DEF rest, f
  <1>11. ~ModePending' /\ (SwitchPending' <=> SwitchPending) /\ Own'
    BY <1>2, <1>3, OwnKept DEF ModePending, SwitchPending
  <1>12. ModeOnce'
    <2>1. Once(toController, rest, "mode", ModeAnswers, mode_request')
      BY <1>6, NeitherIsOnce
    <2> QED
      BY <1>1, <1>6, <1>10, <2>1 DEF ModeOnce
  <1>13. SwitchOnce'
    BY <1>1, <1>3, <1>6, <1>10, <1>11 DEF SwitchOnce
  <1>14. Settled'
    <2>1. (codes = <<AUTO>> \o list)'
      BY <1>2, <1>3 DEF Settled, ctrlVars
    <2>2. (SwitchPending => SelectionListed(switch_request.index, switch_request.code))'
      BY <1>2, <1>3 DEF Settled, SwitchPending, SelectionListed
    <2>3. (ctrl_code = IF Has(toScreen, "switch ok") THEN switch_request.code ELSE active_code)'
      BY <1>2, <1>3, <1>9, <1>10 DEF Settled, ctrlVars
    <2>4. Leads(toScreen, auto_selected, mode_request = AUTO, ctrl_auto)'
      BY <1>3, <1>8, <1>10 DEF ctrlVars
    <2> QED
      BY <2>1, <2>2, <2>3, <2>4, Zenon DEF Settled
  <1> QED
    BY <1>5, <1>11, <1>12, <1>13, <1>14 DEF TrustInv

LEMMA TakesSwitchTrusted ==
  ASSUME CurrencyTyped, TrustInv, toScreen # <<>>, toScreen' = Tail(toScreen), UNCHANGED ctrlVars,
         TakesSwitch(Head(toScreen))
  PROVE  TrustInv'
PROOF
  <1> DEFINE f == Head(toScreen)
             rest == Tail(toScreen)
             clear == Frame("clear", NoCode)
  <1>1. f.cmd = "switch ok" /\ SwitchPending /\ SwitchSucceeds
    BY DEF TakesSwitch
  <1>2. Own /\ ~BootComing /\ Settled
    BY <1>1 DEF TrustInv
  <1>3. /\ codes' = codes /\ mode_request' = mode_request /\ switch_request' = NoSwitch /\ Own'
        /\ ~auto_selected' /\ auto_selected' \in BOOLEAN /\ active_code' = switch_request.code
        /\ toController' = Append(toController, clear)
    <2>1. SelectionListed(switch_request.index, switch_request.code)
      BY <1>1, <1>2 DEF Settled
    <2>2. StateTyped'
      BY <1>1, SwitchTaken DEF CurrencyTyped
    <2> QED
      BY <1>1, <1>2, <2>1, <2>2, SwitchTaken DEF CurrencyTyped, StateTyped
  <1>4. /\ ~IsBoot(f) /\ f.cmd \notin ModeAnswers /\ f.cmd \in SwitchAnswers
    BY <1>1 DEF IsBoot, BootCmds, ModeAnswers, SwitchAnswers
  <1>5. InOrder' /\ ~BootComing'
    BY <1>2, <1>4, RestInOrder
  <1>6. /\ Neither(toController, rest, "switch", SwitchAnswers)
        /\ Once(toController, rest, "mode", ModeAnswers, mode_request)
        /\ ~ModePending => Neither(toController, rest, "mode", ModeAnswers)
        /\ OnlyFirst(toScreen, "mode ok") /\ OnlyFirst(toScreen, "switch ok")
    BY <1>4, RestOnce
  <1>7. toScreen \in Seq(ScreenFrame) /\ toController \in Seq(ControllerFrame)
    BY DEF CurrencyTyped, LineTyped
  <1>8. clear \in ControllerFrame /\ clear.cmd # "mode" /\ clear.cmd # "switch"
    BY FramesAre, FrameFields
  <1>9. Leads(rest, FALSE, mode_request = AUTO, ctrl_auto)
    <2>1. Leads(toScreen, auto_selected, mode_request = AUTO, ctrl_auto)
      BY <1>2 DEF Settled
    <2> QED
      BY <1>1, <1>6, <1>7, <2>1, LeadsTaken
  <1>10. Has(toScreen, "switch ok") /\ ~Has(rest, "switch ok")
    <2>1. 1 \in 1..Len(toScreen) /\ toScreen[1] = f
      BY <1>7, ShrunkAt
    <2>2. Has(toScreen, "switch ok")
      BY <1>1, <2>1, Zenon DEF Has
    <2> QED
      BY <1>6, <2>2 DEF Neither, Has, SwitchAnswers
  <1>11. toScreen' = rest
    OBVIOUS
  <1> HIDE DEF rest, f, clear
  <1>12. ~SwitchPending' /\ (ModePending' <=> ModePending)
    BY <1>3 DEF ModePending, SwitchPending
  <1>13. SwitchOnce'
    <2>1. Neither(Append(toController, clear), rest, "switch", SwitchAnswers)
      BY <1>6, <1>7, <1>8, OnceKept
    <2>2. Once(Append(toController, clear), rest, "switch", SwitchAnswers, switch_request'.code)
      BY <2>1, NeitherIsOnce
    <2> QED
      BY <1>3, <1>11, <2>1, <2>2 DEF SwitchOnce
  <1>14. ModeOnce'
    <2>1. /\ Once(Append(toController, clear), rest, "mode", ModeAnswers, mode_request)
          /\ ~ModePending => Neither(Append(toController, clear), rest, "mode", ModeAnswers)
      BY <1>6, <1>7, <1>8, OnceKept
    <2> QED
      BY <1>3, <1>11, <1>12, <2>1 DEF ModeOnce
  <1>15. Settled'
    <2>1. (codes = <<AUTO>> \o list)'
      BY <1>2, <1>3 DEF Settled, ctrlVars
    <2>2. (ctrl_code = IF Has(toScreen, "switch ok") THEN switch_request.code ELSE active_code)'
      BY <1>2, <1>3, <1>10, <1>11 DEF Settled, ctrlVars
    <2>3. Leads(toScreen, auto_selected, mode_request = AUTO, ctrl_auto)'
      <3>1. auto_selected' = FALSE
        BY <1>3
      <3> QED
        BY <1>3, <1>9, <1>11, <3>1 DEF ctrlVars
    <2> QED
      BY <1>12, <2>1, <2>2, <2>3, Zenon DEF Settled
  <1> QED
    BY <1>3, <1>5, <1>13, <1>14, <1>15 DEF TrustInv

LEMMA TakesSwitchFailedTrusted ==
  ASSUME CurrencyTyped, TrustInv, toScreen # <<>>, toScreen' = Tail(toScreen), UNCHANGED ctrlVars,
         TakesSwitchFailed(Head(toScreen))
  PROVE  TrustInv'
PROOF
  <1> DEFINE f == Head(toScreen)
             rest == Tail(toScreen)
  <1>1. f.cmd = "switch failed" /\ SwitchPending /\ SwitchFails /\ toController' = toController
    BY DEF TakesSwitchFailed
  <1>2. Own /\ ~BootComing /\ Settled
    BY <1>1 DEF TrustInv
  <1>3. /\ UNCHANGED <<codes, active_code, active_index, auto_selected>>
        /\ mode_request' = mode_request /\ switch_request' = NoSwitch
    BY <1>1 DEF SwitchFails, stateVars
  <1>4. /\ ~IsBoot(f) /\ f.cmd \notin ModeAnswers /\ f.cmd \in SwitchAnswers
        /\ f.cmd \notin {"mode ok", "switch ok"}
    BY <1>1 DEF IsBoot, BootCmds, ModeAnswers, SwitchAnswers
  <1>5. InOrder' /\ ~BootComing'
    BY <1>2, <1>4, RestInOrder
  <1>6. /\ Neither(toController, rest, "switch", SwitchAnswers)
        /\ Once(toController, rest, "mode", ModeAnswers, mode_request)
        /\ ~ModePending => Neither(toController, rest, "mode", ModeAnswers)
        /\ OnlyFirst(toScreen, "mode ok") /\ OnlyFirst(toScreen, "switch ok")
    BY <1>4, RestOnce
  <1>7. toScreen \in Seq(ScreenFrame)
    BY DEF CurrencyTyped, LineTyped
  <1>8. Leads(rest, auto_selected, mode_request = AUTO, ctrl_auto)
    <2>1. Leads(toScreen, auto_selected, mode_request = AUTO, ctrl_auto)
      BY <1>2 DEF Settled
    <2> QED
      BY <1>4, <1>6, <1>7, <2>1, LeadsTaken
  <1>9. ~Has(rest, "switch ok") /\ ~Has(toScreen, "switch ok")
    <2>1. ~Has(rest, "switch ok")
      BY <1>6 DEF Neither, Has, SwitchAnswers
    <2> QED
      BY <1>1, <1>7, <2>1, HasTaken
  <1>10. toScreen' = rest
    OBVIOUS
  <1> HIDE DEF rest, f
  <1>11. ~SwitchPending' /\ (ModePending' <=> ModePending) /\ Own'
    BY <1>2, <1>3, OwnKept DEF ModePending, SwitchPending
  <1>12. SwitchOnce'
    <2>1. Once(toController, rest, "switch", SwitchAnswers, switch_request'.code)
      BY <1>6, NeitherIsOnce
    <2> QED
      BY <1>1, <1>6, <1>10, <2>1 DEF SwitchOnce
  <1>13. ModeOnce'
    BY <1>1, <1>3, <1>6, <1>10, <1>11 DEF ModeOnce
  <1>14. Settled'
    <2>1. (codes = <<AUTO>> \o list)'
      BY <1>2, <1>3 DEF Settled, ctrlVars
    <2>2. (ctrl_code = IF Has(toScreen, "switch ok") THEN switch_request.code ELSE active_code)'
      BY <1>2, <1>3, <1>9, <1>10 DEF Settled, ctrlVars
    <2>3. Leads(toScreen, auto_selected, mode_request = AUTO, ctrl_auto)'
      BY <1>3, <1>8, <1>10 DEF ctrlVars
    <2> QED
      BY <1>11, <2>1, <2>2, <2>3, Zenon DEF Settled
  <1> QED
    BY <1>5, <1>11, <1>12, <1>13, <1>14 DEF TrustInv

(* A frame that leaves the selection and the requests alone.               *)
LEMMA TakesAsideTrusted ==
  ASSUME CurrencyTyped, TrustInv, toScreen # <<>>, toScreen' = Tail(toScreen), UNCHANGED ctrlVars,
         Head(toScreen).cmd \in {"cleared", "detected"}, Own',
         UNCHANGED <<codes, active_code, auto_selected, mode_request, switch_request, toController>>
  PROVE  TrustInv'
PROOF
  <1> DEFINE f == Head(toScreen)
             rest == Tail(toScreen)
  <1>1. /\ ~IsBoot(f) /\ f.cmd \notin ModeAnswers /\ f.cmd \notin SwitchAnswers
        /\ f.cmd \notin {"mode ok", "switch ok"}
    BY DEF IsBoot, BootCmds, ModeAnswers, SwitchAnswers
  <1>2. InOrder' /\ (BootComing' <=> BootComing)
    BY <1>1, RestInOrder
  <1>3. /\ Once(toController, rest, "mode", ModeAnswers, mode_request)
        /\ ~ModePending => Neither(toController, rest, "mode", ModeAnswers)
        /\ Once(toController, rest, "switch", SwitchAnswers, switch_request.code)
        /\ ~SwitchPending => Neither(toController, rest, "switch", SwitchAnswers)
        /\ OnlyFirst(toScreen, "mode ok") /\ OnlyFirst(toScreen, "switch ok")
    BY <1>1, RestOnce
  <1>4. toScreen \in Seq(ScreenFrame)
    BY DEF CurrencyTyped, LineTyped
  <1>5. Has(rest, "switch ok") <=> Has(toScreen, "switch ok")
    BY <1>1, <1>4, HasTaken
  <1>6. Settled => Leads(rest, auto_selected, mode_request = AUTO, ctrl_auto)
    BY <1>1, <1>3, <1>4, LeadsTaken DEF Settled
  <1>7. toScreen' = rest
    OBVIOUS
  <1> HIDE DEF rest, f
  <1>8. (ModePending' <=> ModePending) /\ (SwitchPending' <=> SwitchPending)
    BY DEF ModePending, SwitchPending
  <1>9. ModeOnce' /\ SwitchOnce'
    BY <1>3, <1>7, <1>8 DEF ModeOnce, SwitchOnce
  <1>10. ASSUME Settled PROVE Settled'
    <2>1. (codes = <<AUTO>> \o list)'
      BY <1>10 DEF Settled, ctrlVars
    <2>2. (SwitchPending => SelectionListed(switch_request.index, switch_request.code))'
      BY <1>10 DEF Settled, SwitchPending, SelectionListed
    <2>3. (ctrl_code = IF Has(toScreen, "switch ok") THEN switch_request.code ELSE active_code)'
      BY <1>5, <1>7, <1>10 DEF Settled, ctrlVars
    <2>4. Leads(toScreen, auto_selected, mode_request = AUTO, ctrl_auto)'
      BY <1>6, <1>7, <1>10 DEF ctrlVars
    <2> QED
      BY <2>1, <2>2, <2>3, <2>4, Zenon DEF Settled
  <1> QED
    BY <1>2, <1>8, <1>9, <1>10 DEF TrustInv

(* An answer finds its request.                                            *)
LEMMA TakesNothingTrusted ==
  ASSUME CurrencyTyped, TrustInv, toScreen # <<>>
  PROVE  ~TakesNothing(Head(toScreen))
  BY RestOnce, Zenon DEF TakesNothing

(* A frame of a report but the last: the next frame finds what it awaits.  *)
LEMMA BootTaken ==
  ASSUME CurrencyTyped, TrustInv, toScreen # <<>>, toScreen' = Tail(toScreen),
         UNCHANGED <<ctrlVars, toController, switch_request>>,
         mode_request' = NoCode \/ mode_request' = mode_request,
         IsBoot(Head(toScreen)), Own',
         \/ BootComing' /\ (toScreen # <<>> => Awaited(toScreen[1]))'
         \/ Settled' /\ (toScreen # <<>> => ~IsBoot(toScreen[1]) \/ toScreen[1].cmd = "start")'
  PROVE  TrustInv'
PROOF
  <1> DEFINE f == Head(toScreen)
             rest == Tail(toScreen)
  <1>1. /\ Chained(rest) /\ LastIs(rest, Origin(list, ctrl_auto, ctrl_code)) /\ BootComing
    BY LineTaken
  <1>2. ~ModePending /\ ~SwitchPending
    BY <1>1 DEF TrustInv
  <1>3. /\ Neither(toController, rest, "mode", ModeAnswers)
        /\ Neither(toController, rest, "switch", SwitchAnswers)
    BY <1>2, RestOnce
  <1>4. toScreen' = rest
    OBVIOUS
  <1> HIDE DEF rest, f
  <1>5. ~ModePending' /\ ~SwitchPending'
    BY <1>2 DEF ModePending, SwitchPending
  <1>6. ModeOnce'
    <2>1. Once(toController, rest, "mode", ModeAnswers, mode_request')
      BY <1>3, NeitherIsOnce
    <2> QED
      BY <1>3, <1>4, <2>1 DEF ModeOnce
  <1>7. SwitchOnce'
    <2>1. Once(toController, rest, "switch", SwitchAnswers, switch_request'.code)
      BY <1>3, NeitherIsOnce
    <2> QED
      BY <1>3, <1>4, <2>1 DEF SwitchOnce
  <1>8. (toScreen # <<>> => Awaited(toScreen[1]))'
    <2>1. CASE (toScreen # <<>> => ~IsBoot(toScreen[1]) \/ toScreen[1].cmd = "start")'
      <3>1. rest # <<>> => rest[1].cmd \notin {"code", "end", "mode", "active", "index"}
        BY <1>4, <2>1 DEF IsBoot, BootCmds
      <3> QED
        BY <1>4, <3>1 DEF Awaited
    <2> QED
      BY <2>1
  <1>9. InOrder'
    <2>1. Origin(list, ctrl_auto, ctrl_code)' = Origin(list, ctrl_auto, ctrl_code)
      BY DEF ctrlVars
    <2> QED
      BY <1>1, <1>4, <1>8, <2>1 DEF InOrder
  <1> QED
    BY <1>5, <1>6, <1>7, <1>9 DEF TrustInv

(* What is transferred of a list, code after code.                         *)
LEMMA ReceivedFirst ==
  ASSUME NEW from
  PROVE  Received(from, 0) = NothingSeen
  BY Names DEF Received, NothingSeen

LEMMA ReceivedNext ==
  ASSUME NEW from \in Lists, NEW k \in 1..Len(from)
  PROVE  LET s == Received(from, k - 1)
         IN  /\ \A i \in DOMAIN s \ {k} : s[i] # from[k]
             /\ [s EXCEPT ![k] = from[k]] = Received(from, k)
PROOF
  <1> DEFINE s == Received(from, k - 1)
  <1>1. /\ Len(from) \in Nat /\ Len(from) <= MaxCurrencies /\ MaxCurrencies \in Nat
        /\ \A i \in 1..Len(from) : from[i] \in Codes
        /\ \A i, j \in 1..Len(from) : from[i] = from[j] => i = j
    BY ListIs, Names
  <1>2. k \in Nat /\ k \in 1..MaxCurrencies /\ NoCode \notin Codes
    BY <1>1, Names
  <1>3. DOMAIN s = 1..MaxCurrencies
    BY DEF Received
  <1>4. ASSUME NEW i \in 1..MaxCurrencies, i # k
        PROVE  s[i] # from[k]
    <2>1. CASE i <= k - 1
      <3>1. s[i] = from[i] /\ i \in 1..Len(from)
        BY <1>1, <1>2, <2>1 DEF Received
      <3> QED
        BY <1>1, <1>4, <3>1
    <2>2. CASE ~(i <= k - 1)
      <3>1. s[i] = NoCode
        BY <2>2 DEF Received
      <3> QED
        BY <1>1, <1>2, <3>1
    <2> QED
      BY <2>1, <2>2
  <1>5. [s EXCEPT ![k] = from[k]] = Received(from, k)
    <2>1. \A i \in 1..MaxCurrencies : i # k => (i <= k - 1 <=> i <= k)
      BY <1>2
    <2>2. \A i \in 1..MaxCurrencies :
            [s EXCEPT ![k] = from[k]][i] = IF i <= k THEN from[i] ELSE NoCode
      BY <1>2, <2>1 DEF Received
    <2>3. [s EXCEPT ![k] = from[k]] = [i \in 1..MaxCurrencies |-> [s EXCEPT ![k] = from[k]][i]]
      BY <1>3
    <2> HIDE DEF s
    <2> QED
      BY <2>2, <2>3 DEF Received
  <1> QED
    BY <1>3, <1>4, <1>5

LEMMA ReceivedAll ==
  ASSUME SyncTyped, sync_active, NEW from \in Lists, sync_codes = Received(from, Len(from))
  PROVE  ListComplete /\ SubSeq(sync_codes, 1, SyncCount) = from
PROOF
  <1> DEFINE n == Len(from)
             sent == SubSeq(sync_codes, 1, n)
  <1>1. /\ n \in Nat /\ n >= 1 /\ n <= MaxCurrencies /\ MaxCurrencies \in Nat
        /\ from \in Seq(Codes) /\ \A i \in 1..n : from[i] \in Codes
    BY ListIs, Names
  <1> HIDE DEF n
  <1>2. /\ \A i \in 1..n : i \in 1..MaxCurrencies /\ sync_codes[i] = from[i]
        /\ \A i \in 1..MaxCurrencies : ~(i <= n) => sync_codes[i] = NoCode
    BY <1>1 DEF Received, n
  <1>3. \A i \in 1..n : sync_codes[i] \in Codes /\ sync_codes[i] # NoCode
    BY <1>1, <1>2, Names
  <1>4. SyncCount = n
    <2>1. /\ SyncCount \in Nat /\ SyncCount <= MaxCurrencies
          /\ SyncCount > 0 => sync_codes[SyncCount] # NoCode
          /\ \A i \in 1..MaxCurrencies : sync_codes[i] # NoCode => i <= SyncCount
      BY CountIs
    <2>2. n \in 1..n
      BY <1>1
    <2>3. n <= SyncCount
      BY <1>2, <1>3, <2>1, <2>2
    <2>4. SyncCount <= n
      BY <1>1, <1>2, <2>1, <2>3
    <2> QED
      BY <1>1, <2>1, <2>3, <2>4
  <1>5. ListComplete
    BY <1>1, <1>3, <1>4 DEF ListComplete
  <1>6. sent \in Seq(Codes) /\ Len(sent) = n /\ \A i \in 1..n : sent[i] = from[i]
    <2>1. 1 \in Int /\ n \in Int /\ 1 <= n /\ n - 1 + 1 = n /\ \A i \in 1..n : 1 + i - 1 = i
      BY <1>1
    <2>2. /\ sent \in Seq(Codes) /\ Len(sent) = n - 1 + 1
          /\ \A i \in 1..n - 1 + 1 : sent[i] = sync_codes[1 + i - 1]
      BY <1>3, <2>1, SubSeqProperties
    <2> QED
      BY <1>2, <2>1, <2>2
  <1> HIDE DEF sent
  <1>7. sent = from
    BY <1>1, <1>6, SeqEqual DEF n
  <1> QED
    BY <1>4, <1>5, <1>7 DEF sent

(* The report of a boot, frame by frame.                                   *)
LEMMA BootNext ==
  ASSUME CurrencyTyped, TrustInv, toScreen # <<>>, toScreen' = Tail(toScreen),
         IsBoot(Head(toScreen))
  PROVE  LET f == Head(toScreen)
             g == toScreen'[1]
         IN  /\ f \in ScreenFrame /\ Genuine(f) /\ Awaited(f) /\ f.of.list \in Lists
             /\ ~ModePending /\ ~SwitchPending
             /\ f.cmd # "index" => BootComing' /\ Follows(f, g)
  BY LineTaken, ScreenFrameIs DEF TrustInv, Genuine, IsBoot

LEMMA TakesStartTrusted ==
  ASSUME CurrencyTyped, TrustInv, toScreen # <<>>, toScreen' = Tail(toScreen),
         UNCHANGED <<ctrlVars, toController, switch_request, mode_request>>,
         Head(toScreen).cmd = "start", BeginListSync, Keep
  PROVE  TrustInv'
PROOF
  <1> DEFINE f == Head(toScreen)
             g == toScreen'[1]
  <1>1. IsBoot(f) /\ f.cmd = "start"
    BY DEF IsBoot, BootCmds
  <1>2. BootComing' /\ Follows(f, g)
    BY <1>1, BootNext
  <1>3. g.cmd = "code" /\ g.arg.index = 1
    BY <1>1, <1>2 DEF Follows, IsCode
  <1>4. sync_active' = TRUE /\ sync_codes' = NothingSeen
    BY DEF BeginListSync
  <1>5. Received(g.of.list, 0) = NothingSeen
    BY ReceivedFirst
  <1>6. Received(g.of.list, 1 - 1) = NothingSeen
    <2>1. 1 - 1 = 0
      OBVIOUS
    <2> QED
      BY <1>5, <2>1
  <1>7. sync_codes' = Received(g.of.list, g.arg.index - 1)
    BY <1>3, <1>4, <1>6, Zenon
  <1>8. Awaited(toScreen[1])'
    BY <1>3, <1>4, <1>7 DEF Awaited
  <1>9. Own'
    BY StateKept DEF CurrencyTyped, TrustInv
  <1> QED
    BY <1>1, <1>2, <1>8, <1>9, BootTaken

LEMMA TakesCodeTrusted ==
  ASSUME CurrencyTyped, TrustInv, toScreen # <<>>, toScreen' = Tail(toScreen),
         UNCHANGED <<ctrlVars, toController, switch_request, mode_request>>,
         Head(toScreen).cmd = "code",
         AppendListCode(Head(toScreen).arg, Head(toScreen).of.list), Keep
  PROVE  TrustInv'
PROOF
  <1> DEFINE f == Head(toScreen)
             g == toScreen'[1]
             from == f.of.list
  <1>1. IsBoot(f) /\ f.cmd = "code"
    BY DEF IsBoot, BootCmds
  <1>2. BootComing' /\ Follows(f, g) /\ Genuine(f) /\ Awaited(f) /\ from \in Lists
    BY <1>1, BootNext
  <1>3. PICK k \in DOMAIN from : f.arg = [index |-> k, code |-> from[k]]
    BY <1>1, <1>2 DEF Genuine
  <1>4. k \in 1..Len(from) /\ Len(from) \in Nat
    BY <1>2, ListIs
  <1>5. f.arg.index = k /\ f.arg.code = from[k]
    BY <1>3
  <1>6. sync_active /\ sync_codes = Received(from, k - 1)
    BY <1>1, <1>2, <1>5 DEF Awaited
  <1>7. AppendListCode(f.arg, from)
    OBVIOUS
  <1>8. g.of = f.of /\ IF k < Len(from) THEN g.cmd = "code" /\ g.arg.index = k + 1 ELSE g.cmd = "end"
    BY <1>1, <1>2, <1>5 DEF Follows, IsCode
  <1>9. Own'
    BY StateKept DEF CurrencyTyped, TrustInv
  <1> HIDE DEF from
  <1>10. sync_active' /\ sync_codes' = Received(from, k)
    <2>1. /\ \A i \in DOMAIN sync_codes \ {k} : sync_codes[i] # from[k]
          /\ [sync_codes EXCEPT ![k] = from[k]] = Received(from, k)
      BY <1>2, <1>4, <1>6, ReceivedNext
    <2>2. sync_codes' = [sync_codes EXCEPT ![k] = from[k]] /\ sync_active' = sync_active
      BY <1>5, <1>6, <1>7, <2>1 DEF AppendListCode
    <2> QED
      BY <1>6, <2>1, <2>2
  <1>11. g.of.list = from
    BY <1>8 DEF from
  <1> HIDE DEF g, f
  <1>12. \/ g.cmd = "code" /\ g.arg.index - 1 = k
         \/ g.cmd = "end" /\ Len(from) = k
    BY <1>4, <1>8
  <1>13. /\ g.cmd = "code" => sync_active' /\ sync_codes' = Received(g.of.list, g.arg.index - 1)
         /\ g.cmd = "end" => sync_active' /\ sync_codes' = Received(g.of.list, Len(g.of.list))
         /\ g.cmd \notin {"mode", "active", "index"}
    BY <1>10, <1>11, <1>12
  <1>14. Awaited(toScreen[1])'
    BY <1>13 DEF Awaited, g
  <1> QED
    BY <1>1, <1>2, <1>9, <1>14, BootTaken DEF f

LEMMA TakesEndTrusted ==
  ASSUME CurrencyTyped, TrustInv, toScreen # <<>>, toScreen' = Tail(toScreen),
         UNCHANGED <<ctrlVars, toController, switch_request, mode_request>>,
         Head(toScreen).cmd = "end", FinishListSync
  PROVE  TrustInv'
PROOF
  <1> DEFINE f == Head(toScreen)
             g == toScreen'[1]
             from == f.of.list
  <1>1. IsBoot(f) /\ f.cmd = "end"
    BY DEF IsBoot, BootCmds
  <1>2. BootComing' /\ Follows(f, g) /\ Awaited(f) /\ from \in Lists
    BY <1>1, BootNext
  <1>3. sync_active /\ sync_codes = Received(from, Len(from))
    BY <1>1, <1>2 DEF Awaited
  <1>4. g.of = f.of /\ g.cmd = "mode"
    BY <1>1, <1>2 DEF Follows
  <1> HIDE DEF from
  <1>5. ListComplete /\ SubSeq(sync_codes, 1, SyncCount) = from
    BY <1>2, <1>3, ReceivedAll DEF CurrencyTyped
  <1>6. Own' /\ codes' = <<AUTO>> \o from
    BY <1>5, ListFinished DEF CurrencyTyped, TrustInv
  <1>7. Awaited(toScreen[1])'
    BY <1>4, <1>6 DEF Awaited, from
  <1> QED
    BY <1>1, <1>2, <1>6, <1>7, BootTaken

LEMMA TakesReportTrusted ==
  ASSUME CurrencyTyped, TrustInv, toScreen # <<>>, toScreen' = Tail(toScreen), UNCHANGED ctrlVars,
         TakesReport(Head(toScreen))
  PROVE  TrustInv'
PROOF
  <1> DEFINE f == Head(toScreen)
             g == toScreen'[1]
  <1>1. IsBoot(f) /\ f.cmd = "mode" /\ ModeReported(f.arg) /\ toController' = toController
    BY DEF TakesReport, IsBoot, BootCmds
  <1>2. BootComing' /\ Follows(f, g) /\ Genuine(f) /\ Awaited(f) /\ f \in ScreenFrame
    BY <1>1, BootNext
  <1>3. f.arg \in Requests /\ (f.of.auto <=> f.arg = AUTO) /\ f.of.auto \in BOOLEAN
    BY <1>1, <1>2 DEF Genuine, ScreenFrame, Origins
  <1>4. codes = <<AUTO>> \o f.of.list
    BY <1>1, <1>2 DEF Awaited
  <1>5. g.of = f.of /\ g.cmd = "active"
    BY <1>1, <1>2 DEF Follows
  <1>6. /\ StateTyped' /\ codes' = codes /\ mode_request' = NoCode
        /\ switch_request' = switch_request /\ Own' /\ (auto_selected' <=> f.arg = AUTO)
    BY <1>1, <1>3, ReportTaken DEF CurrencyTyped, TrustInv
  <1>7. auto_selected' = f.of.auto
    BY <1>3, <1>6 DEF StateTyped
  <1>8. Awaited(toScreen[1])'
    BY <1>4, <1>5, <1>6, <1>7 DEF Awaited
  <1> QED
    BY <1>1, <1>2, <1>6, <1>8, BootTaken

LEMMA TakesActiveTrusted ==
  ASSUME CurrencyTyped, TrustInv, toScreen # <<>>, toScreen' = Tail(toScreen), UNCHANGED ctrlVars,
         TakesActive(Head(toScreen))
  PROVE  TrustInv'
PROOF
  <1> DEFINE f == Head(toScreen)
             g == toScreen'[1]
             from == f.of.list
  <1>1. IsBoot(f) /\ f.cmd = "active" /\ ActiveReported(f.arg) /\ toController' = toController
    BY DEF TakesActive, IsBoot, BootCmds
  <1>2. BootComing' /\ Follows(f, g) /\ Genuine(f) /\ Awaited(f) /\ from \in Lists
    BY <1>1, BootNext
  <1>3. f.arg = f.of.code /\ f.arg \in ToSet(from)
    BY <1>1, <1>2 DEF Genuine, IsBoot
  <1>4. codes = <<AUTO>> \o from /\ auto_selected = f.of.auto
    BY <1>1, <1>2 DEF Awaited
  <1>5. g.of = f.of /\ g.cmd = "index"
    BY <1>1, <1>2 DEF Follows
  <1>6. Listed(f.arg, codes) /\ f.arg \in Codes
    <2>1. PICK i \in 1..Len(from) : from[i] = f.arg
      BY <1>2, <1>3, ToSetIs
    <2>2. codes[i + 1] = f.arg
      BY <1>2, <1>4, <2>1, ListIs, Fronted
    <2>3. Len(codes) = Len(from) + 1 /\ Len(from) \in Nat
      BY <1>2, <1>4, ListIs, Fronted
    <2> HIDE DEF from, f
    <2>4. i + 1 \in DOMAIN codes
      BY <2>1, <2>3, CodesAre DEF CurrencyTyped
    <2>5. Listed(f.arg, codes)
      BY <2>2, <2>4, Zenon DEF Listed
    <2> QED
      BY <1>2, <1>3, <2>5, FindIn
  <1>7. /\ active_code' = f.arg /\ UNCHANGED <<codes, auto_selected>> /\ Own'
        /\ UNCHANGED <<mode_request, switch_request>>
    <2>1. UNCHANGED <<mode_request, switch_request>>
      BY <1>1 DEF ActiveReported, requestVars
    <2> QED
      BY <1>1, <1>6, <2>1, ActiveConfirmed DEF CurrencyTyped
  <1>8. Awaited(toScreen[1])'
    BY <1>3, <1>4, <1>5, <1>7 DEF Awaited
  <1> QED
    BY <1>1, <1>2, <1>7, <1>8, BootTaken

LEMMA TakesIndexTrusted ==
  ASSUME CurrencyTyped, TrustInv, toScreen # <<>>, toScreen' = Tail(toScreen),
         UNCHANGED <<ctrlVars, toController, switch_request, mode_request>>,
         Head(toScreen).cmd = "index", ConfirmActiveIndex(Head(toScreen).arg)
  PROVE  TrustInv'
PROOF
  <1> DEFINE f == Head(toScreen)
             rest == Tail(toScreen)
             from == f.of.list
             code == f.of.code
  <1>1. IsBoot(f) /\ f.cmd = "index"
    BY DEF IsBoot, BootCmds
  <1>2. Genuine(f) /\ Awaited(f) /\ from \in Lists /\ ~ModePending /\ ~SwitchPending
    BY <1>1, BootNext
  <1>3. f.arg = Find(code, from) /\ code \in ToSet(from)
    BY <1>1, <1>2 DEF Genuine, IsBoot
  <1>4. codes = <<AUTO>> \o from /\ auto_selected = f.of.auto /\ active_code = code
    BY <1>1, <1>2 DEF Awaited
  <1>5. /\ Find(code, from) \in Nat /\ Find(code, from) + 1 \in 1..Len(from)
        /\ from[Find(code, from) + 1] = code
    BY <1>2, <1>3, FindIn
  <1>6. Len(codes) = Len(from) + 1 /\ Len(from) \in Nat
    BY <1>2, <1>4, ListIs, Fronted
  <1> DEFINE k == Find(code, from)
  <1>7. codes[(k + 1) + 1] = from[k + 1]
    BY <1>2, <1>4, <1>5, ListIs, Fronted
  <1>8. ConfirmActiveIndex(k)
    BY <1>3
  <1>9. k \in Nat /\ k + 1 < Len(codes) /\ codes[k + 2] = active_code
    <2> HIDE DEF k, from, code
    <2>1. k \in Nat /\ k + 1 <= Len(from)
      BY <1>5, <1>6 DEF k
    <2>2. (k + 1) + 1 = k + 2 /\ k + 1 < Len(codes)
      BY <1>6, <2>1
    <2> QED
      BY <1>4, <1>5, <1>7, <2>1, <2>2 DEF k
  <1> HIDE DEF k
  <1>10. Own' /\ UNCHANGED <<codes, active_code, auto_selected>>
    BY <1>8, <1>9, IndexConfirmed DEF CurrencyTyped, TrustInv
  <1>11. /\ rest # <<>> => ~IsBoot(rest[1]) \/ rest[1].cmd = "start"
         /\ ~BootOn(rest) => f.of = Origin(list, ctrl_auto, ctrl_code)
         /\ BootComing' <=> BootOn(rest)
    <2>1. ~Follows(f, rest[1])
      BY <1>1 DEF Follows
    <2> QED
      BY <1>1, <2>1, LineTaken
  <1>12. /\ Neither(toController, rest, "mode", ModeAnswers)
         /\ Neither(toController, rest, "switch", SwitchAnswers)
    BY <1>2, RestOnce
  <1>13. toScreen' = rest
    OBVIOUS
  <1> HIDE DEF rest
  <1>14. (toScreen # <<>> => ~IsBoot(toScreen[1]) \/ toScreen[1].cmd = "start")'
    BY <1>11, <1>13
  <1>15. CASE BootComing'
    <2>1. rest # <<>> => rest[1].cmd \notin {"code", "end", "mode", "active", "index"}
      BY <1>11 DEF IsBoot, BootCmds
    <2>2. (toScreen # <<>> => Awaited(toScreen[1]))'
      BY <1>13, <2>1 DEF Awaited
    <2> QED
      BY <1>1, <1>10, <1>15, <2>2, BootTaken
  <1>16. CASE ~BootComing'
    <2>1. f.of.list = list /\ f.of.auto = ctrl_auto /\ f.of.code = ctrl_code
      BY <1>11, <1>16 DEF Origin
    <2>2. ~Has(rest, "switch ok") /\ ~Has(rest, "mode ok")
      BY <1>12 DEF Neither, Has, ModeAnswers, SwitchAnswers
    <2>3. (codes = <<AUTO>> \o list)'
      BY <1>4, <1>10, <2>1 DEF ctrlVars
    <2>4. ~SwitchPending'
      BY <1>2 DEF SwitchPending
    <2>5. (ctrl_code = IF Has(toScreen, "switch ok") THEN switch_request.code ELSE active_code)'
      BY <1>4, <1>10, <1>13, <2>1, <2>2 DEF ctrlVars
    <2>6. Leads(rest, auto_selected, (mode_request = AUTO)', auto_selected)
      BY <2>2, Zenon DEF Leads, IsLast, Has
    <2>7. Leads(toScreen, auto_selected, mode_request = AUTO, ctrl_auto)'
      BY <1>4, <1>10, <1>13, <2>1, <2>6 DEF ctrlVars
    <2>8. Settled'
      BY <2>3, <2>4, <2>5, <2>7, Zenon DEF Settled
    <2> QED
      BY <1>1, <1>10, <1>14, <2>8, BootTaken
  <1> QED
    BY <1>15, <1>16

LEMMA TakeFrameTrusted ==
  ASSUME CurrencyTyped, TrustInv, TakeFrame
  PROVE  TrustInv'
PROOF
  <1> DEFINE f == Head(toScreen)
  <1>1. /\ toScreen # <<>> /\ Takes(f) /\ toScreen' = Tail(toScreen) /\ UNCHANGED ctrlVars
    BY TakeIs
  <1>2. Own /\ StateTyped /\ f \in ScreenFrame /\ Genuine(f)
    BY <1>1, LineTaken, ScreenFrameIs DEF TrustInv, CurrencyTyped
  <1> HIDE DEF f
  <1>3. CASE TakesMode(f)
    BY <1>1, <1>3, TakesModeTrusted DEF f
  <1>4. CASE TakesModeFailed(f)
    BY <1>1, <1>4, TakesModeFailedTrusted DEF f
  <1>5. CASE TakesSwitch(f)
    BY <1>1, <1>5, TakesSwitchTrusted DEF f
  <1>6. CASE TakesSwitchFailed(f)
    BY <1>1, <1>6, TakesSwitchFailedTrusted DEF f
  <1>7. CASE TakesNothing(f)
    BY <1>1, <1>7, TakesNothingTrusted DEF f
  <1>8. CASE TakesCleared(f)
    <2>1. /\ f.cmd = "cleared" /\ UNCHANGED <<mode_request, switch_request, toController>>
          /\ UNCHANGED <<codes, active_code, active_index, auto_selected>>
      BY <1>8 DEF TakesCleared, stateVars
    <2>2. Own'
      BY <1>2, <2>1, OwnKept
    <2> QED
      BY <1>1, <2>1, <2>2, TakesAsideTrusted DEF f
  <1>9. CASE TakesReport(f)
    BY <1>1, <1>9, TakesReportTrusted DEF f
  <1>10. CASE TakesActive(f)
    BY <1>1, <1>10, TakesActiveTrusted DEF f
  <1>11. CASE TakesOther(f)
    <2>1. UNCHANGED <<mode_request, switch_request, toController>>
      BY <1>11 DEF TakesOther, requestVars
    <2>2. CASE f.cmd = "index" /\ ConfirmActiveIndex(f.arg)
      BY <1>1, <2>1, <2>2, TakesIndexTrusted DEF f
    <2>3. CASE f.cmd = "detected" /\ ConfirmDetected(f.arg)
      <3>1. f.arg \in Codes
        BY <1>2, <2>3 DEF Genuine
      <3>2. Own' /\ UNCHANGED <<codes, active_code, auto_selected>>
        BY <1>2, <2>3, <3>1, DetectedConfirmed
      <3> QED
        BY <1>1, <2>1, <2>3, <3>2, TakesAsideTrusted DEF f
    <2>4. CASE f.cmd = "start" /\ BeginListSync /\ Keep
      BY <1>1, <2>1, <2>4, TakesStartTrusted DEF f
    <2>5. CASE f.cmd = "code" /\ AppendListCode(f.arg, f.of.list) /\ Keep
      BY <1>1, <2>1, <2>5, TakesCodeTrusted DEF f
    <2>6. CASE f.cmd = "end" /\ FinishListSync
      BY <1>1, <2>1, <2>6, TakesEndTrusted DEF f
    <2> QED
      BY <1>11, <2>2, <2>3, <2>4, <2>5, <2>6 DEF TakesOther
  <1> QED
    BY <1>1, <1>3, <1>4, <1>5, <1>6, <1>7, <1>8, <1>9, <1>10, <1>11 DEF Takes

(* Trust is never won back.                                                *)
LEMMA TrustLost ==
  ASSUME [Next]_vars, trusted'
  PROVE  trusted
PROOF
  <1>1. CASE UserStep
    BY <1>1, Zenon DEF UserStep, Select, NextMode, UserClear, Sends
  <1>2. CASE TakeFrame
    BY <1>2, Zenon DEF TakeFrame
  <1>3. CASE PollStep
    BY <1>3, Zenon DEF PollStep, ModeClearDue, TakeModeTimeout, TakeSwitchTimeout, Poll
  <1>4. CASE ControllerStep
    BY <1>4, Zenon DEF ControllerStep, Serve, ControllerBoots, Detect, Lose
  <1>5. CASE UNCHANGED vars
    BY <1>5 DEF vars
  <1> QED
    BY <1>1, <1>2, <1>3, <1>4, <1>5 DEF Next

LEMMA TrustNext ==
  ASSUME CurrencyTyped, TrustInv, [Next]_vars, trusted'
  PROVE  TrustInv'
PROOF
  <1>1. CASE UserStep
    BY <1>1, SelectTrusted, NextModeTrusted, UserClearTrusted DEF UserStep
  <1>2. CASE TakeFrame
    BY <1>2, TakeFrameTrusted
  <1>3. CASE PollStep
    BY <1>3, TimersTrusted, PollTrusted DEF PollStep
  <1>4. CASE ControllerStep
    <2>1. ~Lose
      BY Zenon DEF Lose
    <2>2. CASE Serve
      BY <2>2, ServeTrusted
    <2>3. CASE \E new \in Lists, auto \in BOOLEAN, reported \in Modes :
                 \E code \in ToSet(new), lost \in 0..(Len(new) + 5) :
                   ControllerBoots(new, auto, code, reported, lost)
      BY <2>3, BootsTrusted
    <2>4. CASE \E code \in ToSet(list) : Detect(code)
      BY <2>4, DetectTrusted
    <2> QED
      BY <1>4, <2>1, <2>2, <2>3, <2>4, Zenon DEF ControllerStep
  <1>5. CASE UNCHANGED vars
    <2>1. /\ UNCHANGED <<toScreen, sync_active, sync_codes, codes, active_code, active_index>>
          /\ UNCHANGED <<auto_selected, ctrlVars, mode_request, switch_request, toController>>
      BY <1>5 DEF vars, stateVars, syncVars, requestVars
    <2> QED
      BY <2>1, ClearSent
  <1> QED
    BY <1>1, <1>2, <1>3, <1>4, <1>5 DEF Next

LEMMA CurrencyInvAlways == Spec => []CurrencyInv
PROOF
  <1>1. Init => CurrencyInv
    BY TypedInit, TrustInit DEF CurrencyInv
  <1>2. CurrencyInv /\ [Next]_vars => CurrencyInv'
    <2> SUFFICES ASSUME CurrencyInv, [Next]_vars PROVE CurrencyInv'
      OBVIOUS
    <2>1. CurrencyTyped'
      BY TypedNext DEF CurrencyInv
    <2>2. trusted' => TrustInv'
      BY TrustLost, TrustNext DEF CurrencyInv
    <2> QED
      BY <2>1, <2>2, Zenon DEF CurrencyInv
  <1> QED
    BY <1>1, <1>2, PTL DEF Spec

-----------------------------------------------------------------------------
(* AUTO has the index 0; any other selection has no detected currency and, *)
(* while nothing is lost, late or crossed, the index of its code, however  *)
(* the answers, reports and detections of the controller come in           *)
(* (currency_state.c, app_setting_reply_basic.c).                          *)
THEOREM CurrencyIndexAgrees == Spec => []IndexAgrees
PROOF
  <1>1. CurrencyInv => IndexAgrees
    <2> SUFFICES ASSUME CurrencyInv PROVE IndexAgrees
      OBVIOUS
    <2>1. StateTyped
      BY DEF CurrencyInv, CurrencyTyped
    <2>2. auto_selected => active_index = 0
      BY <2>1 DEF StateTyped
    <2>3. ~auto_selected => detected_code = NoCode
      BY <2>1 DEF StateTyped
    <2>4. ASSUME ~auto_selected, trusted
          PROVE  active_index > 0 /\ codes[active_index + 1] = active_code
      <3>1. codes[active_index + 1] = active_code
        BY <2>4 DEF CurrencyInv, TrustInv, Own
      <3>2. active_index \in Nat /\ active_code \in Codes /\ codes[1] = AUTO
        BY <2>1, CodesAre DEF StateTyped
      <3>3. active_index # 0
        <4>1. SUFFICES ASSUME active_index = 0 PROVE FALSE
          OBVIOUS
        <4>2. codes[active_index + 1] = AUTO
          BY <3>2, <4>1
        <4> QED
          BY <3>1, <3>2, <4>2, Names
      <3> QED
        BY <3>1, <3>2, <3>3
    <2> QED
      BY <2>2, <2>3, <2>4, Zenon DEF IndexAgrees
  <1> QED
    BY <1>1, CurrencyInvAlways, PTL

(* Once every request is answered, the panel and the controller have the   *)
(* same currency, AUTO included, whatever selections, refusals, changes of *)
(* mode and boots went before, while nothing is lost, late or crossed by a *)
(* boot (page_07_curr.c, currency_service.c, app_setting_runtime.c).       *)
THEOREM CurrencySelectionTrue == Spec => []SelectionTrue
PROOF
  <1>1. CurrencyInv => SelectionTrue
    <2> SUFFICES ASSUME CurrencyInv, trusted, Quiet
                 PROVE  auto_selected = ctrl_auto /\ active_code = ctrl_code
      BY DEF SelectionTrue
    <2>1. toScreen = <<>> /\ Len(toScreen) = 0
      BY DEF Quiet
    <2>2. ~BootComing /\ \A cmd : ~Has(toScreen, cmd)
      BY <2>1 DEF BootComing, Has
    <2>3. Settled
      BY <2>2 DEF CurrencyInv, TrustInv
    <2>4. active_code = ctrl_code
      BY <2>2, <2>3 DEF Settled
    <2>5. ctrl_auto <=> auto_selected
      BY <2>2, <2>3, Zenon DEF Settled, Leads
    <2>6. ctrl_auto \in BOOLEAN /\ auto_selected \in BOOLEAN
      BY DEF CurrencyInv, CurrencyTyped, ControllerTyped, StateTyped
    <2> QED
      BY <2>4, <2>5, <2>6
  <1> QED
    BY <1>1, CurrencyInvAlways, PTL
=============================================================================
