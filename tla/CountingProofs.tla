--------------------------- MODULE CountingProofs ---------------------------
(***************************************************************************)
(* Proofs about src/un260/counting/.  CountingSession, for any number of   *)
(* sessions, user actions, losses and retries: start and clear exclude     *)
(* each other, a session is saved at most once and with what it counted,   *)
(* and what the screen shows of a session stays.  RejectAnalysis, whose    *)
(* names are its own so that both can be extended here, for a pocket of    *)
(* any size: the split of the rejects adds up and is the session's.        *)
(***************************************************************************)
EXTENDS CountingSession, RejectAnalysis, SequenceTheorems, TLAPS

(* The types, by the part of the system the variables belong to.           *)
Records == [valid : BOOLEAN, end_seen : BOOLEAN, save_attempts : 0 .. MaxAttempts,
            of : Session \cup {Nobody}]
Queries == [pending : BOOLEAN, started : BOOLEAN, complete : BOOLEAN,
            deferred : BOOLEAN, retry : 0 .. MaxRetry, denom : SUBSET Owner]
SessionTyped ==
  /\ phase \in {"idle", "active", "finished"}
  /\ end_anim_wait_detail \in BOOLEAN /\ last_result_valid \in BOOLEAN
  /\ history_record \in Records
DataTyped ==
  totals \in Session \cup {Nobody} /\ denom \in SUBSET Owner /\ serials \in SUBSET Session
QueryTyped == query \in Queries
FlagsTyped ==
  /\ wait_sn \in BOOLEAN /\ start_pending \in BOOLEAN /\ clear_pending \in BOOLEAN
  /\ boot_ready \in BOOLEAN
ControllerTyped ==
  /\ counter \in {"stopped", "started", "rejected", "accepted"}
  /\ current \in 0 .. MaxSession /\ held \in 0 .. MaxSession
  /\ counter # "stopped" => current # Nobody
Entries == [of : Session \cup {Nobody}, denom : SUBSET Owner, serials : SUBSET Session,
            disturbed : BOOLEAN]
SavedTyped ==
  /\ saved \in Seq(Entries)
  /\ disturbed \in BOOLEAN
Typed ==
  SessionTyped /\ DataTyped /\ QueryTyped /\ FlagsTyped /\ ControllerTyped /\ SavedTyped

LEMMA TypedParts == Typed => TypeOK
  BY Zenon DEF Typed, SessionTyped, DataTyped, QueryTyped, FlagsTyped, ControllerTyped,
     SavedTyped, TypeOK, Records, Queries

-----------------------------------------------------------------------------
(* What is in flight.  The controller sends the next batch when the last   *)
(* one was handled, and its own state does not change before.              *)
Alone == {"start_success", "start_failure", "cleared", "live", "reject_end",
          "serial_push", "switch_success", "boot_active"}
Kinds == Alone \cup {"finished", "denom_start", "denom_data", "denom_end",
                     "serial_start", "serial_data", "serial_end"}
Line == [kind : Kinds, of : Owner \cup {Nobody}]

Fits(line, i) ==
  /\ line[i].kind \in Alone => Len(line) = 1
  /\ line[i].kind = "start_success" => counter = "started"
  /\ line[i].kind = "live" =>
       \/ line[i].of = Nobody /\ counter = "rejected"
       \/ line[i].of = current /\ counter = "accepted"
  /\ line[i].kind = "serial_push" => counter # "stopped" /\ line[i].of = current
  /\ line[i].kind = "finished" =>
       /\ i = 1 /\ counter = "stopped" /\ held \in {Nobody, current} /\ line[i].of = held
       /\ Len(line) >= 2 /\ line[i + 1].kind = "denom_start" /\ line[i + 1].of = held
  /\ line[i].kind = "denom_start" =>
       /\ line[i].of \in {held, Query} /\ i < Len(line) /\ line[i + 1].of = line[i].of
       /\ line[i + 1].kind = IF line[i].of = Nobody THEN "denom_end" ELSE "denom_data"
  /\ line[i].kind = "denom_data" =>
       /\ line[i].of \in {held, Query} /\ line[i].of # Nobody
       /\ i < Len(line) /\ line[i + 1].kind = "denom_end"
  /\ line[i].kind \in {"denom_start", "denom_data"} /\ line[i].of # Query =>
       counter = "stopped" /\ held \in {Nobody, current}
  /\ line[i].kind = "serial_start" =>
       /\ i < Len(line)
       /\ line[i + 1].kind = IF held = Nobody THEN "serial_end" ELSE "serial_data"
  /\ line[i].kind = "serial_data" =>
       /\ line[i].of = held /\ held # Nobody
       /\ i < Len(line) /\ line[i + 1].kind = "serial_end"
  /\ line[i].kind \in {"denom_end", "serial_end"} => i = Len(line)

InFlight == frames \in Seq(Line) /\ \A i \in 1 .. Len(frames) : Fits(frames, i)

At(kind) == frames # <<>> /\ frames[1].kind = kind

-----------------------------------------------------------------------------
(* The numbers of the sessions.  While the controller counts a session, or *)
(* its end is in flight, everything the panel holds is of an earlier one.  *)
InCount == counter # "stopped" \/ At("finished")
Tabling(kinds) == frames # <<>> /\ frames[1].kind \in kinds /\ frames[1].of # Query

Numbered ==
  /\ held <= current /\ totals <= current /\ history_record.of <= current
  /\ \A i \in 1 .. Len(saved) : saved[i].of <= current
Older ==
  InCount => /\ \A i \in 1 .. Len(saved) : saved[i].of < current
             /\ history_record.valid => history_record.of < current
Fresh ==
  /\ \A of \in denom \cup query.denom : of = Query \/ of <= current
  /\ InCount \/ Tabling({"denom_start"}) => current \notin denom \cup query.denom

(* What is in the store.                                                   *)
Kept ==
  \A j \in 1 .. Len(saved) :
    ~saved[j].disturbed => /\ saved[j].denom = {saved[j].of}
                           /\ saved[j].serials = {saved[j].of}
                           /\ \A i \in 1 .. Len(saved) : i < j => saved[i].of < saved[j].of

(* A record is there only of a finished session that counted something.    *)
Recorded == history_record.valid => phase = "finished" /\ history_record.of # Nobody

(* What the panel was told of the session: unless it lost a frame, the     *)
(* phase is the controller's and the totals are the session's.             *)
Told == (counter \in {"rejected", "accepted"} /\ ~At("live")) \/ At("finished")
Shown ==
  phase # "finished" /\ Told =>
    \/ totals = Nobody
    \/ totals = current /\ (counter = "accepted" \/ (At("finished") /\ frames[1].of = current))
InStep ==
  ~disturbed =>
    /\ phase = "active" => counter \in {"rejected", "accepted"} \/ At("finished")
    /\ phase = "finished" =>
         (counter = "stopped" \/ At("start_success")) /\ ~At("finished") /\ last_result_valid
    /\ phase = "idle" /\ ~last_result_valid => totals = Nobody
    /\ Tabling({"denom_start", "denom_data"}) => totals \in {Nobody, held}
    /\ Shown

(* The chain of details of a pending record, step by step.                 *)
ChainTable ==
  IF Tabling({"denom_start", "denom_data"})
    THEN ~history_record.end_seen /\ (At("denom_data") => denom = {})
    ELSE denom = {history_record.of}
ChainSerials ==
  IF history_record.end_seen
    THEN history_record.save_attempts < MaxAttempts =>
           serials = {history_record.of} /\ ~At("serial_data") /\ ~At("serial_end")
    ELSE /\ At("serial_data") => serials = {}
         /\ At("serial_end") => serials = {history_record.of}
Chain ==
  history_record.valid /\ ~disturbed =>
    /\ \A i \in 1 .. Len(saved) : saved[i].of < history_record.of
    /\ held = history_record.of \/ At("switch_success")
    /\ ChainTable
    /\ ChainSerials

CountInv ==
  /\ Typed /\ InFlight
  /\ Numbered /\ Older /\ Fresh /\ Kept /\ Recorded /\ InStep /\ Chain

-----------------------------------------------------------------------------
LEMMA TailFits ==
  ASSUME InFlight, frames # <<>>, frames' = Tail(frames), UNCHANGED controllerVars
  PROVE  /\ InFlight'
         /\ Len(frames') = Len(frames) - 1 /\ Len(frames) >= 1 /\ Head(frames) = frames[1]
         /\ \A i \in 1 .. Len(frames') : frames'[i] = frames[i + 1]
PROOF
  <1>1. /\ frames \in Seq(Line) /\ Len(frames) \in Nat /\ Len(frames) >= 1
        /\ frames' \in Seq(Line) /\ Len(frames') = Len(frames) - 1
        /\ Head(frames) = frames[1]
        /\ \A i \in 1 .. Len(frames') : frames'[i] = frames[i + 1]
    BY DEF InFlight
  <1>2. ASSUME NEW i \in 1 .. Len(frames')
        PROVE  Fits(frames, i)'
    <2> DEFINE k == i + 1
    <2>1. /\ k \in 1 .. Len(frames) /\ k # 1 /\ frames'[i] = frames[k]
          /\ i \in Nat /\ Len(frames) # 1
          /\ (k = Len(frames) <=> i = Len(frames'))
      BY <1>1
    <2>2. k < Len(frames) =>
            k \in 1 .. Len(frames') /\ i < Len(frames') /\ frames'[k] = frames[k + 1]
      BY <1>1
    <2>3. Fits(frames, k)
      BY <2>1 DEF InFlight
    <2>4. counter' = counter /\ held' = held /\ current' = current
      BY DEF controllerVars
    <2> HIDE DEF k
    <2>5. frames'[i + 1] = frames'[k]
      BY DEF k
    <2> QED
      BY <2>1, <2>2, <2>3, <2>4, <2>5 DEF Fits
  <1> QED
    BY <1>1, <1>2 DEF InFlight

(* What follows the frame that is handled.                                 *)
Follows ==
  /\ frames # <<>> /\ frames[1] \in Line
  /\ frames[1].kind \in Alone \cup {"denom_end", "serial_end"} => frames' = <<>>
  /\ frames[1].kind = "start_success" => counter = "started"
  /\ frames[1].kind = "live" =>
       \/ frames[1].of = Nobody /\ counter = "rejected"
       \/ frames[1].of = current /\ counter = "accepted"
  /\ frames[1].kind = "serial_push" => counter # "stopped" /\ frames[1].of = current
  /\ frames[1].kind = "finished" =>
       /\ counter = "stopped" /\ held \in {Nobody, current} /\ frames[1].of = held
       /\ frames' # <<>> /\ frames'[1].kind = "denom_start" /\ frames'[1].of = held
  /\ frames[1].kind \in {"denom_start", "denom_data"} =>
       /\ frames[1].of \in {held, Query}
       /\ frames[1].of # Query => counter = "stopped" /\ held \in {Nobody, current}
  /\ frames[1].kind = "denom_start" =>
       /\ frames' # <<>> /\ frames'[1].of = frames[1].of
       /\ frames'[1].kind = IF frames[1].of = Nobody THEN "denom_end" ELSE "denom_data"
  /\ frames[1].kind = "denom_data" =>
       frames[1].of # Nobody /\ frames' # <<>> /\ frames'[1].kind = "denom_end"
  /\ frames[1].kind = "serial_start" =>
       /\ frames' # <<>>
       /\ frames'[1].kind = IF held = Nobody THEN "serial_end" ELSE "serial_data"
  /\ frames[1].kind = "serial_data" =>
       /\ frames[1].of = held /\ held # Nobody
       /\ frames' # <<>> /\ frames'[1].kind = "serial_end"

LEMMA HeadHandled ==
  ASSUME InFlight, frames # <<>>, frames' = Tail(frames), UNCHANGED controllerVars
  PROVE  Follows
PROOF
  <1>1. /\ frames \in Seq(Line) /\ Len(frames) \in Nat /\ Len(frames) >= 1 /\ frames[1] \in Line
        /\ Len(frames') = Len(frames) - 1 /\ frames' \in Seq(Line)
        /\ \A i \in 1 .. Len(frames') : frames'[i] = frames[i + 1]
    BY DEF InFlight
  <1>2. Fits(frames, 1)
    BY <1>1 DEF InFlight
  <1>3. Len(frames) = 1 => frames' = <<>>
    BY <1>1
  <1>4. ASSUME Len(frames) > 1
        PROVE  frames' # <<>> /\ frames'[1] = frames[2]
    <2>1. Len(frames') >= 1
      BY <1>1, <1>4
    <2>2. 1 \in 1 .. Len(frames') /\ 1 + 1 = 2
      BY <1>1, <2>1
    <2>3. frames'[1] = frames[1 + 1]
      BY <1>1, <2>2, Zenon
    <2>4. frames' # <<>>
      BY <1>1, <2>1, EmptySeq
    <2>5. 1 + 1 = 2
      OBVIOUS
    <2> QED
      BY <2>3, <2>4, <2>5
  <1>5. 1 + 1 = 2 /\ (1 = Len(frames) => Len(frames) = 1)
    OBVIOUS
  <1> QED
    BY <1>1, <1>2, <1>3, <1>4, <1>5 DEF Fits, Follows

-----------------------------------------------------------------------------
(* Short sequences put together.                                          *)
LEMMA OneMore ==
  ASSUME NEW S, NEW line \in Seq(S), NEW last \in S
  PROVE  LET longer == line \o <<last>>
         IN  /\ longer \in Seq(S) /\ Len(longer) = Len(line) + 1
             /\ \A i \in 1 .. Len(line) : longer[i] = line[i]
             /\ longer[Len(line) + 1] = last
PROOF
  <1> DEFINE one == <<last>>
  <1>1. one \in Seq(S) /\ Len(one) = 1 /\ one[1] = last /\ Len(line) \in Nat
    OBVIOUS
  <1> HIDE DEF one
  <1>2. /\ line \o one \in Seq(S) /\ Len(line \o one) = Len(line) + 1
        /\ \A i \in 1 .. Len(line) : (line \o one)[i] = line[i]
        /\ (line \o one)[Len(line) + 1] = one[1]
    BY <1>1, ConcatProperties
  <1> QED
    BY <1>1, <1>2 DEF one

LEMMA Glue1 ==
  ASSUME NEW S, NEW a \in S, NEW b \in S
  PROVE  <<a>> \o <<b>> = <<a, b>>
PROOF
  <1> DEFINE line == <<a>>
             longer == line \o <<b>>
  <1>0. line \in Seq(S)
    OBVIOUS
  <1>1. Len(line) = 1 /\ line[1] = a
    OBVIOUS
  <1> HIDE DEF line
  <1>2. /\ longer \in Seq(S) /\ Len(longer) = Len(line) + 1 /\ longer[Len(line) + 1] = b
        /\ \A i \in 1 .. Len(line) : longer[i] = line[i]
    BY <1>0, OneMore
  <1> HIDE DEF longer
  <1>3. longer \in Seq(S) /\ Len(longer) = 2 /\ longer[1] = a /\ longer[2] = b
    BY <1>1, <1>2
  <1>4. longer = <<a, b>>
    BY <1>3
  <1> QED
    BY <1>4 DEF line, longer

LEMMA Glue2 ==
  ASSUME NEW S, NEW a \in S, NEW b \in S, NEW c \in S
  PROVE  <<a, b>> \o <<c>> = <<a, b, c>>
PROOF
  <1> DEFINE line == <<a, b>>
             longer == line \o <<c>>
  <1>0. line \in Seq(S)
    OBVIOUS
  <1>1. Len(line) = 2 /\ line[1] = a /\ line[2] = b
    OBVIOUS
  <1> HIDE DEF line
  <1>2. /\ longer \in Seq(S) /\ Len(longer) = Len(line) + 1 /\ longer[Len(line) + 1] = c
        /\ \A i \in 1 .. Len(line) : longer[i] = line[i]
    BY <1>0, OneMore
  <1> HIDE DEF longer
  <1>3. longer \in Seq(S) /\ Len(longer) = 3 /\ longer[1] = a /\ longer[2] = b /\ longer[3] = c
    BY <1>1, <1>2
  <1>4. longer = <<a, b, c>>
    BY <1>3
  <1> QED
    BY <1>4 DEF line, longer

LEMMA Glue3 ==
  ASSUME NEW S, NEW a \in S, NEW b \in S, NEW c \in S, NEW d \in S
  PROVE  <<a, b, c>> \o <<d>> = <<a, b, c, d>>
PROOF
  <1> DEFINE line == <<a, b, c>>
             longer == line \o <<d>>
  <1>0. line \in Seq(S)
    OBVIOUS
  <1>1. Len(line) = 3 /\ line[1] = a /\ line[2] = b /\ line[3] = c
    OBVIOUS
  <1> HIDE DEF line
  <1>2. /\ longer \in Seq(S) /\ Len(longer) = Len(line) + 1 /\ longer[Len(line) + 1] = d
        /\ \A i \in 1 .. Len(line) : longer[i] = line[i]
    BY <1>0, OneMore
  <1> HIDE DEF longer
  <1>3. /\ longer \in Seq(S) /\ Len(longer) = 4
        /\ longer[1] = a /\ longer[2] = b /\ longer[3] = c /\ longer[4] = d
    BY <1>1, <1>2
  <1>4. longer = <<a, b, c, d>>
    BY <1>3
  <1> QED
    BY <1>4 DEF line, longer

-----------------------------------------------------------------------------
(* The batches the controller sends.                                       *)
LEMMA AloneFits ==
  ASSUME NEW kind \in Alone, NEW of \in Owner \cup {Nobody}, frames' = <<Frame(kind, of)>>,
         kind = "start_success" => counter' = "started",
         kind = "live" => \/ of = Nobody /\ counter' = "rejected"
                          \/ of = current' /\ counter' = "accepted",
         kind = "serial_push" => counter' # "stopped" /\ of = current'
  PROVE  /\ InFlight' /\ frames' # <<>>
         /\ frames'[1].kind = kind /\ frames'[1].of = of
PROOF
  <1>1. Frame(kind, of) \in Line
    BY DEF Frame, Line, Kinds
  <1>2. /\ frames' \in Seq(Line) /\ Len(frames') = 1 /\ frames'[1] = Frame(kind, of)
        /\ frames' # <<>>
    BY <1>1
  <1>3. frames'[1].kind = kind /\ frames'[1].of = of
    BY <1>2 DEF Frame
  <1>4. Fits(frames, 1)'
    BY <1>2, <1>3 DEF Fits, Alone
  <1> QED
    BY <1>2, <1>3, <1>4 DEF InFlight

(* A table of somebody has rows.                                           *)
LEMMA TableIs ==
  ASSUME NEW start \in Kinds, NEW data \in Kinds, NEW end \in Kinds,
         NEW of \in Owner \cup {Nobody}
  PROVE  <<Frame(start, of)>> \o Rows(data, of) \o <<Frame(end, of)>>
           = IF of = Nobody THEN <<Frame(start, of), Frame(end, of)>>
                            ELSE <<Frame(start, of), Frame(data, of), Frame(end, of)>>
PROOF
  <1> DEFINE a == Frame(start, of)  b == Frame(data, of)  c == Frame(end, of)
  <1>1. a \in Line /\ b \in Line /\ c \in Line
    BY DEF Frame, Line
  <1> HIDE DEF a, b, c
  <1>2. /\ <<a>> \o <<c>> = <<a, c>> /\ <<a>> \o <<b>> = <<a, b>>
        /\ <<a, b>> \o <<c>> = <<a, b, c>>
    BY <1>1, Glue1, Glue2
  <1>3. <<a>> \in Seq(Line)
    BY <1>1
  <1>4. <<a>> \o <<>> = <<a>>
    BY <1>3, ConcatEmptySeq
  <1>5. CASE of = Nobody
    <2>1. Rows(data, of) = <<>>
      BY <1>5 DEF Rows
    <2> QED
      BY <1>2, <1>4, <1>5, <2>1, Zenon DEF a, c
  <1>6. CASE of # Nobody
    <2>1. Rows(data, of) = <<b>>
      BY <1>6 DEF Rows, b
    <2> QED
      BY <1>2, <1>6, <2>1, Zenon DEF a, b, c
  <1> QED
    BY <1>5, <1>6

LEMMA FinishIs ==
  ASSUME NEW of \in Owner \cup {Nobody}
  PROVE  <<Frame("finished", of), Frame("denom_start", of)>>
           \o Rows("denom_data", of) \o <<Frame("denom_end", of)>>
         = IF of = Nobody
             THEN <<Frame("finished", of), Frame("denom_start", of), Frame("denom_end", of)>>
             ELSE <<Frame("finished", of), Frame("denom_start", of),
                    Frame("denom_data", of), Frame("denom_end", of)>>
PROOF
  <1> DEFINE a == Frame("finished", of)  b == Frame("denom_start", of)
             c == Frame("denom_data", of)  d == Frame("denom_end", of)
  <1>1. a \in Line /\ b \in Line /\ c \in Line /\ d \in Line
    BY DEF Frame, Line, Kinds
  <1> HIDE DEF a, b, c, d
  <1>2. /\ <<a, b>> \o <<d>> = <<a, b, d>> /\ <<a, b>> \o <<c>> = <<a, b, c>>
        /\ <<a, b, c>> \o <<d>> = <<a, b, c, d>>
    BY <1>1, Glue2, Glue3
  <1>3. <<a, b>> \in Seq(Line)
    BY <1>1
  <1>4. <<a, b>> \o <<>> = <<a, b>>
    BY <1>3, ConcatEmptySeq
  <1>5. CASE of = Nobody
    <2>1. Rows("denom_data", of) = <<>>
      BY <1>5 DEF Rows
    <2> QED
      BY <1>2, <1>4, <1>5, <2>1, Zenon DEF a, b, d
  <1>6. CASE of # Nobody
    <2>1. Rows("denom_data", of) = <<c>>
      BY <1>6 DEF Rows, c
    <2> QED
      BY <1>2, <1>6, <2>1, Zenon DEF a, b, c, d
  <1> QED
    BY <1>5, <1>6

LEMMA FinishFits ==
  ASSUME NEW of \in {Nobody, current'}, of \in Owner \cup {Nobody},
         counter' = "stopped", held' = of,
         frames' = IF of = Nobody
             THEN <<Frame("finished", of), Frame("denom_start", of), Frame("denom_end", of)>>
             ELSE <<Frame("finished", of), Frame("denom_start", of),
                    Frame("denom_data", of), Frame("denom_end", of)>>
  PROVE  InFlight' /\ frames' # <<>> /\ frames'[1].kind = "finished" /\ frames'[1].of = of
PROOF
  <1>1. \A kind \in Kinds : Frame(kind, of) \in Line /\ Frame(kind, of).kind = kind
                            /\ Frame(kind, of).of = of
    BY DEF Frame, Line
  <1> DEFINE a == Frame("finished", of)  b == Frame("denom_start", of)
             c == Frame("denom_data", of)  d == Frame("denom_end", of)
  <1>2. /\ a \in Line /\ b \in Line /\ c \in Line /\ d \in Line
        /\ a.kind = "finished" /\ b.kind = "denom_start"
        /\ c.kind = "denom_data" /\ d.kind = "denom_end"
        /\ a.of = of /\ b.of = of /\ c.of = of /\ d.of = of
    BY <1>1 DEF Kinds
  <1>3. frames' = IF of = Nobody THEN <<a, b, d>> ELSE <<a, b, c, d>>
    BY Zenon DEF a, b, c, d
  <1> HIDE DEF a, b, c, d
  <1>4. CASE of = Nobody
    <2>1. /\ frames' \in Seq(Line) /\ Len(frames') = 3 /\ frames' # <<>>
          /\ frames'[1] = a /\ frames'[2] = b /\ frames'[3] = d
      BY <1>2, <1>3, <1>4
    <2>2. Fits(frames, 1)' /\ Fits(frames, 2)' /\ Fits(frames, 3)'
      BY <1>2, <1>4, <2>1 DEF Fits, Alone
    <2>3. \A i \in 1 .. Len(frames') : i = 1 \/ i = 2 \/ i = 3
      BY <2>1
    <2> QED
      BY <1>2, <2>1, <2>2, <2>3 DEF InFlight
  <1>5. CASE of # Nobody
    <2>1. /\ frames' \in Seq(Line) /\ Len(frames') = 4 /\ frames' # <<>>
          /\ frames'[1] = a /\ frames'[2] = b /\ frames'[3] = c /\ frames'[4] = d
      BY <1>2, <1>3, <1>5
    <2>2. Fits(frames, 1)' /\ Fits(frames, 2)' /\ Fits(frames, 3)' /\ Fits(frames, 4)'
      BY <1>2, <1>5, <2>1 DEF Fits, Alone
    <2>3. \A i \in 1 .. Len(frames') : i = 1 \/ i = 2 \/ i = 3 \/ i = 4
      BY <2>1
    <2> QED
      BY <1>2, <2>1, <2>2, <2>3 DEF InFlight
  <1> QED
    BY <1>4, <1>5

LEMMA QueryFits ==
  ASSUME frames' = <<Frame("denom_start", Query), Frame("denom_data", Query),
                     Frame("denom_end", Query)>>
  PROVE  /\ InFlight' /\ frames' # <<>>
         /\ frames'[1].kind = "denom_start" /\ frames'[1].of = Query
PROOF
  <1> DEFINE b == Frame("denom_start", Query)  c == Frame("denom_data", Query)
             d == Frame("denom_end", Query)
  <1>1. Query \in Owner \cup {Nobody} /\ Query # Nobody
    BY SessionAssumption DEF Query, Owner, Nobody
  <1>2. /\ b \in Line /\ c \in Line /\ d \in Line
        /\ b.kind = "denom_start" /\ c.kind = "denom_data" /\ d.kind = "denom_end"
        /\ b.of = Query /\ c.of = Query /\ d.of = Query
    BY <1>1 DEF Frame, Line, Kinds
  <1> HIDE DEF b, c, d
  <1>3. frames' = <<b, c, d>>
    BY Zenon DEF b, c, d
  <1>4. /\ frames' \in Seq(Line) /\ Len(frames') = 3 /\ frames' # <<>>
        /\ frames'[1] = b /\ frames'[2] = c /\ frames'[3] = d
    BY <1>2, <1>3
  <1>5. Fits(frames, 1)' /\ Fits(frames, 2)' /\ Fits(frames, 3)'
    BY <1>1, <1>2, <1>4 DEF Fits, Alone
  <1>6. \A i \in 1 .. Len(frames') : i = 1 \/ i = 2 \/ i = 3
    BY <1>4
  <1> QED
    BY <1>2, <1>4, <1>5, <1>6 DEF InFlight

LEMMA SerialFits ==
  ASSUME held \in Owner \cup {Nobody}, held' = held,
         frames' = IF held = Nobody
             THEN <<Frame("serial_start", held), Frame("serial_end", held)>>
             ELSE <<Frame("serial_start", held), Frame("serial_data", held),
                    Frame("serial_end", held)>>
  PROVE  InFlight' /\ frames' # <<>> /\ frames'[1].kind = "serial_start" /\ frames'[1].of = held
PROOF
  <1> DEFINE b == Frame("serial_start", held)  c == Frame("serial_data", held)
             d == Frame("serial_end", held)
  <1>2. /\ b \in Line /\ c \in Line /\ d \in Line
        /\ b.kind = "serial_start" /\ c.kind = "serial_data" /\ d.kind = "serial_end"
        /\ b.of = held /\ c.of = held /\ d.of = held
    BY DEF Frame, Line, Kinds
  <1>3. frames' = IF held = Nobody THEN <<b, d>> ELSE <<b, c, d>>
    BY Zenon DEF b, c, d
  <1> HIDE DEF b, c, d
  <1>4. CASE held = Nobody
    <2>1. /\ frames' \in Seq(Line) /\ Len(frames') = 2 /\ frames' # <<>>
          /\ frames'[1] = b /\ frames'[2] = d
      BY <1>2, <1>3, <1>4
    <2>2. Fits(frames, 1)' /\ Fits(frames, 2)'
      BY <1>2, <1>4, <2>1 DEF Fits, Alone
    <2>3. \A i \in 1 .. Len(frames') : i = 1 \/ i = 2
      BY <2>1
    <2> QED
      BY <1>2, <2>1, <2>2, <2>3 DEF InFlight
  <1>5. CASE held # Nobody
    <2>1. /\ frames' \in Seq(Line) /\ Len(frames') = 3 /\ frames' # <<>>
          /\ frames'[1] = b /\ frames'[2] = c /\ frames'[3] = d
      BY <1>2, <1>3, <1>5
    <2>2. Fits(frames, 1)' /\ Fits(frames, 2)' /\ Fits(frames, 3)'
      BY <1>2, <1>5, <2>1 DEF Fits, Alone
    <2>3. \A i \in 1 .. Len(frames') : i = 1 \/ i = 2 \/ i = 3
      BY <2>1
    <2> QED
      BY <1>2, <2>1, <2>2, <2>3 DEF InFlight
  <1> QED
    BY <1>4, <1>5

(* Each action of the controller, with what is in flight after it.         *)
Sends(kind, of) ==
  frames = <<>> /\ frames' # <<>> /\ frames'[1].kind = kind /\ frames'[1].of = of

LEMMA BeginsSends ==
  ASSUME Typed, Begins
  PROVE  InFlight' /\ Sends("start_success", Nobody)
PROOF
  <1>1. /\ counter' = "started" /\ frames = <<>>
        /\ frames' = <<Frame("start_success", Nobody)>>
    BY DEF Begins, Emit
  <1> QED
    BY <1>1, AloneFits DEF Alone, Sends

LEMMA ReportSends ==
  ASSUME Typed, Report
  PROVE  /\ InFlight' /\ current' = current
         /\ \/ counter' = "rejected" /\ Sends("live", Nobody) /\ counter = "started"
            \/ /\ counter' = "accepted" /\ Sends("live", current)
               /\ counter \in {"started", "rejected"}
PROOF
  <1>1. current \in Owner \cup {Nobody} /\ current' = current
    BY SessionAssumption DEF Report, Typed, ControllerTyped, Owner, Session, Nobody
  <1>2. CASE counter = "started" /\ counter' = "rejected" /\ Emit(<<Frame("live", Nobody)>>)
    BY <1>1, <1>2, AloneFits DEF Alone, Sends, Emit
  <1>3. CASE /\ counter \in {"started", "rejected"} /\ counter' = "accepted"
             /\ Emit(<<Frame("live", current)>>)
    BY <1>1, <1>3, AloneFits DEF Alone, Sends, Emit
  <1> QED
    BY <1>1, <1>2, <1>3 DEF Report

LEMMA PushSends ==
  ASSUME Typed, Push
  PROVE  InFlight' /\ Sends("serial_push", current) /\ UNCHANGED controllerVars
         /\ counter # "stopped"
PROOF
  <1>1. /\ current \in Owner \cup {Nobody} /\ UNCHANGED controllerVars
        /\ counter # "stopped" /\ counter' = counter /\ current' = current
        /\ frames = <<>> /\ frames' = <<Frame("serial_push", current)>>
    BY SessionAssumption DEF Push, Emit, Typed, ControllerTyped, Owner, Session, Nobody,
       controllerVars
  <1> QED
    BY <1>1, AloneFits DEF Alone, Sends

LEMMA FinishSends ==
  ASSUME Typed, Finish
  PROVE  /\ InFlight' /\ Sends("finished", held')
         /\ held' = IF counter = "accepted" THEN current ELSE Nobody
         /\ counter' = "stopped" /\ current' = current
PROOF
  <1>1. /\ held' = IF counter = "accepted" THEN current ELSE Nobody
        /\ counter' = "stopped" /\ current' = current /\ frames = <<>>
    BY DEF Finish, Emit
  <1>2. held' \in Owner \cup {Nobody} /\ held' \in {Nobody, current'}
    BY <1>1, SessionAssumption DEF Typed, ControllerTyped, Owner, Session, Nobody
  <1>3. frames' = <<Frame("finished", held'), Frame("denom_start", held')>>
                    \o Rows("denom_data", held') \o <<Frame("denom_end", held')>>
    BY DEF Finish, Emit
  <1>4. frames' = IF held' = Nobody
          THEN <<Frame("finished", held'), Frame("denom_start", held'),
                 Frame("denom_end", held')>>
          ELSE <<Frame("finished", held'), Frame("denom_start", held'),
                 Frame("denom_data", held'), Frame("denom_end", held')>>
    BY <1>2, <1>3, FinishIs, Zenon
  <1>5. InFlight' /\ frames' # <<>> /\ frames'[1].kind = "finished" /\ frames'[1].of = held'
    BY <1>1, <1>2, <1>4, FinishFits, Zenon
  <1> QED
    BY <1>1, <1>5, Zenon DEF Sends

(* An answer: the batch it sends, by the request it answers.               *)
LEMMA AnswerSends ==
  ASSUME Typed, Answer
  PROVE  /\ InFlight'
         /\ \/ Begins /\ UNCHANGED <<held, disturbed>>
            \/ /\ \/ Sends("start_failure", Nobody) \/ Sends("denom_start", Query)
                  \/ Sends("reject_end", Nobody) \/ Sends("serial_start", held)
               /\ UNCHANGED <<controllerVars, disturbed>>
            \/ /\ Sends("cleared", Nobody) /\ held' = Nobody /\ UNCHANGED <<counter, current>>
               /\ disturbed' = (disturbed \/ history_record.valid \/ counter # "stopped")
PROOF
  <1>1. Head(requests) # "clear" => disturbed' = disturbed
    BY DEF Answer, Typed, SavedTyped
  <1>2. held \in Owner \cup {Nobody}
    BY SessionAssumption DEF Typed, ControllerTyped, Owner, Session, Nobody
  <1>3. CASE Head(requests) = "start" /\ Begins /\ UNCHANGED held
    BY <1>1, <1>3, BeginsSends
  <1>4. CASE Head(requests) = "start" /\ Emit(<<Frame("start_failure", Nobody)>>)
             /\ UNCHANGED controllerVars
    BY <1>1, <1>4, AloneFits DEF Alone, Sends, Emit
  <1>5. CASE Head(requests) = "clear" /\ Emit(<<Frame("cleared", Nobody)>>)
             /\ held' = Nobody /\ UNCHANGED <<counter, current>>
    <2>1. disturbed' = (disturbed \/ history_record.valid \/ counter # "stopped")
      BY <1>5 DEF Answer
    <2> QED
      BY <1>5, <2>1, AloneFits DEF Alone, Sends, Emit
  <1>6. CASE Head(requests) = "query" /\ UNCHANGED controllerVars
             /\ Emit(<<Frame("denom_start", Query), Frame("denom_data", Query),
                       Frame("denom_end", Query)>>)
    BY <1>1, <1>6, QueryFits DEF Sends, Emit
  <1>7. CASE Head(requests) = "rejects" /\ Emit(<<Frame("reject_end", Nobody)>>)
             /\ UNCHANGED controllerVars
    BY <1>1, <1>7, AloneFits DEF Alone, Sends, Emit
  <1>8. CASE Head(requests) = "serials" /\ UNCHANGED controllerVars
             /\ Emit(<<Frame("serial_start", held)>> \o Rows("serial_data", held)
                     \o <<Frame("serial_end", held)>>)
    <2>1. frames' = IF held = Nobody
             THEN <<Frame("serial_start", held), Frame("serial_end", held)>>
             ELSE <<Frame("serial_start", held), Frame("serial_data", held),
                    Frame("serial_end", held)>>
      <3>1. "serial_start" \in Kinds /\ "serial_data" \in Kinds /\ "serial_end" \in Kinds
        BY DEF Kinds
      <3>2. frames' = <<Frame("serial_start", held)>> \o Rows("serial_data", held)
                        \o <<Frame("serial_end", held)>>
        BY <1>8, Zenon DEF Emit
      <3> QED
        BY <1>2, <3>1, <3>2, TableIs, Zenon
    <2>2. /\ InFlight' /\ frames' # <<>>
          /\ frames'[1].kind = "serial_start" /\ frames'[1].of = held
      BY <1>2, <1>8, <2>1, SerialFits, Zenon DEF controllerVars
    <2> QED
      BY <1>1, <1>8, <2>2 DEF Sends, Emit
  <1> QED
    BY <1>3, <1>4, <1>5, <1>6, <1>7, <1>8, Zenon DEF Answer

LEMMA CurrencySends ==
  ASSUME Typed, ReportCurrency
  PROVE  /\ InFlight'
         /\ \/ Sends("switch_success", Nobody) /\ counter = "stopped" /\ held' = Nobody
            \/ Sends("boot_active", Nobody) /\ held' = held
         /\ UNCHANGED <<counter, current, disturbed>>
  BY AloneFits DEF ReportCurrency, Alone, Sends, Emit, historyVars

-----------------------------------------------------------------------------
(* The handlers: the frame at the head leaves the line.                    *)
LEMMA Handled ==
  ASSUME InFlight, NEW kind, Handle(kind), UNCHANGED controllerVars
  PROVE  /\ InFlight' /\ Follows /\ frames[1].kind = kind /\ Of = frames[1].of
         /\ Of \in Owner \cup {Nobody}
PROOF
  <1>1. frames # <<>> /\ Head(frames).kind = kind /\ frames' = Tail(frames)
    BY DEF Handle
  <1>2. InFlight' /\ Head(frames) = frames[1]
    BY <1>1, TailFits
  <1>3. Follows
    BY <1>1, HeadHandled
  <1> QED
    BY <1>1, <1>2, <1>3 DEF Of, Follows, Line

(* A save that is due succeeds, or is counted as a failed attempt.         *)
LEMMA Committed ==
  ASSUME NEW record \in Records, SavedTyped, DataTyped, TryCommit(record)
  PROVE  /\ \/ history_record' = record /\ UNCHANGED saved /\ ~Ready(record)
            \/ /\ Ready(record) /\ history_record' = NoRecord
               /\ saved' = Append(saved, [of |-> record.of, denom |-> denom,
                                          serials |-> serials, disturbed |-> disturbed])
            \/ /\ Ready(record) /\ UNCHANGED saved
               /\ history_record' = [record EXCEPT !.save_attempts = @ + 1]
         /\ history_record' \in Records
         /\ saved' \in Seq(Entries)
PROOF
  <1>1. NoRecord \in Records
    BY SessionAssumption DEF NoRecord, Records
  <1>2. record.of \in Session \cup {Nobody} /\ record.save_attempts \in 0 .. MaxAttempts
    BY DEF Records
  <1>3. Ready(record) => [record EXCEPT !.save_attempts = @ + 1] \in Records
    BY <1>2, SessionAssumption DEF Ready, Records
  <1>4. Append(saved, [of |-> record.of, denom |-> denom, serials |-> serials,
                       disturbed |-> disturbed])
          \in Seq(Entries)
    BY <1>2 DEF SavedTyped, DataTyped, Entries
  <1> QED
    BY <1>1, <1>3, <1>4 DEF TryCommit, SavedTyped

LEMMA QueryParts ==
  ASSUME NEW q \in Queries, NEW retry \in 0 .. MaxRetry, NEW flag \in BOOLEAN,
         NEW other \in BOOLEAN, NEW table \in SUBSET Owner
  PROVE  /\ [q EXCEPT !.retry = retry] \in Queries
         /\ [q EXCEPT !.deferred = flag] \in Queries
         /\ [q EXCEPT !.denom = table] \in Queries
         /\ [q EXCEPT !.started = flag] \in Queries
         /\ [q EXCEPT !.pending = flag, !.started = other] \in Queries
         /\ [q EXCEPT !.started = flag, !.denom = table] \in Queries
         /\ [q EXCEPT !.pending = FALSE, !.started = FALSE, !.complete = flag, !.retry = retry]
              \in Queries
         /\ [q EXCEPT !.retry = retry, !.deferred = flag] \in Queries
         /\ Asking(q, flag) \in Queries
  BY DEF Queries, Asking

LEMMA PartsUnmoved ==
  ASSUME Typed
  PROVE  /\ UNCHANGED sessionVars => SessionTyped'
         /\ UNCHANGED dataVars => DataTyped'
         /\ UNCHANGED query => QueryTyped'
         /\ UNCHANGED <<wait_sn, actionVars, boot_ready>> => FlagsTyped'
         /\ UNCHANGED controllerVars => ControllerTyped'
         /\ UNCHANGED historyVars => SavedTyped'
PROOF
  <1>1. UNCHANGED sessionVars => SessionTyped'
    BY DEF Typed, SessionTyped, sessionVars
  <1>2. UNCHANGED dataVars => DataTyped'
    BY DEF Typed, DataTyped, dataVars
  <1>3. UNCHANGED query => QueryTyped'
    BY DEF Typed, QueryTyped
  <1>4. UNCHANGED <<wait_sn, actionVars, boot_ready>> => FlagsTyped'
    BY DEF Typed, FlagsTyped, actionVars
  <1>5. UNCHANGED controllerVars => ControllerTyped'
    BY DEF Typed, ControllerTyped, controllerVars
  <1>6. UNCHANGED historyVars => SavedTyped'
    BY DEF Typed, SavedTyped, historyVars
  <1> QED
    BY <1>1, <1>2, <1>3, <1>4, <1>5, <1>6

(* The types, action by action.                                            *)
LEMMA UserTyped ==
  ASSUME Typed, User
  PROVE  Typed'
PROOF
  <1>1. NoRecord \in Records
    BY SessionAssumption DEF NoRecord, Records
  <1>2. CASE PressStart
    BY <1>2, PartsUnmoved DEF Typed, PressStart, FlagsTyped, actionVars
  <1>3. CASE Clear
    <2>1. /\ totals' \in Session \cup {Nobody} /\ denom' \in SUBSET Owner
          /\ serials' \in SUBSET Session
      BY <1>3 DEF Clear, ResetData
    <2>2. start_pending' \in BOOLEAN /\ clear_pending' \in BOOLEAN
      BY <1>3 DEF Clear, RequestClear, SendClear, Typed, FlagsTyped
    <2>3. SessionTyped'
      BY <1>1, <1>3 DEF Clear, ResetSession, SessionTyped
    <2> QED
      BY <1>3, <2>1, <2>2, <2>3, PartsUnmoved DEF Typed, Clear, DataTyped, dataVars,
         FlagsTyped, actionVars
  <1> QED
    BY <1>2, <1>3 DEF User

LEMMA PollTyped ==
  ASSUME Typed, Poll
  PROVE  Typed'
PROOF
  <1>1. CASE StartTimesOut
    BY <1>1, PartsUnmoved DEF Typed, StartTimesOut, FlagsTyped, actionVars
  <1>2. CASE ClearTimesOut
    BY <1>2, PartsUnmoved DEF Typed, ClearTimesOut, FlagsTyped, actionVars
  <1>3. CASE BootEnds
    BY <1>3, PartsUnmoved DEF Typed, BootEnds, FlagsTyped, actionVars
  <1>4. CASE PollHistory
    <2>1. history_record \in Records /\ SavedTyped /\ DataTyped
      BY DEF Typed, SessionTyped
    <2>2. /\ history_record' \in Records
          /\ saved' \in Seq(Entries)
      BY <1>4, <2>1, Committed DEF PollHistory
    <2> QED
      BY <1>4, <2>2, PartsUnmoved DEF Typed, PollHistory, SessionTyped, sessionVars,
         SavedTyped, historyVars
  <1>5. CASE PollQuery
    <2>1. query \in Queries /\ query.retry \in 0 .. MaxRetry /\ 0 \in 0 .. MaxRetry
      BY SessionAssumption DEF Typed, QueryTyped, Queries
    <2>2. query.retry < MaxRetry => query.retry + 1 \in 0 .. MaxRetry
      BY <2>1, SessionAssumption
    <2>3. ASSUME NEW q \in Queries, SendQuery(q)
          PROVE  query' \in Queries
      BY <2>3, <2>1, QueryParts DEF SendQuery
    <2>4. ASSUME query.retry < MaxRetry, SendQuery([query EXCEPT !.retry = @ + 1])
          PROVE  query' \in Queries
      <3>1. [query EXCEPT !.retry = query.retry + 1] \in Queries
        BY <2>1, <2>2, <2>4, QueryParts
      <3> QED
        BY <2>3, <2>4, <3>1
    <2>5. /\ [query EXCEPT !.pending = FALSE, !.started = FALSE] \in Queries
          /\ [query EXCEPT !.deferred = FALSE] \in Queries
          /\ [query EXCEPT !.retry = 0] \in Queries
      BY <2>1, QueryParts
    <2>6. query' \in Queries
      BY <1>5, <2>3, <2>4, <2>5, Zenon DEF PollQuery
    <2> QED
      BY <1>5, <2>6, PartsUnmoved DEF Typed, PollQuery, QueryTyped, FlagsTyped, actionVars
  <1> QED
    BY <1>1, <1>2, <1>3, <1>4, <1>5 DEF Poll

LEMMA ControllerKeepsTypes ==
  ASSUME Typed, Controller
  PROVE  Typed'
PROOF
  <1>1. UNCHANGED <<sessionVars, dataVars, query, wait_sn, actionVars, boot_ready, saved>>
    BY DEF Controller, FeedNotes, Report, Push, Finish, Answer, ReportCurrency, Lose,
       PanelUnchanged, historyVars
  <1>2. disturbed' \in BOOLEAN
    BY DEF Controller, FeedNotes, Report, Push, Finish, Answer, ReportCurrency, Lose,
       historyVars, Typed, SavedTyped, SessionTyped, Records
  <1>3. ControllerTyped'
    <2>1. 0 \in 0 .. MaxSession /\ MaxSession \in Nat
      BY SessionAssumption
    <2>2. ASSUME Begins, held' = held PROVE ControllerTyped'
      BY <2>1, <2>2 DEF Begins, Typed, ControllerTyped, Nobody
    <2>3. CASE FeedNotes \/ Report \/ Push
      BY <2>1, <2>2, <2>3 DEF FeedNotes, Report, Push, controllerVars, Typed, ControllerTyped,
         Nobody
    <2>4. CASE Finish
      BY <2>1, <2>4 DEF Finish, Typed, ControllerTyped, Nobody
    <2>5. CASE Answer
      <3>1. \/ Begins /\ held' = held
            \/ UNCHANGED controllerVars
            \/ held' = Nobody /\ UNCHANGED <<counter, current>>
        BY <2>5 DEF Answer
      <3> QED
        BY <2>1, <2>2, <3>1 DEF controllerVars, Typed, ControllerTyped, Nobody
    <2>6. CASE ReportCurrency \/ Lose
      BY <2>1, <2>6 DEF ReportCurrency, Lose, controllerVars, Typed, ControllerTyped, Nobody
    <2> QED
      BY <2>3, <2>4, <2>5, <2>6 DEF Controller
  <1> QED
    BY <1>1, <1>2, <1>3, PartsUnmoved DEF Typed, SavedTyped, FlagsTyped, actionVars

LEMMA FrameTyped ==
  ASSUME Typed, InFlight, HandleFrame
  PROVE  Typed'
PROOF
  <1>1. NoRecord \in Records
    BY SessionAssumption DEF NoRecord, Records
  <1>2. UNCHANGED <<boot_ready, controllerVars>>
    BY DEF HandleFrame, HandleStartSuccess, HandleStartFailure, HandleCleared,
       HandleLive, HandleFinished, HandleDenomStart, HandleDenomData, HandleQueryEnd,
       HandleSessionEnd, HandleRejectEnd, HandleSerialStart, HandleSerialData,
       HandlePush, HandleSerialEnd, HandleSwitchSuccess, HandleBootActive
  <1>3. ASSUME NEW kind, Handle(kind)
        PROVE  /\ Follows /\ frames[1].kind = kind
               /\ Of = frames[1].of /\ Of \in Owner \cup {Nobody}
    BY <1>2, <1>3, Handled
  <1>4. CASE HandleStartSuccess
    BY <1>1, <1>4, PartsUnmoved DEF Typed, HandleStartSuccess, SessionTyped,
       sessionVars, FlagsTyped, actionVars
  <1>5. CASE HandleStartFailure
    BY <1>5, PartsUnmoved DEF Typed, HandleStartFailure, FlagsTyped, actionVars
  <1>6. CASE HandleCleared
    BY <1>6, PartsUnmoved DEF Typed, HandleCleared, FlagsTyped, actionVars
  <1>7. CASE HandleLive
    <2>1. Of \in Session \cup {Nobody}
      BY <1>3, <1>7 DEF HandleLive, Follows, Typed, ControllerTyped, Session, Nobody
    <2> QED
      BY <1>7, <2>1, PartsUnmoved DEF Typed, HandleLive, LiveTotals, SessionTyped,
         sessionVars, DataTyped, dataVars, SavedTyped, historyVars, FlagsTyped,
         actionVars
  <1>8. CASE HandleFinished
    <2>1. Of \in Session \cup {Nobody}
      BY <1>3, <1>8 DEF HandleFinished, Follows, Typed, ControllerTyped, Session, Nobody
    <2>2. SessionTyped' /\ saved' \in Seq(Entries)
      <3>1. CASE phase = "finished"
        BY <1>8, <3>1 DEF HandleFinished, sessionVars, Typed, SessionTyped, SavedTyped
      <3>2. CASE phase # "finished"
        <4> DEFINE final == IF totals # Nobody THEN totals ELSE Of
                   record == [NoRecord EXCEPT !.valid = final # Nobody, !.of = final]
        <4>1. phase' = "finished" /\ end_anim_wait_detail' = TRUE /\ last_result_valid' = TRUE
              /\ TryCommit(record)
          BY <1>8, <3>2 DEF HandleFinished
        <4>2. record \in Records
          BY <1>1, <2>1 DEF Typed, DataTyped, Records
        <4> HIDE DEF record
        <4> QED
          BY <4>1, <4>2, Committed DEF Typed, SessionTyped
      <3> QED
        BY <3>1, <3>2
    <2> QED
      BY <1>8, <2>2, PartsUnmoved DEF Typed, HandleFinished, SavedTyped, historyVars,
         FlagsTyped, actionVars
  <1>9. CASE HandleDenomStart
    <2>1. query' \in Queries /\ denom' \in SUBSET Owner /\ disturbed' \in BOOLEAN
      BY <1>9 DEF HandleDenomStart, Typed, DataTyped, QueryTyped, Queries, SavedTyped
    <2> QED
      BY <1>9, <2>1, PartsUnmoved DEF Typed, HandleDenomStart, QueryTyped, DataTyped,
         dataVars, SavedTyped, historyVars, FlagsTyped, actionVars
  <1>10. CASE HandleDenomData
    <2>1. Of \in Owner
      BY <1>3, <1>10 DEF HandleDenomData, Follows
    <2>2. denom' \in SUBSET Owner /\ disturbed' \in BOOLEAN
      BY <1>10, <2>1 DEF HandleDenomData, Typed, DataTyped, SavedTyped
    <2>3. query.denom \cup {Of} \in SUBSET Owner /\ query \in Queries
      BY <2>1 DEF Typed, QueryTyped, Queries
    <2>4. [query EXCEPT !.denom = query.denom \cup {Of}] \in Queries
      BY <2>3 DEF Queries
    <2>5. query' \in Queries
      BY <1>10, <2>3, <2>4 DEF HandleDenomData
    <2> QED
      BY <1>10, <2>2, <2>5, PartsUnmoved DEF Typed, HandleDenomData, QueryTyped,
         DataTyped, dataVars, SavedTyped, historyVars, FlagsTyped, actionVars
  <1>11. CASE HandleQueryEnd
    <2>1. query \in Queries /\ query.retry \in 0 .. MaxRetry /\ 0 \in 0 .. MaxRetry
          /\ query.denom \in SUBSET Owner /\ query.started \in BOOLEAN
      BY SessionAssumption DEF Typed, QueryTyped, Queries
    <2>2. denom' \in SUBSET Owner /\ disturbed' \in BOOLEAN
      BY <1>11, <2>1 DEF HandleQueryEnd, Typed, DataTyped, SavedTyped
    <2> DEFINE retry == IF query.started THEN 0 ELSE query.retry
    <2>3. retry \in 0 .. MaxRetry
      BY <2>1
    <2>4. query' = [query EXCEPT !.pending = FALSE, !.started = FALSE,
                                 !.complete = query.started, !.retry = retry]
      BY <1>11 DEF HandleQueryEnd
    <2> HIDE DEF retry
    <2>5. query' \in Queries
      BY <2>1, <2>3, <2>4, QueryParts
    <2> QED
      BY <1>11, <2>2, <2>5, PartsUnmoved DEF Typed, HandleQueryEnd, QueryTyped,
         DataTyped, dataVars, SavedTyped, historyVars, FlagsTyped, actionVars
  <1>12. CASE HandleSessionEnd
    <2>1. query' \in Queries /\ disturbed' \in BOOLEAN
      BY <1>12 DEF HandleSessionEnd, Typed, QueryTyped, Queries, SavedTyped
    <2> QED
      BY <1>12, <2>1, PartsUnmoved DEF Typed, HandleSessionEnd, AskForRejects,
         QueryTyped, SavedTyped, historyVars, FlagsTyped, actionVars
  <1>13. CASE HandleRejectEnd
    BY <1>13, PartsUnmoved DEF Typed, HandleRejectEnd, FlagsTyped, actionVars
  <1>14. CASE HandleSerialStart
    <2>1. disturbed' \in BOOLEAN
      BY <1>14 DEF HandleSerialStart, Typed, SavedTyped
    <2> QED
      BY <1>14, <2>1, PartsUnmoved DEF Typed, HandleSerialStart, DataTyped, dataVars,
         SavedTyped, historyVars, FlagsTyped, actionVars
  <1>15. CASE HandleSerialData
    <2>1. Of \in Session
      BY <1>3, <1>15 DEF HandleSerialData, Follows, Typed, ControllerTyped, Session, Nobody
    <2> QED
      BY <1>15, <2>1, PartsUnmoved DEF Typed, HandleSerialData, DataTyped, dataVars,
         FlagsTyped, actionVars
  <1>15a. CASE HandlePush
    <2>1. Of \in Session
      BY <1>3, <1>15a DEF HandlePush, Follows, Typed, ControllerTyped, Session, Nobody, Owner
    <2> QED
      BY <1>15a, <2>1, PartsUnmoved DEF Typed, HandlePush, DataTyped, dataVars,
         FlagsTyped, actionVars
  <1>16. CASE HandleSerialEnd
    <2> DEFINE record == [history_record EXCEPT !.end_seen = TRUE]
    <2>1. record \in Records /\ SavedTyped /\ DataTyped
      BY DEF Typed, SessionTyped, Records
    <2>2. TryCommit(record)
      BY <1>16 DEF HandleSerialEnd
    <2> HIDE DEF record
    <2>3. /\ history_record' \in Records
          /\ saved' \in Seq(Entries)
      BY <2>1, <2>2, Committed
    <2> QED
      BY <1>16, <2>3, PartsUnmoved DEF Typed, HandleSerialEnd, SessionTyped,
         sessionVars, SavedTyped, historyVars, FlagsTyped, actionVars
  <1>17. ASSUME ResetSession, ResetData, NEW asked \in BOOLEAN, query' = Triggered(asked)
         PROVE  SessionTyped' /\ DataTyped' /\ QueryTyped'
    <2>1. SessionTyped' /\ DataTyped'
      BY <1>1, <1>17 DEF ResetSession, SessionTyped, ResetData, DataTyped
    <2>2. query \in Queries /\ 0 \in 0 .. MaxRetry /\ {} \in SUBSET Owner
      BY SessionAssumption DEF Typed, QueryTyped
    <2> DEFINE asking == Asking(query, asked)
               deferred == ~boot_ready
    <2>5. asking \in Queries /\ deferred \in BOOLEAN
      BY <2>2, QueryParts DEF Typed, FlagsTyped
    <2>6. Triggered(asked) = [asking EXCEPT !.retry = 0, !.deferred = deferred]
      BY DEF Triggered
    <2> HIDE DEF asking, deferred
    <2>3. Triggered(asked) \in Queries
      BY <2>2, <2>5, <2>6 DEF Queries
    <2>4. QueryTyped'
      BY <1>17, <2>3 DEF QueryTyped
    <2> QED
      BY <2>1, <2>4
  <1>18. CASE HandleSwitchSuccess
    <2>1. SessionTyped' /\ DataTyped' /\ QueryTyped'
      BY <1>17, <1>18 DEF HandleSwitchSuccess, Typed, FlagsTyped
    <2> QED
      BY <1>18, <2>1 DEF Typed, FlagsTyped, ControllerTyped, SavedTyped,
         HandleSwitchSuccess, controllerVars, historyVars
  <1>19. CASE HandleBootActive
    <2>1. SessionTyped' /\ DataTyped' /\ QueryTyped'
      BY <1>17, <1>19 DEF HandleBootActive, Typed, FlagsTyped
    <2> QED
      BY <1>19, <2>1 DEF Typed, FlagsTyped, ControllerTyped, SavedTyped,
         HandleBootActive, actionVars, controllerVars, historyVars
  <1> QED
    BY <1>4, <1>5, <1>6, <1>7, <1>8, <1>9, <1>10, <1>11, <1>12, <1>13, <1>14, <1>15, <1>15a, <1>16,
       <1>18, <1>19 DEF HandleFrame

-----------------------------------------------------------------------------
(* The rest of the invariant, and the numbers in it.                       *)
Details == Numbered /\ Older /\ Fresh /\ Kept /\ Recorded /\ InStep /\ Chain

LEMMA Numbers ==
  ASSUME Typed
  PROVE  /\ current \in Nat /\ held \in Nat /\ totals \in Nat /\ history_record.of \in Nat
         /\ \A i \in 1 .. Len(saved) : saved[i].of \in Nat
         /\ \A of \in denom \cup query.denom : of \in Nat
         /\ Query \in Nat /\ current < Query /\ held < Query /\ Nobody = 0 /\ Query # Nobody
         /\ \A of \in denom : of # Nobody
         /\ Len(saved) \in Nat /\ MaxAttempts \in Nat
PROOF
  <1>1. MaxSession \in Nat /\ Nobody = 0 /\ Query = MaxSession + 1 /\ MaxAttempts \in Nat
    BY SessionAssumption DEF Nobody, Query
  <1>2. /\ \A of \in Owner : of \in Nat /\ of # 0
        /\ \A of \in Session \cup {Nobody} : of \in Nat
    BY <1>1 DEF Owner, Session
  <1>3. denom \in SUBSET Owner /\ query.denom \in SUBSET Owner
    BY DEF Typed, DataTyped, QueryTyped, Queries
  <1>4. totals \in Nat /\ history_record.of \in Nat
    BY <1>2 DEF Typed, DataTyped, SessionTyped, Records
  <1>5. current \in Nat /\ held \in Nat /\ current < Query /\ held < Query
    BY <1>1 DEF Typed, ControllerTyped
  <1>6. Len(saved) \in Nat /\ \A i \in 1 .. Len(saved) : saved[i].of \in Nat
    <2>1. saved \in Seq(Entries)
      BY DEF Typed, SavedTyped
    <2>2. Len(saved) \in Nat /\ \A i \in 1 .. Len(saved) : saved[i] \in Entries
      BY <2>1
    <2> QED
      BY <1>2, <2>2 DEF Entries
  <1> QED
    BY <1>1, <1>2, <1>3, <1>4, <1>5, <1>6

(* Only the report of the end starts a table of a session.                 *)
NextHead ==
  frames' # <<>> =>
    /\ frames'[1].kind \notin {"finished", "live", "start_success", "switch_success"}
    /\ frames'[1].kind = "denom_start" => frames[1].kind = "finished"
    /\ frames'[1].kind = "denom_data" =>
         frames[1].kind = "denom_start" /\ frames'[1].of = frames[1].of

LEMMA NextHeadIs ==
  ASSUME Follows
  PROVE  NextHead
  BY DEF Follows, NextHead, Line, Kinds, Alone

shownVars == <<phase, last_result_valid, history_record, totals, denom, serials>>
coreVars == <<shownVars, frames, controllerVars, saved, disturbed>>

(* A step that touches none of this, and the polls that do not.            *)
LEMMA LineUnmoved ==
  ASSUME InFlight, frames' = frames, UNCHANGED controllerVars
  PROVE  InFlight'
  BY DEF InFlight, Fits, controllerVars

LEMMA CoreUnmoved ==
  ASSUME Details, UNCHANGED coreVars, query.denom' = query.denom
  PROVE  Details'
PROOF
  <1>1. UNCHANGED <<phase, last_result_valid, history_record, totals, denom, serials, frames,
                   counter, current, held, saved, disturbed>>
    BY DEF coreVars, shownVars, controllerVars
  <1>2. Numbered'
    BY <1>1 DEF Details, Numbered
  <1>3. Older'
    BY <1>1 DEF Details, Older, InCount, At, Numbered
  <1>4. Fresh'
    BY <1>1 DEF Details, Fresh, InCount, At, Tabling
  <1>5. Kept'
    BY <1>1 DEF Details, Kept
  <1>6. Recorded'
    BY <1>1 DEF Details, Recorded
  <1>7. InStep'
    BY <1>1 DEF Details, InStep, Shown, Told, Tabling, At
  <1>8. Chain'
    BY <1>1 DEF Details, Chain, ChainTable, ChainSerials, Tabling, At, Recorded
  <1> QED
    BY <1>2, <1>3, <1>4, <1>5, <1>6, <1>7, <1>8 DEF Details

(* Frames that end a batch and leave the rest alone.                       *)
LEMMA ReplyHandled ==
  ASSUME Typed, InFlight, Details,
         NEW kind \in {"start_failure", "cleared", "reject_end", "denom_end"}, Handle(kind),
         query.denom' = query.denom,
         UNCHANGED <<shownVars, controllerVars, saved>>,
         ~disturbed' => ~disturbed
  PROVE  Details'
PROOF
  <1>1. UNCHANGED <<phase, last_result_valid, history_record, totals, denom, serials,
                   counter, current, held, saved>>
    BY DEF shownVars, controllerVars
  <1>2. frames # <<>> /\ frames[1].kind = kind /\ frames' = <<>>
    BY Handled DEF Follows, Alone
  <1>3. Numbered'
    BY <1>1, <1>2, Numbers DEF Details, Numbered
  <1>4. Older'
    BY <1>1, <1>2, Numbers DEF Details, Older, InCount, At, Numbered
  <1>5. Fresh'
    BY <1>1, <1>2, Numbers DEF Details, Fresh, InCount, At, Tabling
  <1>6. Kept'
    BY <1>1, <1>2 DEF Details, Kept
  <1>7. Recorded'
    BY <1>1, <1>2 DEF Details, Recorded
  <1>8. InStep'
    BY <1>1, <1>2, Numbers DEF Details, InStep, Shown, Told, Tabling, At
  <1>9. Chain'
    BY <1>1, <1>2, Numbers DEF Details, Chain, ChainTable, ChainSerials, Tabling, At,
       Recorded
  <1> QED
    BY <1>3, <1>4, <1>5, <1>6, <1>7, <1>8, <1>9 DEF Details

(* Batches that say nothing of a session.                                  *)
LEMMA ReplySent ==
  ASSUME Typed, Details, NEW kind, NEW of, Sends(kind, of), query.denom' = query.denom,
         UNCHANGED <<shownVars, controllerVars, saved, disturbed>>,
         \/ kind \in {"start_failure", "reject_end", "serial_start"}
         \/ kind = "serial_push" /\ counter # "stopped"
         \/ kind = "denom_start" /\ of = Query
  PROVE  Details'
PROOF
  <1>1. UNCHANGED <<phase, last_result_valid, history_record, totals, denom, serials,
                   counter, current, held, saved, disturbed>>
    BY DEF shownVars, controllerVars
  <1>2. frames = <<>> /\ frames' # <<>> /\ frames'[1].kind = kind /\ frames'[1].of = of
    BY DEF Sends
  <1>3. Numbered'
    BY <1>1, <1>2, Numbers DEF Details, Numbered
  <1>4. Older'
    BY <1>1, <1>2, Numbers DEF Details, Older, InCount, At, Numbered
  <1>5. Fresh'
    BY <1>1, <1>2, Numbers DEF Details, Fresh, InCount, At, Tabling
  <1>6. Kept'
    BY <1>1, <1>2 DEF Details, Kept
  <1>7. Recorded'
    BY <1>1, <1>2 DEF Details, Recorded
  <1>8. InStep'
    BY <1>1, <1>2, Numbers DEF Details, InStep, Shown, Told, Tabling, At
  <1>9. Chain'
    BY <1>1, <1>2, Numbers DEF Details, Chain, ChainTable, ChainSerials, Tabling, At,
       Recorded
  <1> QED
    BY <1>3, <1>4, <1>5, <1>6, <1>7, <1>8, <1>9 DEF Details

(* The controller forgets the session it holds.                            *)
LEMMA ClearedSent ==
  ASSUME Typed, Details, Sends("cleared", Nobody), query.denom' = query.denom,
         UNCHANGED <<shownVars, counter, current, saved>>, held' = Nobody,
         disturbed' = (disturbed \/ history_record.valid \/ counter # "stopped")
  PROVE  Details'
PROOF
  <1>1. UNCHANGED <<phase, last_result_valid, history_record, totals, denom, serials,
                   counter, current, saved>>
    BY DEF shownVars, controllerVars
  <1>2. frames = <<>> /\ frames' # <<>> /\ frames'[1].kind = "cleared"
    BY DEF Sends
  <1>3. Numbered'
    BY <1>1, <1>2, Numbers DEF Details, Numbered
  <1>4. Older'
    BY <1>1, <1>2, Numbers DEF Details, Older, InCount, At, Numbered
  <1>5. Fresh'
    BY <1>1, <1>2, Numbers DEF Details, Fresh, InCount, At, Tabling
  <1>6. Kept'
    BY <1>1, <1>2 DEF Details, Kept
  <1>7. Recorded'
    BY <1>1, <1>2 DEF Details, Recorded
  <1>8. InStep'
    BY <1>1, <1>2, Numbers DEF Details, InStep, Shown, Told, Tabling, At
  <1>9. Chain'
    BY <1>1, <1>2, Numbers DEF Details, Chain, ChainTable, ChainSerials, Tabling, At,
       Recorded
  <1> QED
    BY <1>3, <1>4, <1>5, <1>6, <1>7, <1>8, <1>9 DEF Details

(* A currency change or the boot report: only between sessions.            *)
LEMMA CurrencySent ==
  ASSUME Typed, Details, query.denom' = query.denom,
         UNCHANGED <<shownVars, counter, current, saved, disturbed>>,
         \/ Sends("switch_success", Nobody) /\ counter = "stopped" /\ held' = Nobody
         \/ Sends("boot_active", Nobody) /\ held' = held
  PROVE  Details'
PROOF
  <1>1. UNCHANGED <<phase, last_result_valid, history_record, totals, denom, serials,
                   counter, current, saved, disturbed>>
    BY DEF shownVars, controllerVars
  <1>2. /\ frames = <<>> /\ frames' # <<>>
        /\ \/ frames'[1].kind = "switch_success" /\ counter = "stopped" /\ held' = Nobody
           \/ frames'[1].kind = "boot_active" /\ held' = held
    BY DEF Sends
  <1>3. Numbered'
    BY <1>1, <1>2, Numbers DEF Details, Numbered
  <1>4. Older'
    BY <1>1, <1>2, Numbers DEF Details, Older, InCount, At, Numbered
  <1>5. Fresh'
    BY <1>1, <1>2, Numbers DEF Details, Fresh, InCount, At, Tabling
  <1>6. Kept'
    BY <1>1, <1>2 DEF Details, Kept
  <1>7. Recorded'
    BY <1>1, <1>2 DEF Details, Recorded
  <1>8. InStep'
    BY <1>1, <1>2, Numbers DEF Details, InStep, Shown, Told, Tabling, At
  <1>9. Chain'
    BY <1>1, <1>2, Numbers DEF Details, Chain, ChainTable, ChainSerials, Tabling, At,
       Recorded
  <1> QED
    BY <1>3, <1>4, <1>5, <1>6, <1>7, <1>8, <1>9 DEF Details

(* A new session: its number is above all that is held or saved.           *)
LEMMA SessionBegins ==
  ASSUME Typed, Details, Begins, UNCHANGED <<shownVars, held, saved, disturbed>>,
         query.denom' = query.denom
  PROVE  Details'
PROOF
  <1>1. UNCHANGED <<phase, last_result_valid, history_record, totals, denom, serials,
                   held, saved, disturbed>>
    BY DEF shownVars, controllerVars
  <1>2. /\ counter = "stopped" /\ counter' = "started" /\ current' = current + 1
        /\ frames = <<>> /\ frames' # <<>> /\ frames'[1].kind = "start_success"
    BY BeginsSends DEF Begins, Sends
  <1>3. current + 1 < Query /\ current + 1 # Query
    BY SessionAssumption DEF Begins, Typed, ControllerTyped, Query
  <1>4. Numbered'
    BY <1>1, <1>2, <1>3, Numbers DEF Details, Numbered
  <1>5. Older'
    BY <1>1, <1>2, <1>3, Numbers DEF Details, Older, InCount, At, Numbered
  <1>6. Fresh'
    BY <1>1, <1>2, <1>3, Numbers DEF Details, Fresh, InCount, At, Tabling
  <1>7. Kept'
    BY <1>1, <1>2, <1>3 DEF Details, Kept
  <1>8. Recorded'
    BY <1>1, <1>2, <1>3 DEF Details, Recorded
  <1>9. InStep'
    BY <1>1, <1>2, <1>3, Numbers DEF Details, InStep, Shown, Told, Tabling, At
  <1>10. Chain'
    BY <1>1, <1>2, <1>3, Numbers DEF Details, Chain, ChainTable, ChainSerials, Tabling,
       At, Recorded
  <1> QED
    BY <1>4, <1>5, <1>6, <1>7, <1>8, <1>9, <1>10 DEF Details

(* A report says what the controller counts.                               *)
LEMMA SessionReported ==
  ASSUME Typed, Details, UNCHANGED <<shownVars, current, held, saved, disturbed>>,
         query.denom' = query.denom,
         \/ counter' = "rejected" /\ Sends("live", Nobody) /\ counter = "started"
         \/ /\ counter' = "accepted" /\ Sends("live", current)
            /\ counter \in {"started", "rejected"}
  PROVE  Details'
PROOF
  <1>1. UNCHANGED <<phase, last_result_valid, history_record, totals, denom, serials,
                   current, held, saved, disturbed>>
    BY DEF shownVars, controllerVars
  <1>2. /\ counter \in {"started", "rejected"} /\ counter' \in {"rejected", "accepted"}
        /\ frames = <<>> /\ frames' # <<>> /\ frames'[1].kind = "live"
    BY DEF Sends
  <1>3. Numbered'
    BY <1>1, <1>2, Numbers DEF Details, Numbered
  <1>4. Older'
    BY <1>1, <1>2, Numbers DEF Details, Older, InCount, At, Numbered
  <1>5. Fresh'
    BY <1>1, <1>2, Numbers DEF Details, Fresh, InCount, At, Tabling
  <1>6. Kept'
    BY <1>1, <1>2 DEF Details, Kept
  <1>7. Recorded'
    BY <1>1, <1>2 DEF Details, Recorded
  <1>8. InStep'
    BY <1>1, <1>2, Numbers DEF Details, InStep, Shown, Told, Tabling, At
  <1>9. Chain'
    BY <1>1, <1>2, Numbers DEF Details, Chain, ChainTable, ChainSerials, Tabling, At,
       Recorded
  <1> QED
    BY <1>3, <1>4, <1>5, <1>6, <1>7, <1>8, <1>9 DEF Details

(* The end of a session, with its details to follow.                       *)
LEMMA SessionEnds ==
  ASSUME Typed, Details, UNCHANGED <<shownVars, current, saved, disturbed>>,
         query.denom' = query.denom, Sends("finished", held'),
         counter \in {"rejected", "accepted"}, counter' = "stopped",
         held' = IF counter = "accepted" THEN current ELSE Nobody
  PROVE  Details'
PROOF
  <1>1. UNCHANGED <<phase, last_result_valid, history_record, totals, denom, serials,
                   current, saved, disturbed>>
    BY DEF shownVars, controllerVars
  <1>2. frames = <<>> /\ frames' # <<>> /\ frames'[1].kind = "finished" /\ frames'[1].of = held'
    BY DEF Sends
  <1>3. Numbered'
    BY <1>1, <1>2, Numbers DEF Details, Numbered
  <1>4. Older'
    BY <1>1, <1>2, Numbers DEF Details, Older, InCount, At, Numbered
  <1>5. Fresh'
    BY <1>1, <1>2, Numbers DEF Details, Fresh, InCount, At, Tabling
  <1>6. Kept'
    BY <1>1, <1>2 DEF Details, Kept
  <1>7. Recorded'
    BY <1>1, <1>2 DEF Details, Recorded
  <1>8. InStep'
    BY <1>1, <1>2, Numbers DEF Details, InStep, Shown, Told, Tabling, At
  <1>9. Chain'
    BY <1>1, <1>2, Numbers DEF Details, Chain, Recorded, InStep, At
  <1> QED
    BY <1>3, <1>4, <1>5, <1>6, <1>7, <1>8, <1>9 DEF Details

(* A loss is remembered, so that only the order of the numbers matters.    *)
LEMMA FrameLost ==
  ASSUME Typed, InFlight, Details, query.denom' = query.denom, disturbed' = TRUE,
         UNCHANGED <<shownVars, controllerVars, saved>>,
         frames' = frames \/ (frames # <<>> /\ frames' = Tail(frames))
  PROVE  Details'
PROOF
  <1>1. UNCHANGED <<phase, last_result_valid, history_record, totals, denom, serials,
                   counter, current, held, saved>>
    BY DEF shownVars, controllerVars
  <1>2. \/ frames' = frames
        \/ Follows /\ NextHead
    BY HeadHandled, NextHeadIs
  <1>3. Numbered'
    BY <1>1, <1>2, Numbers DEF Details, Numbered
  <1>4. Older'
    <2>1. CASE frames' = frames
      BY <1>1, <2>1 DEF Details, Older, InCount, At
    <2>2. CASE NextHead
      BY <1>1, <2>2 DEF Details, Older, InCount, At, NextHead
    <2> QED
      BY <1>2, <2>1, <2>2
  <1>5. Fresh'
    <2>1. CASE frames' = frames
      BY <1>1, <2>1 DEF Details, Fresh, InCount, At, Tabling
    <2>2. CASE NextHead
      BY <1>1, <2>2 DEF Details, Fresh, InCount, At, Tabling, NextHead
    <2> QED
      BY <1>2, <2>1, <2>2
  <1>6. Kept'
    BY <1>1, <1>2 DEF Details, Kept
  <1>7. Recorded'
    BY <1>1, <1>2 DEF Details, Recorded
  <1>8. InStep'
    BY <1>1, <1>2, Numbers DEF Details, InStep, Shown, Told, Tabling, At
  <1>9. Chain'
    BY <1>1, <1>2, Numbers DEF Details, Chain, ChainTable, ChainSerials, Tabling, At,
       Recorded
  <1> QED
    BY <1>3, <1>4, <1>5, <1>6, <1>7, <1>8, <1>9 DEF Details

(* A reset: nothing is on display.                                         *)
LEMMA ResetKeeps ==
  ASSUME Typed, Details, ResetSession, ResetData, query.denom' = query.denom,
         UNCHANGED <<controllerVars, saved, disturbed>>,
         frames' = frames \/ (frames' = <<>> /\ Follows /\ frames[1].kind \in Alone)
  PROVE  Details'
PROOF
  <1>1. /\ phase' = "idle" /\ last_result_valid' = FALSE /\ history_record'.valid = FALSE
        /\ history_record'.of = 0 /\ totals' = 0 /\ denom' = {} /\ serials' = {} /\ Nobody = 0
    BY DEF ResetSession, ResetData, NoRecord, Nobody
  <1>2. UNCHANGED <<counter, current, held, saved, disturbed>>
    BY DEF controllerVars
  <1>3. Numbered'
    BY <1>1, <1>2, Numbers DEF Details, Numbered, Follows, NextHead
  <1>4. Older'
    BY <1>1, <1>2, Numbers DEF Details, Older, InCount, At, Numbered, Follows, NextHead
  <1>5. Fresh'
    BY <1>1, <1>2, Numbers DEF Details, Fresh, InCount, At, Tabling, Follows, NextHead
  <1>6. Kept'
    BY <1>1, <1>2 DEF Details, Kept, Follows, NextHead
  <1>7. Recorded'
    BY <1>1, <1>2 DEF Details, Recorded, Follows, NextHead
  <1>8. InStep'
    BY <1>1, <1>2 DEF InStep, Shown, At, Tabling
  <1>9. Chain'
    BY <1>1, <1>2, Numbers DEF Details, Chain, ChainTable, ChainSerials, Tabling, At,
       Recorded, Follows, NextHead
  <1> QED
    BY <1>3, <1>4, <1>5, <1>6, <1>7, <1>8, <1>9 DEF Details

(* A start makes the panel idle and gives up an unsaved record.            *)
LEMMA StartHandled ==
  ASSUME Typed, InFlight, Details, HandleStartSuccess
  PROVE  Details'
PROOF
  <1>1. /\ frames # <<>> /\ frames[1].kind = "start_success" /\ Of = frames[1].of
        /\ Follows /\ NextHead /\ frames' = <<>>
    <2>1. Handle("start_success") /\ UNCHANGED controllerVars
      BY DEF HandleStartSuccess
    <2>2. Follows /\ frames[1].kind = "start_success" /\ Of = frames[1].of
      BY <2>1, Handled
    <2>3. NextHead
      BY <2>2, NextHeadIs
    <2> QED
      BY <2>2, <2>3 DEF Follows, Alone
  <1>2. /\ phase' = "idle" /\ counter = "started"
        /\ history_record'.valid = FALSE /\ history_record'.of <= history_record.of
    <2>1. history_record \in Records /\ history_record.of \in Nat
      BY Numbers DEF Typed, SessionTyped
    <2> QED
      BY <1>1, <2>1 DEF HandleStartSuccess, NoRecord, Nobody, Records, Follows
  <1>3. UNCHANGED <<last_result_valid, totals, denom, serials, query, counter, current, held,
                   saved, disturbed>>
    BY DEF HandleStartSuccess, dataVars, controllerVars, historyVars
  <1>4. history_record'.of \in Nat
    <2>1. history_record \in Records /\ history_record.of \in Nat
      BY Numbers DEF Typed, SessionTyped
    <2> QED
      BY <2>1 DEF HandleStartSuccess, NoRecord, Nobody
  <1>5. phase \in {"idle", "active", "finished"}
    BY DEF Typed, SessionTyped
  <1>6. Numbered'
    BY <1>1, <1>2, <1>3, <1>4, <1>5, Numbers DEF Details, Numbered, Follows, NextHead
  <1>7. Older'
    BY <1>1, <1>2, <1>3, <1>4, <1>5, Numbers DEF Details, Older, InCount, At, Numbered,
       Follows, NextHead
  <1>8. Fresh'
    BY <1>1, <1>2, <1>3, <1>4, <1>5, Numbers DEF Details, Fresh, InCount, At, Tabling,
       Follows, NextHead
  <1>9. Kept'
    BY <1>1, <1>2, <1>3, <1>4, <1>5 DEF Details, Kept, Follows, NextHead
  <1>10. Recorded'
    BY <1>1, <1>2, <1>3, <1>4, <1>5 DEF Details, Recorded, Follows, NextHead
  <1>11. InStep'
    BY <1>1, <1>2, <1>3, <1>4, <1>5, Numbers DEF Details, InStep, Shown, Told, Tabling,
       At, Follows, NextHead
  <1>12. Chain'
    BY <1>1, <1>2, <1>3, <1>4, <1>5, Numbers DEF Details, Chain, ChainTable,
       ChainSerials, Tabling, At, Recorded, Follows, NextHead
  <1> QED
    BY <1>6, <1>7, <1>8, <1>9, <1>10, <1>11, <1>12 DEF Details

(* The first report of a session puts panel and controller in step again.  *)
LEMMA LiveHandled ==
  ASSUME Typed, InFlight, Details, HandleLive
  PROVE  Details'
PROOF
  <1>1. /\ frames # <<>> /\ frames[1].kind = "live" /\ Of = frames[1].of
        /\ Follows /\ NextHead /\ frames' = <<>>
    <2>1. Handle("live") /\ UNCHANGED controllerVars
      BY DEF HandleLive
    <2>2. Follows /\ frames[1].kind = "live" /\ Of = frames[1].of
      BY <2>1, Handled
    <2>3. NextHead
      BY <2>2, NextHeadIs
    <2> QED
      BY <2>2, <2>3 DEF Follows, Alone
  <1>2. \/ Of = Nobody /\ counter = "rejected"
        \/ Of = current /\ counter = "accepted"
    BY <1>1 DEF Follows
  <1>3. IF phase = "finished"
          THEN UNCHANGED <<phase, last_result_valid, totals>> /\ disturbed' = disturbed
          ELSE phase' = "active" /\ totals' = Of /\ (phase = "active" => disturbed' = disturbed)
    BY DEF HandleLive, LiveIgnored, LiveTotals, Typed, SessionTyped, SavedTyped
  <1>4. UNCHANGED <<history_record, denom, serials, query, counter, current, held, saved>>
    BY DEF HandleLive, controllerVars
  <1>5. Numbered'
    BY <1>1, <1>2, <1>3, <1>4, Numbers DEF Details, Numbered, Follows, NextHead
  <1>6. Older'
    BY <1>1, <1>2, <1>3, <1>4, Numbers DEF Details, Older, InCount, At, Numbered,
       Follows, NextHead
  <1>7. Fresh'
    BY <1>1, <1>2, <1>3, <1>4, Numbers DEF Details, Fresh, InCount, At, Tabling,
       Follows, NextHead
  <1>8. Kept'
    BY <1>1, <1>2, <1>3, <1>4 DEF Details, Kept, Follows, NextHead
  <1>9. Recorded'
    BY <1>1, <1>2, <1>3, <1>4 DEF Details, Recorded, Follows, NextHead
  <1>10. InStep'
    BY <1>1, <1>2, <1>3, <1>4, Numbers DEF Details, InStep, Shown, Told, Tabling, At,
       Follows, NextHead
  <1>11. Chain'
    BY <1>1, <1>2, <1>3, <1>4, Numbers DEF Details, Chain, ChainTable, ChainSerials,
       Tabling, At, Recorded, Follows, NextHead
  <1> QED
    BY <1>5, <1>6, <1>7, <1>8, <1>9, <1>10, <1>11 DEF Details

(* The end of a session makes the record that its details will complete.   *)
LEMMA FinishedHandled ==
  ASSUME Typed, InFlight, Details, HandleFinished
  PROVE  Details'
PROOF
  <1>1. /\ frames # <<>> /\ frames[1].kind = "finished" /\ Of = frames[1].of
        /\ Follows /\ NextHead
    <2>1. Handle("finished") /\ UNCHANGED controllerVars
      BY DEF HandleFinished
    <2>2. Follows /\ frames[1].kind = "finished" /\ Of = frames[1].of
      BY <2>1, Handled
    <2>3. NextHead
      BY <2>2, NextHeadIs
    <2> QED
      BY <2>2, <2>3 DEF Follows, Alone
  <1>2. /\ counter = "stopped" /\ held \in {Nobody, current} /\ Of = held
        /\ frames' # <<>> /\ frames'[1].kind = "denom_start" /\ frames'[1].of = held
    BY <1>1 DEF Follows
  <1>3. UNCHANGED <<totals, denom, serials, query, counter, current, held, saved, disturbed>>
    <2>1. ~Ready([NoRecord EXCEPT !.valid = (IF totals # Nobody THEN totals ELSE Of) # Nobody,
                                   !.of = IF totals # Nobody THEN totals ELSE Of])
      BY DEF Ready, NoRecord
    <2> QED
      BY <2>1 DEF HandleFinished, TryCommit, dataVars, controllerVars
  <1>4. IF phase = "finished"
          THEN UNCHANGED <<phase, last_result_valid, history_record>>
          ELSE /\ phase' = "finished" /\ last_result_valid' = TRUE
               /\ history_record'.of = IF totals # Nobody THEN totals ELSE Of
               /\ history_record'.valid = (history_record'.of # Nobody)
               /\ history_record'.end_seen = FALSE
    <2>1. ~Ready([NoRecord EXCEPT !.valid = (IF totals # Nobody THEN totals ELSE Of) # Nobody,
                                   !.of = IF totals # Nobody THEN totals ELSE Of])
      BY DEF Ready, NoRecord
    <2> QED
      BY <2>1 DEF HandleFinished, TryCommit, sessionVars, NoRecord
  <1>5. Numbered'
    BY <1>1, <1>2, <1>3, <1>4, Numbers DEF Details, Numbered, Follows, NextHead
  <1>6. Older'
    BY <1>1, <1>2, <1>3, <1>4, Numbers DEF Details, Older, InCount, At, Numbered,
       Follows, NextHead
  <1>7. Fresh'
    BY <1>1, <1>2, <1>3, <1>4, Numbers DEF Details, Fresh, InCount, At, Tabling,
       Follows, NextHead
  <1>8. Kept'
    BY <1>1, <1>2, <1>3, <1>4 DEF Details, Kept, Follows, NextHead
  <1>9. Recorded'
    BY <1>1, <1>2, <1>3, <1>4 DEF Details, Recorded, Follows, NextHead
  <1>10. InStep'
    BY <1>1, <1>2, <1>3, <1>4, Numbers DEF Details, InStep, Shown, Told, Tabling, At,
       Follows, NextHead
  <1>11. Chain'
    <2>1. SUFFICES ASSUME history_record'.valid, ~disturbed'
                   PROVE  Chain'
      BY DEF Chain
    <2>2. phase # "finished" /\ totals \in {Nobody, current}
          /\ (totals = current => held = current \/ totals = Nobody)
      BY <1>1, <1>2, <1>3, <2>1 DEF Details, InStep, Shown, Told, At
    <2>3. history_record'.of = current /\ held = current
      BY <1>1, <1>2, <1>4, <2>1, <2>2
    <2>4. \A i \in 1 .. Len(saved) : saved[i].of < current
      BY <1>1 DEF Details, Older, InCount, At
    <2>5. Tabling({"denom_start", "denom_data"})' /\ ~At("denom_data")'
          /\ ~At("serial_data")' /\ ~At("serial_end")'
      BY <1>2, Numbers DEF Tabling, At
    <2>6. ChainTable' /\ ChainSerials'
      BY <1>4, <2>2, <2>5 DEF ChainTable, ChainSerials
    <2> QED
      BY <1>3, <2>3, <2>4, <2>6 DEF Chain
  <1> QED
    BY <1>5, <1>6, <1>7, <1>8, <1>9, <1>10, <1>11 DEF Details

(* The two tables: a mistaken one is remembered.                           *)
LEMMA TableStartHandled ==
  ASSUME Typed, InFlight, Details, HandleDenomStart
  PROVE  Details'
PROOF
  <1>1. /\ frames # <<>> /\ frames[1].kind = "denom_start" /\ Of = frames[1].of
        /\ Follows /\ NextHead
    <2>1. Handle("denom_start") /\ UNCHANGED controllerVars
      BY DEF HandleDenomStart
    <2>2. Follows /\ frames[1].kind = "denom_start" /\ Of = frames[1].of
      BY <2>1, Handled
    <2>3. NextHead
      BY <2>2, NextHeadIs
    <2> QED
      BY <2>2, <2>3 DEF Follows, Alone
  <1>2. disturbed' = (disturbed \/ query.pending # (Of = Query))
    BY DEF HandleDenomStart, Mistaken
  <1>3. IF query.pending THEN query'.denom = {} /\ denom' = denom
                         ELSE query'.denom = query.denom /\ denom' = {}
    BY DEF HandleDenomStart, Typed, QueryTyped, Queries
  <1>4. UNCHANGED <<phase, last_result_valid, history_record, totals, serials, counter, current,
                    held, saved>>
    BY DEF HandleDenomStart, sessionVars, controllerVars
  <1>5. Numbered'
    BY <1>1, <1>2, <1>3, <1>4, Numbers DEF Details, Numbered, Follows, NextHead
  <1>6. Older'
    BY <1>1, <1>2, <1>3, <1>4, Numbers DEF Details, Older, InCount, At, Numbered,
       Follows, NextHead
  <1>7. Fresh'
    BY <1>1, <1>2, <1>3, <1>4, Numbers DEF Details, Fresh, InCount, At, Tabling,
       Follows, NextHead
  <1>8. Kept'
    BY <1>1, <1>2, <1>3, <1>4 DEF Details, Kept, Follows, NextHead
  <1>9. Recorded'
    BY <1>1, <1>2, <1>3, <1>4 DEF Details, Recorded, Follows, NextHead
  <1>10. InStep'
    BY <1>1, <1>2, <1>3, <1>4, Numbers DEF Details, InStep, Shown, Told, Tabling, At,
       Follows, NextHead
  <1>11. Chain'
    BY <1>1, <1>2, <1>3, <1>4, Numbers DEF Details, Chain, ChainTable, ChainSerials,
       Tabling, At, Recorded, Follows, NextHead
  <1> QED
    BY <1>5, <1>6, <1>7, <1>8, <1>9, <1>10, <1>11 DEF Details

(* A row enters the table of its own session, or the query's.             *)
LEMMA TableRowHandled ==
  ASSUME Typed, InFlight, Details, HandleDenomData
  PROVE  Details'
PROOF
  <1>1. /\ frames # <<>> /\ frames[1].kind = "denom_data" /\ Of = frames[1].of
        /\ Follows /\ NextHead
    <2>1. Handle("denom_data") /\ UNCHANGED controllerVars
      BY DEF HandleDenomData
    <2>2. Follows /\ frames[1].kind = "denom_data" /\ Of = frames[1].of
      BY <2>1, Handled
    <2>3. NextHead
      BY <2>2, NextHeadIs
    <2> QED
      BY <2>2, <2>3 DEF Follows, Alone
  <1>2. disturbed' = (disturbed \/ query.pending # (Of = Query))
    BY DEF HandleDenomData, Mistaken
  <1>3. IF query.pending THEN query'.denom \subseteq query.denom \cup {Of} /\ denom' = denom
                         ELSE query'.denom = query.denom /\ denom' = denom \cup {Of}
    BY DEF HandleDenomData, Typed, QueryTyped, Queries
  <1>4. UNCHANGED <<phase, last_result_valid, history_record, totals, serials, counter, current,
                    held, saved>>
    BY DEF HandleDenomData, sessionVars, controllerVars
  <1>5. Numbered'
    BY <1>1, <1>2, <1>3, <1>4, Numbers DEF Details, Numbered, Follows, NextHead
  <1>6. Older'
    BY <1>1, <1>2, <1>3, <1>4, Numbers DEF Details, Older, InCount, At, Numbered,
       Follows, NextHead
  <1>7. Fresh'
    <2>1. Of \in {held, Query} /\ held <= current /\ (Of # Query => counter = "stopped")
      BY <1>1 DEF Follows, Details, Numbered
    <2>2. denom' \cup query'.denom \subseteq denom \cup query.denom \cup {Of}
      BY <1>3
    <2>3. InCount' \/ Tabling({"denom_start"})' => InCount /\ Of = Query
      BY <1>1, <1>4, <2>1 DEF InCount, At, Tabling, Follows
    <2>4. /\ \A of \in denom \cup query.denom : of = Query \/ of <= current
          /\ InCount => current \notin denom \cup query.denom
      BY DEF Details, Fresh
    <2> QED
      BY <1>4, <2>1, <2>2, <2>3, <2>4, Numbers DEF Fresh
  <1>8. Kept'
    BY <1>1, <1>2, <1>3, <1>4 DEF Details, Kept, Follows, NextHead
  <1>9. Recorded'
    BY <1>1, <1>2, <1>3, <1>4 DEF Details, Recorded, Follows, NextHead
  <1>10. InStep'
    BY <1>1, <1>2, <1>3, <1>4, Numbers DEF Details, InStep, Shown, Told, Tabling, At,
       Follows, NextHead
  <1>11. Chain'
    BY <1>1, <1>2, <1>3, <1>4, Numbers DEF Details, Chain, ChainTable, ChainSerials,
       Tabling, At, Recorded, Follows, NextHead
  <1> QED
    BY <1>5, <1>6, <1>7, <1>8, <1>9, <1>10, <1>11 DEF Details

(* A query's table is shown only on an idle panel, where no record is.    *)
LEMMA QueryEndHandled ==
  ASSUME Typed, InFlight, Details, HandleQueryEnd
  PROVE  Details'
PROOF
  <1>1. /\ frames # <<>> /\ frames[1].kind = "denom_end" /\ Of = frames[1].of
        /\ Follows /\ NextHead /\ frames' = <<>>
    <2>1. Handle("denom_end") /\ UNCHANGED controllerVars
      BY DEF HandleQueryEnd
    <2>2. Follows /\ frames[1].kind = "denom_end" /\ Of = frames[1].of
      BY <2>1, Handled
    <2>3. NextHead
      BY <2>2, NextHeadIs
    <2> QED
      BY <2>2, <2>3 DEF Follows, Alone
  <1>2. ~disturbed' => ~disturbed
    BY DEF HandleQueryEnd
  <1>3. /\ query'.denom = query.denom
        /\ denom' = denom \/ (denom' = query.denom /\ phase = "idle")
    BY DEF HandleQueryEnd, BetweenSessions, Typed, QueryTyped, Queries
  <1>4. UNCHANGED <<phase, last_result_valid, history_record, totals, serials, counter, current,
                    held, saved>>
    BY DEF HandleQueryEnd, sessionVars, controllerVars
  <1>5. Numbered'
    BY <1>1, <1>2, <1>3, <1>4, Numbers DEF Details, Numbered, Follows, NextHead
  <1>6. Older'
    BY <1>1, <1>2, <1>3, <1>4, Numbers DEF Details, Older, InCount, At, Numbered,
       Follows, NextHead
  <1>7. Fresh'
    BY <1>1, <1>2, <1>3, <1>4, Numbers DEF Details, Fresh, InCount, At, Tabling,
       Follows, NextHead
  <1>8. Kept'
    BY <1>1, <1>2, <1>3, <1>4 DEF Details, Kept, Follows, NextHead
  <1>9. Recorded'
    BY <1>1, <1>2, <1>3, <1>4 DEF Details, Recorded, Follows, NextHead
  <1>10. InStep'
    BY <1>1, <1>2, <1>3, <1>4, Numbers DEF Details, InStep, Shown, Told, Tabling, At,
       Follows, NextHead
  <1>11. Chain'
    BY <1>1, <1>2, <1>3, <1>4, Numbers DEF Details, Chain, ChainTable, ChainSerials,
       Tabling, At, Recorded, Follows, NextHead
  <1> QED
    BY <1>5, <1>6, <1>7, <1>8, <1>9, <1>10, <1>11 DEF Details

(* The serial numbers.                                                     *)
LEMMA SerialStartHandled ==
  ASSUME Typed, InFlight, Details, HandleSerialStart
  PROVE  Details'
PROOF
  <1>1. /\ frames # <<>> /\ frames[1].kind = "serial_start" /\ Of = frames[1].of
        /\ Follows /\ NextHead
    <2>1. Handle("serial_start") /\ UNCHANGED controllerVars
      BY DEF HandleSerialStart
    <2>2. Follows /\ frames[1].kind = "serial_start" /\ Of = frames[1].of
      BY <2>1, Handled
    <2>3. NextHead
      BY <2>2, NextHeadIs
    <2> QED
      BY <2>2, <2>3 DEF Follows, Alone
  <1>2. disturbed' = (disturbed \/ (history_record.valid /\ history_record.end_seen
                                      /\ history_record.save_attempts < MaxAttempts))
    BY DEF HandleSerialStart, Ready
  <1>3. /\ serials' = {}
        /\ UNCHANGED <<phase, last_result_valid, history_record, totals, denom, query, counter,
                       current, held, saved>>
    BY DEF HandleSerialStart, sessionVars, controllerVars
  <1>4. Numbered'
    BY <1>1, <1>2, <1>3, Numbers DEF Details, Numbered, Follows, NextHead
  <1>5. Older'
    BY <1>1, <1>2, <1>3, Numbers DEF Details, Older, InCount, At, Numbered, Follows,
       NextHead
  <1>6. Fresh'
    BY <1>1, <1>2, <1>3, Numbers DEF Details, Fresh, InCount, At, Tabling, Follows, NextHead
  <1>7. Kept'
    BY <1>1, <1>2, <1>3 DEF Details, Kept, Follows, NextHead
  <1>8. Recorded'
    BY <1>1, <1>2, <1>3 DEF Details, Recorded, Follows, NextHead
  <1>9. InStep'
    BY <1>1, <1>2, <1>3, Numbers DEF Details, InStep, Shown, Told, Tabling, At, Follows,
       NextHead
  <1>10. Chain'
    BY <1>1, <1>2, <1>3, Numbers DEF Details, Chain, ChainTable, ChainSerials, Tabling,
       At, Recorded, Follows, NextHead
  <1> QED
    BY <1>4, <1>5, <1>6, <1>7, <1>8, <1>9, <1>10 DEF Details

(* A serial number is the held session's.                                 *)
LEMMA SerialRowHandled ==
  ASSUME Typed, InFlight, Details, HandleSerialData
  PROVE  Details'
PROOF
  <1>1. /\ frames # <<>> /\ frames[1].kind = "serial_data" /\ Of = frames[1].of
        /\ Follows /\ NextHead
    <2>1. Handle("serial_data") /\ UNCHANGED controllerVars
      BY DEF HandleSerialData
    <2>2. Follows /\ frames[1].kind = "serial_data" /\ Of = frames[1].of
      BY <2>1, Handled
    <2>3. NextHead
      BY <2>2, NextHeadIs
    <2> QED
      BY <2>2, <2>3 DEF Follows, Alone
  <1>2. /\ serials' = serials \cup {Of}
        /\ UNCHANGED <<phase, last_result_valid, history_record, totals, denom, query, counter,
                       current, held, saved, disturbed>>
    BY DEF HandleSerialData, sessionVars, controllerVars, historyVars
  <1>3. Numbered'
    BY <1>1, <1>2, Numbers DEF Details, Numbered, Follows, NextHead
  <1>4. Older'
    BY <1>1, <1>2, Numbers DEF Details, Older, InCount, At, Numbered, Follows, NextHead
  <1>5. Fresh'
    BY <1>1, <1>2, Numbers DEF Details, Fresh, InCount, At, Tabling, Follows, NextHead
  <1>6. Kept'
    BY <1>1, <1>2 DEF Details, Kept, Follows, NextHead
  <1>7. Recorded'
    BY <1>1, <1>2 DEF Details, Recorded, Follows, NextHead
  <1>8. InStep'
    BY <1>1, <1>2, Numbers DEF Details, InStep, Shown, Told, Tabling, At, Follows, NextHead
  <1>9. Chain'
    BY <1>1, <1>2, Numbers DEF Details, Chain, ChainTable, ChainSerials, Tabling, At,
       Recorded, Follows, NextHead
  <1> QED
    BY <1>3, <1>4, <1>5, <1>6, <1>7, <1>8, <1>9 DEF Details

(* A pushed serial number is the counted session's: no record is pending   *)
(* beside it, unless the session was disturbed.                            *)
LEMMA PushHandled ==
  ASSUME Typed, InFlight, Details, HandlePush
  PROVE  Details'
PROOF
  <1>1. frames # <<>> /\ frames[1].kind = "serial_push" /\ Follows /\ frames' = <<>>
    <2>1. Handle("serial_push") /\ UNCHANGED controllerVars
      BY DEF HandlePush
    <2>2. Follows /\ frames[1].kind = "serial_push"
      BY <2>1, Handled
    <2> QED
      BY <2>2 DEF Follows, Alone
  <1>2. /\ counter # "stopped"
        /\ UNCHANGED <<phase, last_result_valid, history_record, totals, denom, query, counter,
                       current, held, saved, disturbed>>
    BY <1>1 DEF Follows, HandlePush, sessionVars, controllerVars, historyVars
  <1>3. Numbered'
    BY <1>1, <1>2, Numbers DEF Details, Numbered
  <1>4. Older'
    BY <1>1, <1>2, Numbers DEF Details, Older, InCount, At, Numbered
  <1>5. Fresh'
    BY <1>1, <1>2, Numbers DEF Details, Fresh, InCount, At, Tabling
  <1>6. Kept'
    BY <1>2 DEF Details, Kept
  <1>7. Recorded'
    BY <1>2 DEF Details, Recorded
  <1>8. InStep'
    BY <1>1, <1>2, Numbers DEF Details, InStep, Shown, Told, Tabling, At
  <1>9. ~(history_record.valid /\ ~disturbed)
    BY <1>1, <1>2 DEF Details, Recorded, InStep, At
  <1>10. Chain'
    BY <1>2, <1>9 DEF Chain
  <1> QED
    BY <1>3, <1>4, <1>5, <1>6, <1>7, <1>8, <1>10 DEF Details

(* A save that is tried: what is complete enters the store.                *)
LEMMA SaveTried ==
  ASSUME Typed, Details, NEW record \in Records, TryCommit(record),
         record.valid = history_record.valid, record.of = history_record.of, record.end_seen,
         record.valid /\ ~disturbed =>
           /\ denom = {record.of} /\ ~Tabling({"denom_start", "denom_data"})'
           /\ record.save_attempts < MaxAttempts =>
                serials = {record.of} /\ ~At("serial_data")' /\ ~At("serial_end")',
         query.denom' = query.denom,
         UNCHANGED <<phase, last_result_valid, totals, denom, serials, controllerVars, disturbed>>,
         frames' = frames \/ (frames' = <<>> /\ At("serial_end"))
  PROVE  Details'
PROOF
  <1>1. UNCHANGED <<phase, last_result_valid, totals, denom, serials, counter, current, held,
                    disturbed>>
    BY DEF controllerVars
  <1> DEFINE entry == [of |-> record.of, denom |-> denom, serials |-> serials,
                       disturbed |-> disturbed]
  <1>2. \/ history_record' = record /\ saved' = saved
        \/ Ready(record) /\ history_record' = NoRecord /\ saved' = Append(saved, entry)
        \/ /\ Ready(record) /\ saved' = saved
           /\ history_record' = [record EXCEPT !.save_attempts = @ + 1]
    BY Committed, Zenon DEF Typed
  <1>3. /\ entry.of = record.of /\ entry.denom = denom /\ entry.serials = serials
        /\ entry.disturbed = disturbed
    OBVIOUS
  <1> HIDE DEF entry
  <1>4. /\ record.of \in Nat /\ record.save_attempts \in Nat
        /\ history_record'.valid => /\ record.valid
                                    /\ history_record'.of = record.of /\ history_record'.end_seen
                                    /\ record.save_attempts <= history_record'.save_attempts
        /\ history_record'.of \in {record.of, 0}
    <2>1. record.of \in Nat /\ record.save_attempts \in Nat
      BY Numbers, SessionAssumption DEF Records
    <2> QED
      BY <1>2, <2>1 DEF NoRecord, Records, Nobody
  <1>5. history_record'.valid => saved' = saved
    BY <1>2 DEF NoRecord
  <1>6. \/ saved' = saved
        \/ /\ Ready(record) /\ Len(saved') = Len(saved) + 1 /\ saved'[Len(saved) + 1] = entry
           /\ \A i \in 1 .. Len(saved) : saved'[i] = saved[i]
    <2>1. saved \in Seq(Entries)
      BY DEF Typed, SavedTyped
    <2> QED
      BY <1>2, <2>1
  <1>7. At("serial_end")' => At("serial_end")
    BY DEF At
  <1>8. InCount' => InCount
    BY <1>1 DEF InCount, At
  <1>9. ASSUME saved' # saved
        PROVE  /\ \A i \in 1 .. Len(saved') :
                    \/ i \in 1 .. Len(saved) /\ saved'[i] = saved[i]
                    \/ i = Len(saved) + 1 /\ saved'[i] = entry
               /\ record.valid
               /\ ~disturbed => denom = {record.of} /\ serials = {record.of}
    BY <1>6, <1>9, Numbers DEF Ready
  <1>10. Numbered'
    <2>1. record.of <= current
      BY DEF Details, Numbered
    <2> QED
      BY <1>1, <1>3, <1>4, <1>9, <2>1, Numbers DEF Details, Numbered
  <1>11. Older'
    BY <1>1, <1>3, <1>4, <1>8, <1>9, Numbers DEF Details, Older
  <1>12. Fresh'
    BY <1>1, <1>8 DEF Details, Fresh, Tabling
  <1>13. Kept'
    <2>1. ~disturbed /\ record.valid => \A i \in 1 .. Len(saved) : saved[i].of < record.of
      BY DEF Details, Chain
    <2>2. CASE saved' = saved
      BY <2>2 DEF Details, Kept
    <2>3. CASE saved' # saved
      <3>1. \A i \in 1 .. Len(saved') :
              i \in Nat /\ (i \in 1 .. Len(saved) \/ i = Len(saved) + 1)
        BY <1>9, <2>3
      <3>2. SUFFICES ASSUME NEW j \in 1 .. Len(saved'), ~saved'[j].disturbed
                     PROVE  /\ saved'[j].denom = {saved'[j].of}
                            /\ saved'[j].serials = {saved'[j].of}
                            /\ \A i \in 1 .. Len(saved') : i < j => saved'[i].of < saved'[j].of
        BY DEF Kept
      <3>3. CASE j \in 1 .. Len(saved)
        <4>1. \A i \in 1 .. Len(saved') : i < j => i \in 1 .. Len(saved)
          BY <3>1, <3>3, Numbers
        <4>2. \A i \in 1 .. Len(saved) : saved'[i] = saved[i]
          BY <1>6
        <4> QED
          BY <3>2, <3>3, <4>1, <4>2 DEF Details, Kept
      <3>4. CASE j = Len(saved) + 1
        <4>1. saved'[j] = entry /\ ~disturbed
          BY <1>3, <1>6, <2>3, <3>2, <3>4
        <4>2. \A i \in 1 .. Len(saved') : i < j => i \in 1 .. Len(saved)
          BY <3>1, <3>4, Numbers
        <4>3. \A i \in 1 .. Len(saved) : saved'[i] = saved[i]
          BY <1>6
        <4> QED
          BY <1>3, <1>9, <2>1, <2>3, <4>1, <4>2, <4>3
      <3> QED
        BY <3>1, <3>3, <3>4
    <2> QED
      BY <2>2, <2>3
  <1>14. Recorded'
    BY <1>1, <1>4 DEF Details, Recorded
  <1>15. InStep'
    BY <1>1 DEF Details, InStep, Shown, Told, Tabling, At
  <1>16. Chain'
    <2>1. SUFFICES ASSUME history_record'.valid, ~disturbed'
                   PROVE  Chain'
      BY DEF Chain
    <2>2. record.valid /\ ~disturbed /\ saved' = saved /\ history_record'.of = record.of
      BY <1>1, <1>4, <1>5, <2>1
    <2>3. /\ \A i \in 1 .. Len(saved) : saved[i].of < record.of
          /\ held = record.of \/ At("switch_success")
      BY <2>2 DEF Details, Chain
    <2>4. held' = record.of \/ At("switch_success")'
      BY <1>1, <2>3 DEF At
    <2>5. ChainTable' /\ ChainSerials'
      <3>1. history_record'.save_attempts \in Nat /\ MaxAttempts \in Nat
        <4>1. history_record' \in Records
          BY Committed DEF Typed
        <4> QED
          BY <4>1, SessionAssumption DEF Records
      <3> QED
        BY <1>1, <1>4, <2>1, <2>2, <3>1 DEF ChainTable, ChainSerials
    <2> QED
      BY <2>2, <2>3, <2>4, <2>5 DEF Chain
  <1> QED
    BY <1>10, <1>11, <1>12, <1>13, <1>14, <1>15, <1>16 DEF Details

LEMMA HistoryPolled ==
  ASSUME Typed, Details, PollHistory
  PROVE  Details'
PROOF
  <1>1. history_record \in Records
    BY DEF Typed, SessionTyped
  <1>2. /\ history_record.valid /\ history_record.end_seen
        /\ history_record.save_attempts < MaxAttempts
    BY DEF PollHistory, Ready
  <1>3. ~disturbed =>
          /\ denom = {history_record.of} /\ ~Tabling({"denom_start", "denom_data"})
          /\ serials = {history_record.of} /\ ~At("serial_data") /\ ~At("serial_end")
    BY <1>2 DEF Details, Chain, ChainTable, ChainSerials
  <1>4. /\ UNCHANGED <<phase, last_result_valid, totals, denom, serials, controllerVars, disturbed>>
        /\ frames' = frames /\ query.denom' = query.denom /\ TryCommit(history_record)
    BY DEF PollHistory, dataVars
  <1>5. Tabling({"denom_start", "denom_data"})' = Tabling({"denom_start", "denom_data"})
        /\ At("serial_data")' = At("serial_data") /\ At("serial_end")' = At("serial_end")
    BY <1>4 DEF Tabling, At
  <1> QED
    BY <1>1, <1>2, <1>3, <1>4, <1>5, SaveTried

LEMMA SerialEndHandled ==
  ASSUME Typed, InFlight, Details, HandleSerialEnd
  PROVE  Details'
PROOF
  <1>1. /\ Handle("serial_end") /\ UNCHANGED controllerVars
        /\ UNCHANGED <<phase, last_result_valid, totals, denom, serials, query, disturbed>>
    BY DEF HandleSerialEnd, dataVars
  <1>2. frames # <<>> /\ frames[1].kind = "serial_end" /\ frames' = <<>>
    BY <1>1, Handled DEF Follows
  <1>3. ~Tabling({"denom_start", "denom_data"}) /\ At("serial_end")
        /\ ~Tabling({"denom_start", "denom_data"})' /\ ~At("serial_data")' /\ ~At("serial_end")'
    BY <1>2 DEF Tabling, At
  <1> DEFINE record == [history_record EXCEPT !.end_seen = TRUE]
  <1>4. /\ record \in Records /\ record.valid = history_record.valid
        /\ record.of = history_record.of /\ record.end_seen
        /\ record.save_attempts = history_record.save_attempts
    BY DEF Typed, SessionTyped, Records
  <1>5. TryCommit(record)
    BY DEF HandleSerialEnd
  <1> HIDE DEF record
  <1>6. record.valid /\ ~disturbed =>
          denom = {record.of} /\ (record.save_attempts < MaxAttempts => serials = {record.of})
    BY <1>3, <1>4 DEF Details, Chain, ChainTable, ChainSerials
  <1> QED
    BY <1>1, <1>2, <1>3, <1>4, <1>5, <1>6, SaveTried

-----------------------------------------------------------------------------
(* The invariant, action by action.                                        *)
LEMMA UserKeeps ==
  ASSUME Typed, InFlight, Details, User
  PROVE  InFlight' /\ Details'
PROOF
  <1>1. CASE PressStart
    <2>1. UNCHANGED coreVars /\ query' = query
      BY <1>1 DEF PressStart, coreVars, shownVars, sessionVars, dataVars, historyVars
    <2> QED
      BY <2>1, CoreUnmoved, LineUnmoved DEF coreVars
  <1>2. CASE Clear
    <2>1. /\ ResetSession /\ ResetData /\ UNCHANGED <<controllerVars, saved, disturbed>>
          /\ query' = query /\ frames' = frames
      BY <1>2 DEF Clear, historyVars
    <2> QED
      BY <2>1, ResetKeeps, LineUnmoved
  <1> QED
    BY <1>1, <1>2 DEF User

LEMMA PollKeeps ==
  ASSUME Typed, InFlight, Details, Poll
  PROVE  InFlight' /\ Details'
PROOF
  <1>1. CASE StartTimesOut \/ ClearTimesOut \/ BootEnds
    <2>1. UNCHANGED coreVars /\ query' = query
      BY <1>1 DEF StartTimesOut, ClearTimesOut, BootEnds, coreVars, shownVars,
         sessionVars, dataVars, historyVars
    <2> QED
      BY <2>1, CoreUnmoved, LineUnmoved DEF coreVars
  <1>2. CASE PollHistory
    <2>1. frames' = frames /\ UNCHANGED controllerVars
      BY <1>2 DEF PollHistory
    <2> QED
      BY <1>2, <2>1, HistoryPolled, LineUnmoved
  <1>3. CASE PollQuery
    <2>1. UNCHANGED coreVars
      BY <1>3 DEF PollQuery, coreVars, shownVars, sessionVars, dataVars, historyVars
    <2>2. query'.denom = query.denom
      BY <1>3 DEF PollQuery, SendQuery, Asking, Typed, QueryTyped, Queries
    <2> QED
      BY <2>1, <2>2, CoreUnmoved, LineUnmoved DEF coreVars
  <1> QED
    BY <1>1, <1>2, <1>3 DEF Poll

LEMMA ControllerKeeps ==
  ASSUME Typed, InFlight, Details, Controller
  PROVE  InFlight' /\ Details'
PROOF
  <1>1. UNCHANGED <<shownVars, query, saved>>
    BY DEF shownVars, Controller, FeedNotes, Report, Push, Finish, Answer, ReportCurrency,
       Lose, PanelUnchanged, sessionVars, dataVars, historyVars
  <1>2. query'.denom = query.denom
    BY <1>1
  <1>3. CASE FeedNotes
    <2>1. Begins /\ held' = held /\ disturbed' = disturbed
      BY <1>3 DEF FeedNotes, historyVars
    <2> QED
      BY <1>1, <1>2, <2>1, BeginsSends, SessionBegins
  <1>4. CASE Report
    <2>1. held' = held /\ disturbed' = disturbed
      BY <1>4 DEF Report, historyVars
    <2> QED
      BY <1>1, <1>2, <1>4, <2>1, ReportSends, SessionReported
  <1>4a. CASE Push
    <2>1. disturbed' = disturbed
      BY <1>4a DEF Push, historyVars
    <2> QED
      BY <1>1, <1>2, <1>4a, <2>1, PushSends, ReplySent
  <1>5. CASE Finish
    <2>1. counter \in {"rejected", "accepted"} /\ disturbed' = disturbed
      BY <1>5 DEF Finish, historyVars
    <2> QED
      BY <1>1, <1>2, <1>5, <2>1, FinishSends, SessionEnds
  <1>6. CASE Answer
    <2>1. CASE Begins /\ UNCHANGED <<held, disturbed>>
      BY <1>1, <1>2, <2>1, BeginsSends, SessionBegins
    <2>2. CASE /\ \/ Sends("start_failure", Nobody) \/ Sends("denom_start", Query)
                  \/ Sends("reject_end", Nobody) \/ Sends("serial_start", held)
               /\ UNCHANGED <<controllerVars, disturbed>>
      <3>1. ASSUME NEW kind, NEW of, Sends(kind, of),
                   \/ kind \in {"start_failure", "reject_end", "serial_start"}
                   \/ kind = "denom_start" /\ of = Query
            PROVE  Details'
        BY <1>1, <1>2, <2>2, <3>1, ReplySent
      <3> QED
        BY <1>6, <2>2, <3>1, AnswerSends
    <2>3. CASE /\ Sends("cleared", Nobody) /\ held' = Nobody /\ UNCHANGED <<counter, current>>
               /\ disturbed' = (disturbed \/ history_record.valid \/ counter # "stopped")
      BY <1>1, <1>2, <1>6, <2>3, AnswerSends, ClearedSent
    <2> QED
      BY <1>6, <2>1, <2>2, <2>3, AnswerSends
  <1>7. CASE ReportCurrency
    BY <1>1, <1>2, <1>7, CurrencySends, CurrencySent
  <1>8. CASE Lose
    <2>1. /\ disturbed' = TRUE /\ UNCHANGED controllerVars
          /\ frames' = frames \/ (frames # <<>> /\ frames' = Tail(frames))
      BY <1>8 DEF Lose
    <2> QED
      BY <1>1, <1>2, <2>1, FrameLost, TailFits, LineUnmoved
  <1> QED
    BY <1>3, <1>4, <1>4a, <1>5, <1>6, <1>7, <1>8 DEF Controller

LEMMA FrameKeeps ==
  ASSUME Typed, InFlight, Details, HandleFrame
  PROVE  InFlight' /\ Details'
PROOF
  <1>1. UNCHANGED controllerVars /\ \E kind \in Kinds : Handle(kind)
    BY DEF HandleFrame, HandleStartSuccess, HandleStartFailure, HandleCleared,
       HandleLive, HandleFinished, HandleDenomStart, HandleDenomData, HandleQueryEnd,
       HandleSessionEnd, HandleRejectEnd, HandleSerialStart, HandleSerialData,
       HandlePush, HandleSerialEnd, HandleSwitchSuccess, HandleBootActive, Kinds, Alone
  <1>2. InFlight'
    BY <1>1, Handled
  <1>3. CASE HandleStartFailure \/ HandleCleared \/ HandleRejectEnd
    <2>1. /\ UNCHANGED <<shownVars, controllerVars, saved>>
          /\ query' = query /\ (~disturbed' => ~disturbed)
          /\ \E kind \in {"start_failure", "cleared", "reject_end", "denom_end"} : Handle(kind)
      BY <1>3 DEF HandleStartFailure, HandleCleared, HandleRejectEnd, shownVars,
         sessionVars, dataVars, historyVars
    <2> QED
      BY <1>2, <2>1, ReplyHandled
  <1>4. CASE HandleSessionEnd
    <2>1. /\ UNCHANGED <<shownVars, controllerVars, saved>>
          /\ ~disturbed' => ~disturbed
          /\ Handle("denom_end")
      BY <1>4 DEF HandleSessionEnd, shownVars, sessionVars, dataVars
    <2>2. query'.denom = query.denom
      BY <1>4 DEF HandleSessionEnd, Typed, QueryTyped, Queries
    <2>3. "denom_end" \in {"start_failure", "cleared", "reject_end", "denom_end"}
      OBVIOUS
    <2> QED
      BY <1>2, <2>1, <2>2, <2>3, ReplyHandled
  <1>5. CASE HandleSwitchSuccess \/ HandleBootActive
    <2>1. /\ ResetSession /\ ResetData /\ UNCHANGED <<controllerVars, saved, disturbed>>
          /\ \E asked \in BOOLEAN : query' = Triggered(asked)
          /\ \E kind \in {"switch_success", "boot_active"} : Handle(kind)
      BY <1>5 DEF HandleSwitchSuccess, HandleBootActive, historyVars, Typed, FlagsTyped
    <2>2. query'.denom = query.denom
      BY <2>1 DEF Triggered, Asking, Typed, QueryTyped, Queries
    <2>3. frames' = <<>> /\ Follows /\ frames[1].kind \in Alone
      BY <1>1, <2>1, Handled DEF Follows, Alone
    <2> QED
      BY <1>2, <2>1, <2>2, <2>3, ResetKeeps
  <1> QED
    BY <1>2, <1>3, <1>4, <1>5, StartHandled, LiveHandled, FinishedHandled,
       TableStartHandled, TableRowHandled, QueryEndHandled, SerialStartHandled,
       SerialRowHandled, PushHandled, SerialEndHandled DEF HandleFrame

LEMMA CountInvInit == Init => CountInv
PROOF
  <1> SUFFICES ASSUME Init
               PROVE  CountInv
    OBVIOUS
  <1>1. Typed
    <2>1. SessionTyped
      <3>1. NoRecord \in Records
        BY SessionAssumption DEF NoRecord, Records
      <3> QED
        BY <3>1 DEF Init, SessionTyped
    <2>2. DataTyped /\ FlagsTyped
      BY DEF Init, DataTyped, FlagsTyped
    <2>3. QueryTyped
      BY SessionAssumption DEF Init, QueryTyped, Queries
    <2>4. ControllerTyped
      BY SessionAssumption DEF Init, ControllerTyped, Nobody
    <2>5. SavedTyped
      BY EmptySeq DEF Init, SavedTyped
    <2> QED
      BY <2>1, <2>2, <2>3, <2>4, <2>5 DEF Typed
  <1>2. InFlight
    BY DEF Init, InFlight
  <1>3. Numbered /\ Older /\ Fresh /\ Kept /\ Recorded /\ Chain
    BY DEF Init, Numbered, Older, Fresh, Kept, Recorded, Chain, InCount, At, Tabling,
       NoRecord, Nobody
  <1>4. InStep
    BY DEF Init, InStep, Shown, Told, At, Tabling
  <1> QED
    BY <1>1, <1>2, <1>3, <1>4 DEF CountInv

LEMMA CountInvStep == CountInv /\ [Next]_vars => CountInv'
PROOF
  <1> SUFFICES ASSUME CountInv, [Next]_vars
               PROVE  CountInv'
    OBVIOUS
  <1>1. Typed /\ InFlight /\ Details
    BY DEF CountInv, Details
  <1>2. CASE HandleFrame
    BY <1>1, <1>2, FrameTyped, FrameKeeps DEF CountInv, Details
  <1>3. CASE User
    BY <1>1, <1>3, UserTyped, UserKeeps DEF CountInv, Details
  <1>4. CASE Poll
    BY <1>1, <1>4, PollTyped, PollKeeps DEF CountInv, Details
  <1>5. CASE Controller
    BY <1>1, <1>5, ControllerKeepsTypes, ControllerKeeps DEF CountInv, Details
  <1>6. CASE UNCHANGED vars
    <2>1. UNCHANGED coreVars /\ query' = query /\ UNCHANGED <<end_anim_wait_detail, wait_sn,
            start_pending, clear_pending, boot_ready>>
      BY <1>6 DEF vars, coreVars, shownVars, sessionVars, dataVars, historyVars, actionVars
    <2>2. Details' /\ InFlight'
      BY <1>1, <2>1, CoreUnmoved, LineUnmoved DEF coreVars
    <2>3. Typed'
      BY <1>1, <2>1 DEF coreVars, shownVars, controllerVars, Typed, SessionTyped,
         DataTyped, QueryTyped, FlagsTyped, ControllerTyped, SavedTyped
    <2> QED
      BY <2>2, <2>3 DEF CountInv, Details
  <1> QED
    BY <1>2, <1>3, <1>4, <1>5, <1>6 DEF Next

THEOREM CountingInvariant == Spec => []CountInv
PROOF
  <1> QED
    BY CountInvInit, CountInvStep, PTL DEF Spec

(* A session is saved at most once and in order, with the totals of its    *)
(* own reports, for any number of sessions and of repeated saves.          *)
THEOREM SessionsSavedOnce == Spec => []SavedOnce
PROOF
  <1>1. CountInv => SavedOnce
    <2> SUFFICES ASSUME CountInv
                 PROVE  SavedOnce
      OBVIOUS
    <2>1. TypeOK
      BY TypedParts DEF CountInv
    <2>2. saved \in Seq(Entries)
      BY DEF CountInv, Typed, SavedTyped
    <2>3. DOMAIN saved = 1 .. Len(saved)
      BY <2>2
    <2> QED
      BY <2>1, <2>3 DEF CountInv, Kept, SavedOnce
  <1> QED
    BY <1>1, CountingInvariant, PTL

(* What is saved of a session that was not disturbed is its own table and  *)
(* its own serial numbers, complete.                                       *)
THEOREM SessionsSavedComplete == Spec => []SavedComplete
PROOF
  <1>1. CountInv => SavedComplete
    <2> SUFFICES ASSUME CountInv
                 PROVE  SavedComplete
      OBVIOUS
    <2>1. saved \in Seq(Entries)
      BY DEF CountInv, Typed, SavedTyped
    <2>2. DOMAIN saved = 1 .. Len(saved)
      BY <2>1
    <2> QED
      BY <2>2 DEF CountInv, Kept, SavedComplete
  <1> QED
    BY <1>1, CountingInvariant, PTL

(* Start and clear are never both pending: a start is not asked for while  *)
(* a clear is pending, and a clear gives up a pending start.               *)
THEOREM StartOrClear == Spec => []OneAction
PROOF
  <1>1. Init => OneAction
    BY DEF Init, OneAction
  <1>2. OneAction /\ [Next]_vars => OneAction'
    <2> SUFFICES ASSUME OneAction, [Next]_vars
                 PROVE  OneAction'
      OBVIOUS
    <2>1. CASE HandleFrame
      BY <2>1 DEF OneAction, actionVars, HandleFrame, HandleStartSuccess,
         HandleStartFailure, HandleCleared, HandleLive, HandleFinished,
         HandleDenomStart, HandleDenomData, HandleQueryEnd, HandleSessionEnd,
         HandleRejectEnd, HandleSerialStart, HandleSerialData, HandlePush, HandleSerialEnd,
         HandleSwitchSuccess, HandleBootActive
    <2>2. CASE User
      BY <2>2 DEF OneAction, User, PressStart, Clear, RequestClear
    <2>3. CASE Poll
      BY <2>3 DEF OneAction, actionVars, Poll, StartTimesOut, ClearTimesOut, BootEnds,
         PollHistory, PollQuery
    <2>4. CASE Controller
      BY <2>4 DEF OneAction, actionVars, Controller, FeedNotes, Report, Push, Finish, Answer,
         ReportCurrency, Lose, PanelUnchanged
    <2>5. CASE UNCHANGED vars
      BY <2>5 DEF OneAction, actionVars, vars
    <2> QED
      BY <2>1, <2>2, <2>3, <2>4, <2>5 DEF Next
  <1> QED
    BY <1>1, <1>2, PTL DEF Spec

(* Once a session was finished its table and its totals stay on display    *)
(* until a start, a reset or a loss: a query's rows do not replace them.   *)
THEOREM DisplayStays == Spec => DisplayKept
PROOF
  <1> DEFINE Kept1 == denom = {totals} /\ totals' = totals /\ ~disturbed' => denom' = denom
             Kept2 == phase = "finished" /\ totals' # totals => phase' = "idle"
  <1>1. CountInv /\ [Next]_vars => [Kept1 /\ Kept2]_vars
    <2> SUFFICES ASSUME CountInv, [Next]_vars
                 PROVE  Kept1 /\ Kept2
      OBVIOUS
    <2>1. Typed /\ InFlight /\ InStep /\ Fresh
      BY DEF CountInv
    <2>2. Kept2
      BY DEF Next, HandleFrame, User, Poll, Controller, HandleStartSuccess,
         HandleStartFailure, HandleCleared, HandleLive, LiveIgnored, HandleFinished,
         HandleDenomStart, HandleDenomData, HandleQueryEnd, HandleSessionEnd,
         HandleRejectEnd, HandleSerialStart, HandleSerialData, HandlePush, HandleSerialEnd,
         HandleSwitchSuccess, HandleBootActive, ResetSession, PressStart, Clear,
         StartTimesOut, ClearTimesOut, BootEnds, PollHistory, PollQuery, FeedNotes,
         Report, Push, Finish, Answer, ReportCurrency, Lose, PanelUnchanged, dataVars, vars
    <2>3. SUFFICES ASSUME denom = {totals}, totals' = totals, ~disturbed'
                   PROVE  denom' = denom
      BY <2>2
    <2>4. totals # Nobody /\ totals \in denom /\ totals \in Nat /\ Nobody = 0
          /\ \A of \in denom : of # Nobody
      BY <2>1, <2>3, Numbers
    <2>5. CASE HandleDenomStart
      <3>1. /\ Handle("denom_start") /\ UNCHANGED controllerVars /\ ~disturbed /\ ~Mistaken
            /\ IF query.pending THEN denom' = denom ELSE denom' = {}
        BY <2>3, <2>5 DEF HandleDenomStart
      <3>2. frames # <<>> /\ frames[1].kind = "denom_start" /\ Of = frames[1].of
            /\ Of \in {held, Query}
            /\ (Of # Query => held \in {Nobody, current})
        BY <2>1, <3>1, Handled DEF Follows
      <3>3. ~query.pending => Tabling({"denom_start", "denom_data"}) /\ Tabling({"denom_start"})
        BY <3>1, <3>2 DEF Mistaken, Tabling
      <3>4. ~query.pending => totals \in {Nobody, held} /\ current \notin denom
        BY <2>1, <3>1, <3>3 DEF InStep, Fresh
      <3>5. ~query.pending => Of # Query
        BY <3>1 DEF Mistaken
      <3>6. query.pending
        BY <2>4, <3>2, <3>4, <3>5
      <3> QED
        BY <3>1, <3>6
    <2>6. CASE HandleDenomData
      <3>1. /\ Handle("denom_data") /\ UNCHANGED controllerVars /\ ~disturbed /\ ~Mistaken
            /\ IF query.pending THEN denom' = denom ELSE denom' = denom \cup {Of}
        BY <2>3, <2>6 DEF HandleDenomData
      <3>2. frames # <<>> /\ frames[1].kind = "denom_data" /\ Of = frames[1].of
            /\ Of \in {held, Query}
        BY <2>1, <3>1, Handled DEF Follows
      <3>3. ~query.pending => Tabling({"denom_start", "denom_data"}) /\ Of = held
        BY <3>1, <3>2 DEF Mistaken, Tabling
      <3>4. ~query.pending => totals = held
        BY <2>1, <2>4, <3>1, <3>3 DEF InStep
      <3> QED
        BY <2>3, <3>1, <3>3, <3>4
    <2>7. CASE HandleQueryEnd
      <3>1. ~disturbed /\ (denom' # denom => phase = "idle" /\ ~last_result_valid)
        BY <2>3, <2>7 DEF HandleQueryEnd, BetweenSessions
      <3> QED
        BY <2>1, <2>4, <3>1 DEF InStep
    <2>8. CASE ResetData
      BY <2>3, <2>4, <2>8 DEF ResetData
    <2> QED
      BY <2>5, <2>6, <2>7, <2>8 DEF Next, HandleFrame, User, Poll, Controller,
         HandleStartSuccess, HandleStartFailure, HandleCleared, HandleLive,
         HandleFinished, HandleSessionEnd, HandleRejectEnd, HandleSerialStart,
         HandleSerialData, HandlePush, HandleSerialEnd, HandleSwitchSuccess, HandleBootActive,
         PressStart, Clear, StartTimesOut, ClearTimesOut, BootEnds, PollHistory,
         PollQuery, FeedNotes, Report, Push, Finish, Answer, ReportCurrency, Lose,
         PanelUnchanged, dataVars, vars
  <1> QED
    BY <1>1, CountingInvariant, PTL DEF Spec, DisplayKept

-----------------------------------------------------------------------------
(* The split of the rejects, RejectAnalysis, for a pocket of any size: it  *)
(* adds up, every count stays within the pocket's, and a split that can be *)
(* right is.                                                               *)
RejectInv == RejectTypeOK /\ SplitAddsUp

(* What the split does to any two counts.                                  *)
LEMMA SplitProperty ==
  ASSUME NEW suspect \in Nat, NEW damaged \in Nat, NEW expected \in Nat
  PROVE  LET split == Split(suspect, damaged, expected)
         IN  /\ split = [suspect |-> split.suspect, damaged |-> split.damaged]
             /\ split.suspect \in Nat /\ split.damaged \in Nat
             /\ split.suspect + split.damaged = expected
  BY DEF Split

LEMMA DeltaType ==
  ASSUME NEW table \in Counts, g_reject_pocket_snapshot \in Counts
  PROVE  Delta(table) \in Counts
  BY PocketAssumption DEF Delta, Counts

LEMMA CountsAreNat ==
  ASSUME NEW counts \in Counts
  PROVE  /\ SuspectIn(counts) \in Nat /\ DamagedIn(counts) \in Nat
         /\ Total(counts) = SuspectIn(counts) + DamagedIn(counts)
         /\ \A c \in Code : counts[c] \in 0 .. MaxPocket /\ counts[c] <= Total(counts)
PROOF
  <1>1. \A c \in Code : counts[c] \in 0 .. MaxPocket
    BY DEF Counts
  <1>2. \A c \in Code : c \in {"uv", "mg", "tape", "hole"}
    BY DEF Code, Damage
  <1>3. {"uv", "mg", "tape", "hole"} \subseteq Code
    BY DEF Code, Damage
  <1> QED
    BY <1>1, <1>2, <1>3, PocketAssumption DEF SuspectIn, DamagedIn, Total

LEMMA NoneIsCounts == None \in Counts
  BY PocketAssumption DEF None, Counts

(* An analysis: the result is split, nothing else of it changes.           *)
LEMMA AnalyseKeepsInv ==
  ASSUME RejectInv, NEW listed \in Counts, last_result.expected_issue # 0, Analyse(listed)
  PROVE  /\ last_result' \in [valid : BOOLEAN, analysed : BOOLEAN,
                              expected_issue : 0 .. MaxPocket,
                              suspect_pcs : 0 .. MaxPocket, damaged_pcs : 0 .. MaxPocket]
         /\ g_reject_pocket_snapshot' \in Counts
         /\ SplitAddsUp'
PROOF
  <1> DEFINE expected == last_result.expected_issue
             selected == Selected(listed)
             split == Split(SuspectIn(selected), DamagedIn(selected), expected)
  <1>1. Expected(listed) = expected /\ expected \in 0 .. MaxPocket
    BY DEF Expected, RejectInv, RejectTypeOK
  <1>2. selected \in Counts
    BY DeltaType DEF Selected, RejectInv, RejectTypeOK
  <1>3. /\ split.suspect \in Nat /\ split.damaged \in Nat
        /\ split.suspect + split.damaged = expected
    BY <1>1, <1>2, CountsAreNat, SplitProperty, PocketAssumption
  <1>4. split.suspect \in 0 .. MaxPocket /\ split.damaged \in 0 .. MaxPocket
    BY <1>1, <1>3, PocketAssumption
  <1>5. /\ last_result' = [last_result EXCEPT !.expected_issue = expected, !.analysed = TRUE,
                             !.suspect_pcs = split.suspect, !.damaged_pcs = split.damaged]
        /\ g_reject_pocket_snapshot' = listed
    BY <1>1 DEF Analyse
  <1> HIDE DEF split
  <1>6. last_result' \in [valid : BOOLEAN, analysed : BOOLEAN, expected_issue : 0 .. MaxPocket,
                          suspect_pcs : 0 .. MaxPocket, damaged_pcs : 0 .. MaxPocket]
    BY <1>1, <1>4, <1>5 DEF RejectInv, RejectTypeOK
  <1>7. /\ last_result'.suspect_pcs = split.suspect /\ last_result'.damaged_pcs = split.damaged
        /\ last_result'.expected_issue = expected
    BY <1>5 DEF RejectInv, RejectTypeOK
  <1>8. SplitAddsUp'
    BY <1>3, <1>7 DEF SplitAddsUp
  <1> QED
    BY <1>5, <1>6, <1>8

LEMMA RejectInvInit == RejectInit => RejectInv
PROOF
  <1> SUFFICES ASSUME RejectInit
               PROVE  RejectInv
    OBVIOUS
  <1>1. last_result \in [valid : BOOLEAN, analysed : BOOLEAN, expected_issue : 0 .. MaxPocket,
                         suspect_pcs : 0 .. MaxPocket, damaged_pcs : 0 .. MaxPocket]
    BY PocketAssumption DEF RejectInit
  <1>2. comparable \in BOOLEAN
    BY DEF RejectInit
  <1>3. SplitAddsUp
    BY DEF RejectInit, SplitAddsUp
  <1> QED
    BY <1>1, <1>2, <1>3, NoneIsCounts DEF RejectInit, RejectInv, RejectTypeOK

LEMMA RejectInvNext == RejectInv /\ [RejectNext]_rejectVars => RejectInv'
PROOF
  <1> SUFFICES ASSUME RejectInv, [RejectNext]_rejectVars
               PROVE  RejectInv'
    OBVIOUS
  <1>1. CASE RejectTable
    <2>1. PICK received \in Counts :
            /\ LET listed == IF last_result.expected_issue = 0 THEN None ELSE received
               IN  IF Analysed(listed) THEN Analyse(listed)
                                       ELSE UNCHANGED <<last_result, g_reject_pocket_snapshot>>
            /\ comparable' = (comparable /\ ~last_result.analysed /\ received = pocket)
            /\ UNCHANGED <<pocket, rejected>>
      BY <1>1 DEF RejectTable
    <2>2. comparable' \in BOOLEAN
      BY <2>1, Zenon
    <2>3. CASE last_result.expected_issue # 0 /\ Analysed(received)
      BY <2>1, <2>2, <2>3, AnalyseKeepsInv DEF RejectInv, RejectTypeOK
    <2>4. CASE ~(last_result.expected_issue # 0 /\ Analysed(received))
      <3>1. UNCHANGED <<last_result, g_reject_pocket_snapshot>>
        BY <2>1, <2>4 DEF Analysed
      <3> QED
        BY <2>1, <2>2, <3>1 DEF RejectInv, RejectTypeOK, SplitAddsUp
    <2> QED
      BY <2>3, <2>4
  <1>2. ASSUME NEW rejects \in Counts, SessionFinishes(rejects)
        PROVE  RejectInv'
    <2>1. /\ Total(pocket) \in Nat /\ Total(rejects) \in Nat
          /\ Total(pocket) + Total(rejects) <= MaxPocket
          /\ \A c \in Code : /\ pocket[c] \in 0 .. MaxPocket /\ pocket[c] <= Total(pocket)
                             /\ rejects[c] \in 0 .. MaxPocket /\ rejects[c] <= Total(rejects)
      BY <1>2, CountsAreNat DEF SessionFinishes, RejectInv, RejectTypeOK
    <2>2. \A c \in Code : pocket[c] + rejects[c] \in 0 .. MaxPocket
      BY <2>1, PocketAssumption
    <2>3. pocket' \in Counts
      BY <1>2, <2>2 DEF SessionFinishes, Counts
    <2>4. Total(rejects) \in 0 .. MaxPocket
      BY <2>1, PocketAssumption
    <2>5. comparable' \in BOOLEAN
      BY <1>2 DEF SessionFinishes
    <2> QED
      BY <1>2, <2>3, <2>4, <2>5, PocketAssumption
      DEF SessionFinishes, RejectInv, RejectTypeOK, SplitAddsUp
  <1>3. CASE LastResultGoes
    <2>1. comparable' \in BOOLEAN
      BY <1>3, Zenon DEF LastResultGoes
    <2> QED
      BY <1>3, <2>1 DEF LastResultGoes, RejectInv, RejectTypeOK, SplitAddsUp
  <1>4. ASSUME NEW rest \in Counts, EmptyPocket(rest)
        PROVE  RejectInv'
    <2>1. comparable' \in BOOLEAN
      BY <1>4, Zenon DEF EmptyPocket
    <2> QED
      BY <1>4, <2>1 DEF EmptyPocket, RejectInv, RejectTypeOK, SplitAddsUp
  <1>5. CASE UNCHANGED rejectVars
    BY <1>5 DEF rejectVars, RejectInv, RejectTypeOK, SplitAddsUp
  <1> QED
    BY <1>1, <1>2, <1>3, <1>4, <1>5 DEF RejectNext

LEMMA RejectInvAlways == RejectSpec => []RejectInv
  BY RejectInvInit, RejectInvNext, PTL DEF RejectSpec

(* Whatever the pocket holds, no count leaves the pocket's range.          *)
THEOREM RejectTyped == RejectSpec => []RejectTypeOK
  BY RejectInvAlways, PTL DEF RejectInv

(* Whatever rows of the table are lost and whoever reaches into the pocket,*)
(* the suspect and the damaged notes the panel shows are not negative and  *)
(* add up to the rejects the session reported                              *)
(* (counting_reject_analysis_service.c:111-122).                           *)
THEOREM RejectsAddUp == RejectSpec => []SplitAddsUp
  BY RejectInvAlways, PTL DEF RejectInv

-----------------------------------------------------------------------------
(* A split that can be right: before the analysis the pocket holds the     *)
(* session's rejects, alone or on top of what was analysed last; after it  *)
(* the result is the session's.                                            *)
OwnSplit ==
  comparable =>
    IF last_result.analysed
      THEN /\ last_result.suspect_pcs = SuspectIn(rejected)
           /\ last_result.damaged_pcs = DamagedIn(rejected)
      ELSE /\ last_result.expected_issue = Total(rejected)
           /\ \/ pocket = rejected
              \/ \A c \in Code : pocket[c] = g_reject_pocket_snapshot[c] + rejected[c]

LEMMA CodesAre == Code = {"uv", "mg", "tape", "hole"}
  BY DEF Code, Damage

(* The whole table or what is new in it, whichever is selected, is what    *)
(* the session rejected.                                                   *)
LEMMA SelectedIsRejected ==
  ASSUME RejectTypeOK,
         last_result.expected_issue = Total(rejected), last_result.expected_issue # 0,
         \/ pocket = rejected
         \/ \A c \in Code : pocket[c] = g_reject_pocket_snapshot[c] + rejected[c]
  PROVE  \A c \in Code : Selected(pocket)[c] = rejected[c]
PROOF
  <1> DEFINE S == g_reject_pocket_snapshot
  <1>1. /\ \A c \in Code : S[c] \in Nat /\ rejected[c] \in Nat /\ pocket[c] \in Nat
        /\ Expected(pocket) = Total(rejected)
    BY CountsAreNat, PocketAssumption DEF RejectTypeOK, Expected
  <1>2. \A c \in Code : Delta(pocket)[c] = IF pocket[c] > S[c] THEN pocket[c] - S[c] ELSE 0
    BY DEF Delta
  <1> HIDE DEF S
  <1>3. CASE pocket = rejected
    BY <1>1, <1>3 DEF Selected
  <1>4. CASE \A c \in Code : pocket[c] = S[c] + rejected[c]
    <2>1. \A c \in Code : Delta(pocket)[c] = rejected[c]
      BY <1>1, <1>2, <1>4
    <2>2. Total(Delta(pocket)) = Total(rejected)
      BY <2>1, CodesAre DEF Total, SuspectIn, DamagedIn
    <2>3. CASE Total(pocket) = Total(rejected)
      <3>1. \A c \in Code : S[c] = 0
        <4>1. \A c \in Code :
                pocket[c] = S[c] + rejected[c] /\ S[c] \in Nat /\ rejected[c] \in Nat
          BY <1>1, <1>4
        <4>2. /\ pocket["uv"] = S["uv"] + rejected["uv"] /\ S["uv"] \in Nat
              /\ pocket["mg"] = S["mg"] + rejected["mg"] /\ S["mg"] \in Nat
              /\ pocket["tape"] = S["tape"] + rejected["tape"] /\ S["tape"] \in Nat
              /\ pocket["hole"] = S["hole"] + rejected["hole"] /\ S["hole"] \in Nat
              /\ rejected["uv"] \in Nat /\ rejected["mg"] \in Nat
              /\ rejected["tape"] \in Nat /\ rejected["hole"] \in Nat
          BY <4>1, CodesAre
        <4>3. S["uv"] = 0 /\ S["mg"] = 0 /\ S["tape"] = 0 /\ S["hole"] = 0
          <5>1. ((S["uv"] + rejected["uv"]) + (S["mg"] + rejected["mg"]))
                  + ((S["tape"] + rejected["tape"]) + (S["hole"] + rejected["hole"]))
                = (rejected["uv"] + rejected["mg"]) + (rejected["tape"] + rejected["hole"])
            BY <2>3, <4>2, Zenon DEF Total, SuspectIn, DamagedIn
          <5> DEFINE a == S["uv"]  b == S["mg"]  c == S["tape"]  d == S["hole"]
                     e == rejected["uv"]   f == rejected["mg"]
                     g == rejected["tape"] h == rejected["hole"]
          <5>2. /\ a \in Nat /\ b \in Nat /\ c \in Nat /\ d \in Nat
                /\ e \in Nat /\ f \in Nat /\ g \in Nat /\ h \in Nat
                /\ ((a + e) + (b + f)) + ((c + g) + (d + h)) = (e + f) + (g + h)
            BY <4>2, <5>1
          <5> HIDE DEF a, b, c, d, e, f, g, h
          <5>3. a = 0 /\ b = 0 /\ c = 0 /\ d = 0
            BY <5>2
          <5> QED
            BY <5>3 DEF a, b, c, d
        <4> QED
          BY <4>3, CodesAre
      <3>2. \A c \in Code : pocket[c] = rejected[c]
        BY <1>1, <1>4, <3>1
      <3> QED
        BY <1>1, <2>3, <3>2 DEF Selected
    <2>4. CASE Total(pocket) # Total(rejected)
      BY <1>1, <2>1, <2>2, <2>4 DEF Selected
    <2> QED
      BY <2>3, <2>4
  <1> QED
    BY <1>3, <1>4 DEF S

(* The analysis of a whole table whose split can be right.                 *)
LEMMA AnalysisIsTrue ==
  ASSUME RejectTypeOK, OwnSplit, comparable, ~last_result.analysed,
         last_result.expected_issue # 0, Analyse(pocket)
  PROVE  /\ last_result'.analysed = TRUE
         /\ last_result'.suspect_pcs = SuspectIn(rejected)
         /\ last_result'.damaged_pcs = DamagedIn(rejected)
PROOF
  <1> DEFINE split == Split(SuspectIn(rejected), DamagedIn(rejected), Total(rejected))
  <1>1. \A c \in Code : Selected(pocket)[c] = rejected[c]
    BY SelectedIsRejected DEF OwnSplit
  <1>2. /\ SuspectIn(Selected(pocket)) = SuspectIn(rejected)
        /\ DamagedIn(Selected(pocket)) = DamagedIn(rejected)
    BY <1>1, CodesAre DEF SuspectIn, DamagedIn
  <1>3. Expected(pocket) = Total(rejected)
    BY DEF Expected, OwnSplit
  <1>4. last_result' = [last_result EXCEPT !.expected_issue = Total(rejected), !.analysed = TRUE,
                          !.suspect_pcs = split.suspect, !.damaged_pcs = split.damaged]
    BY <1>2, <1>3 DEF Analyse
  <1>5. split = [suspect |-> SuspectIn(rejected), damaged |-> DamagedIn(rejected)]
    <2>1. /\ SuspectIn(rejected) \in Nat /\ DamagedIn(rejected) \in Nat
          /\ Total(rejected) = SuspectIn(rejected) + DamagedIn(rejected)
      BY CountsAreNat DEF RejectTypeOK
    <2>2. ASSUME NEW a \in Nat, NEW b \in Nat
          PROVE  Split(a, b, a + b) = [suspect |-> a, damaged |-> b]
      BY DEF Split
    <2> QED
      BY <2>1, <2>2
  <1> HIDE DEF split
  <1> QED
    BY <1>4, <1>5 DEF RejectTypeOK

LEMMA OwnSplitNext == RejectInv /\ OwnSplit /\ [RejectNext]_rejectVars => OwnSplit'
PROOF
  <1> SUFFICES ASSUME RejectInv, OwnSplit, [RejectNext]_rejectVars, comparable'
               PROVE  OwnSplit'
    BY DEF OwnSplit
  <1>0. RejectTypeOK
    BY DEF RejectInv
  <1>1. CASE RejectTable
    <2>1. PICK received \in Counts :
            /\ LET listed == IF last_result.expected_issue = 0 THEN None ELSE received
               IN  IF Analysed(listed) THEN Analyse(listed)
                                       ELSE UNCHANGED <<last_result, g_reject_pocket_snapshot>>
            /\ comparable' = (comparable /\ ~last_result.analysed /\ received = pocket)
            /\ UNCHANGED <<pocket, rejected>>
      BY <1>1 DEF RejectTable
    <2>2. comparable /\ ~last_result.analysed /\ received = pocket
      BY <2>1, Zenon
    <2>3. CASE last_result.expected_issue # 0 /\ Analysed(received)
      <3>1. Analyse(pocket)
        BY <2>1, <2>2, <2>3
      <3>2. /\ last_result'.analysed = TRUE
            /\ last_result'.suspect_pcs = SuspectIn(rejected)
            /\ last_result'.damaged_pcs = DamagedIn(rejected)
        BY <1>0, <2>2, <2>3, <3>1, AnalysisIsTrue
      <3> QED
        BY <2>1, <3>2 DEF OwnSplit, SuspectIn, DamagedIn
    <2>4. CASE ~(last_result.expected_issue # 0 /\ Analysed(received))
      <3>1. UNCHANGED <<last_result, g_reject_pocket_snapshot>>
        BY <2>1, <2>4 DEF Analysed
      <3> QED
        BY <2>1, <2>2, <3>1 DEF OwnSplit, Total, SuspectIn, DamagedIn
    <2> QED
      BY <2>3, <2>4
  <1>2. ASSUME NEW rejects \in Counts, SessionFinishes(rejects)
        PROVE  OwnSplit'
    <2>1. /\ last_result'.analysed = FALSE /\ last_result'.expected_issue = Total(rejects)
          /\ rejected' = rejects /\ g_reject_pocket_snapshot' = g_reject_pocket_snapshot
          /\ \A c \in Code : pocket'[c] = pocket[c] + rejects[c]
          /\ pocket' = [c \in Code |-> pocket[c] + rejects[c]]
          /\ pocket = None \/ pocket = g_reject_pocket_snapshot
      BY <1>2 DEF SessionFinishes
    <2>2. CASE pocket = None
      <3>1. \A c \in Code : pocket[c] + rejects[c] = rejects[c]
        BY <2>2, PocketAssumption DEF None, Counts
      <3>2. pocket' = rejects
        BY <2>1, <3>1 DEF Counts
      <3> QED
        BY <2>1, <3>2 DEF OwnSplit, Total, SuspectIn, DamagedIn
    <2>3. CASE pocket = g_reject_pocket_snapshot
      BY <2>1, <2>3 DEF OwnSplit, Total, SuspectIn, DamagedIn
    <2> QED
      BY <2>1, <2>2, <2>3
  <1>3. CASE LastResultGoes
    <2>1. comparable /\ last_result.analysed
      BY <1>3, Zenon DEF LastResultGoes
    <2> QED
      BY <1>0, <1>3, <2>1 DEF LastResultGoes, OwnSplit, RejectTypeOK, SuspectIn, DamagedIn
  <1>4. ASSUME NEW rest \in Counts, EmptyPocket(rest)
        PROVE  OwnSplit'
    <2>1. comparable /\ last_result.analysed
      BY <1>4, Zenon DEF EmptyPocket
    <2> QED
      BY <1>4, <2>1 DEF EmptyPocket, OwnSplit, SuspectIn, DamagedIn
  <1>5. CASE UNCHANGED rejectVars
    BY <1>5 DEF rejectVars, OwnSplit, Total, SuspectIn, DamagedIn
  <1> QED
    BY <1>1, <1>2, <1>3, <1>4, <1>5 DEF RejectNext

(* While the split can be right it is the session's own, whatever earlier  *)
(* sessions left in the pocket (counting_reject_analysis_service.c:91-100).*)
THEOREM RejectsAreTrue == RejectSpec => []SplitIsTrue
PROOF
  <1>1. RejectInit => OwnSplit
    BY DEF RejectInit, OwnSplit
  <1>2. RejectInv /\ OwnSplit => SplitIsTrue
    BY DEF RejectInv, OwnSplit, SplitIsTrue
  <1> QED
    BY <1>1, <1>2, OwnSplitNext, RejectInvAlways, PTL DEF RejectSpec
=============================================================================
