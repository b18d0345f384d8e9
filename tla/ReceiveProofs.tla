---------------------------- MODULE ReceiveProofs ---------------------------
(***************************************************************************)
(* Proofs about the serial runtime and the parser its receive thread runs. *)
(* SerialRuntime, for any capacity, number of sessions and pieces of a     *)
(* frame: no thread uses a closed descriptor, frames do not mix on the     *)
(* line, start is all or nothing, and what is popped is of this session.   *)
(* FrameParser, for any alphabet and any pair of size limits: its overflow *)
(* and whole-frame checks are never met, it hands over exactly what was on *)
(* the line and misses no frame that began outside another.                *)
(***************************************************************************)
EXTENDS SerialRuntime, FrameParser, SequenceTheorems, TLAPS

MainPlace == {"idle", "start_rx", "start_bridge", "stop", "join_bridge", "stop_rx",
              "join_rx", "close", "lock", "write"}
ServicePlace == {"none", "check", "recv", "push", "lock", "write", "exited"}

ControlTyped ==
  /\ pc \in [Thread -> MainPlace \cup ServicePlace]
  /\ pc["main"] \in MainPlace
  /\ \A s \in Service : pc[s] \in ServicePlace
  /\ flag \in [Service -> BOOLEAN]
  /\ g_started \in [Service -> BOOLEAN]
  /\ g_running \in [Service -> BOOLEAN]
  /\ txOwner \in Thread \cup {"none"}
  /\ unsent \in [Thread -> 0 .. FrameLength]

(* The two flags of a service and its thread say the same, and a thread    *)
(* ends only when it was told to.                                          *)
ThreadsAgree ==
  \A s \in Service :
    /\ flag[s] <=> g_started[s]
    /\ g_started[s] <=> pc[s] # "none"
    /\ pc[s] = "exited" => ~g_running[s]
    /\ g_started[s] => open = Device

(* How far starting and stopping have come.                                *)
Up == open = Device /\ \A s \in Service : g_started[s] /\ g_running[s]
Down == open = {} /\ g_count = 0 /\ \A s \in Service : ~g_started[s]
Phases ==
  /\ pc["main"] = "start_rx" => open = Device /\ \A s \in Service : ~g_started[s]
  /\ pc["main"] = "start_bridge" =>
       open = Device /\ g_started["rx"] /\ g_running["rx"] /\ ~g_started["bridge"]
  /\ pc["main"] \in {"stop_rx", "join_rx", "close"} => ~g_started["bridge"]
  /\ pc["main"] = "close" => ~g_started["rx"]
  /\ pc["main"] \in {"idle", "lock", "write"} => Up \/ Down

(* Who writes holds the mutex, and only he has a frame left to write.      *)
SenderOwns ==
  \A t \in Thread : /\ pc[t] = "write" <=> txOwner = t
                    /\ unsent[t] # 0 => txOwner = t

SerialInv == ControlTyped /\ ThreadsAgree /\ Phases /\ SenderOwns

LEMMA SerialInvInit == Init => SerialInv
  BY SerialAssumption
  DEF Init, SerialInv, ControlTyped, ThreadsAgree, Phases, Up, Down, SenderOwns,
      MainPlace, ServicePlace, Service, Thread, Device, Queue!Init, Queue!InitRing

(* The steps of the main thread that start and stop.                       *)
LEMMA StartKeepsInv ==
  ASSUME SerialInv, StartOpen \/ StartRx \/ StartBridge
  PROVE  SerialInv'
PROOF
  <1> USE DEF SerialInv, ControlTyped, ThreadsAgree, Phases, Up, Down, SenderOwns, MainPlace,
              ServicePlace, Service, Thread, Goto, serviceVars, rxVars, txVars, queueVars
  <1>1. CASE StartOpen
    <2>1. Device # {}
      BY DEF Device
    <2>2. \A s \in Service : ~g_started[s]
      BY <1>1, <2>1 DEF StartOpen
    <2> QED
      BY <1>1, <2>1, <2>2 DEF StartOpen
  <1>2. CASE StartRx
    <2>1. /\ pc["main"] = "start_rx" /\ open = Device /\ ~g_started["rx"] /\ pc["rx"] = "none"
      BY <1>2 DEF StartRx, StartService
    <2>2. CASE pc' = [pc EXCEPT !["main"] = "stop"] /\ UNCHANGED serviceVars
      BY <1>2, <2>1, <2>2 DEF StartRx, StartService
    <2>3. CASE /\ g_running' = [g_running EXCEPT !["rx"] = TRUE]
               /\ g_started' = [g_started EXCEPT !["rx"] = TRUE]
               /\ flag' = [flag EXCEPT !["rx"] = TRUE]
               /\ pc' = [pc EXCEPT !["rx"] = "check", !["main"] = "start_bridge"]
      BY <1>2, <2>1, <2>3 DEF StartRx, StartService
    <2> QED
      BY <1>2, <2>2, <2>3 DEF StartRx, StartService
  <1>3. CASE StartBridge
    <2>1. /\ pc["main"] = "start_bridge" /\ open = Device /\ ~g_started["bridge"] /\ pc["bridge"] = "none"
      BY <1>3 DEF StartBridge, StartService
    <2>2. CASE pc' = [pc EXCEPT !["main"] = "stop"] /\ UNCHANGED serviceVars
      BY <1>3, <2>1, <2>2 DEF StartBridge, StartService
    <2>3. CASE /\ g_running' = [g_running EXCEPT !["bridge"] = TRUE]
               /\ g_started' = [g_started EXCEPT !["bridge"] = TRUE]
               /\ flag' = [flag EXCEPT !["bridge"] = TRUE]
               /\ pc' = [pc EXCEPT !["bridge"] = "check", !["main"] = "idle"]
      BY <1>3, <2>1, <2>3 DEF StartBridge, StartService
    <2> QED
      BY <1>3, <2>2, <2>3 DEF StartBridge, StartService
  <1> QED
    BY <1>1, <1>2, <1>3

LEMMA StopKeepsInv ==
  ASSUME SerialInv, Stop \/ StopBridge \/ JoinBridge \/ StopRx \/ JoinRx \/ CloseDevices
  PROVE  SerialInv'
PROOF
  <1> USE DEF SerialInv, ControlTyped, ThreadsAgree, Phases, Up, Down, SenderOwns, MainPlace,
              ServicePlace, Service, Thread, Goto, serviceVars, rxVars, txVars, queueVars
  <1>1. CASE Stop
    BY <1>1 DEF Stop
  <1>2. CASE StopBridge
    <2>1. pc["main"] = "stop"
      BY <1>2 DEF StopBridge, StopService
    <2>2. CASE flag["bridge"] /\ g_started["bridge"]
      <3>1. /\ g_running' = [g_running EXCEPT !["bridge"] = FALSE]
            /\ pc' = [pc EXCEPT !["main"] = "join_bridge"]
        BY <1>2, <2>2 DEF StopBridge, StopService
      <3> QED
        BY <1>2, <2>1, <2>2, <3>1 DEF StopBridge, StopService
    <2>3. CASE ~(flag["bridge"] /\ g_started["bridge"])
      <3>1. UNCHANGED g_running /\ pc' = [pc EXCEPT !["main"] = "stop_rx"]
        BY <1>2, <2>3 DEF StopBridge, StopService
      <3> QED
        BY <1>2, <2>1, <2>3, <3>1 DEF StopBridge, StopService
    <2> QED
      BY <2>2, <2>3
  <1>3. CASE JoinBridge
    BY <1>3 DEF JoinBridge, JoinService
  <1>4. CASE StopRx
    <2>1. pc["main"] = "stop_rx"
      BY <1>4 DEF StopRx, StopService
    <2>2. CASE flag["rx"] /\ g_started["rx"]
      <3>1. /\ g_running' = [g_running EXCEPT !["rx"] = FALSE]
            /\ pc' = [pc EXCEPT !["main"] = "join_rx"]
        BY <1>4, <2>2 DEF StopRx, StopService
      <3> QED
        BY <1>4, <2>1, <2>2, <3>1 DEF StopRx, StopService
    <2>3. CASE ~(flag["rx"] /\ g_started["rx"])
      <3>1. UNCHANGED g_running /\ pc' = [pc EXCEPT !["main"] = "close"]
        BY <1>4, <2>3 DEF StopRx, StopService
      <3> QED
        BY <1>4, <2>1, <2>3, <3>1 DEF StopRx, StopService
    <2> QED
      BY <2>2, <2>3
  <1>5. CASE JoinRx
    BY <1>5 DEF JoinRx, JoinService
  <1>6. CASE CloseDevices
    BY <1>6 DEF CloseDevices, Queue!Clear
  <1> QED
    BY <1>1, <1>2, <1>3, <1>4, <1>5, <1>6

(* Sending, by the main thread or the bridge.                              *)
LEMMA SendKeepsInv ==
  ASSUME SerialInv, NEW t \in {"main", "bridge"}, LockTx(t) \/ Write(t) \/ WriteFails(t)
  PROVE  SerialInv'
PROOF
  <1> USE SerialAssumption
      DEF SerialInv, ControlTyped, ThreadsAgree, Phases, Up, Down, SenderOwns, MainPlace,
          ServicePlace, Service, Thread, Goto, AfterSend, serviceVars, rxVars, queueVars
  <1>1. CASE LockTx(t)
    BY <1>1 DEF LockTx
  <1>2. CASE Write(t)
    BY <1>2 DEF Write
  <1>3. CASE WriteFails(t)
    BY <1>3 DEF WriteFails
  <1> QED
    BY <1>1, <1>2, <1>3

(* The other steps of the two services, and the calls of the main loop.    *)
LEMMA ServiceKeepsInv ==
  ASSUME SerialInv,
         \/ \E s \in Service : CheckRunning(s) \/ RecvNothing(s)
         \/ RxFirstByte \/ RxLastByte \/ RxPush \/ BridgeChunk \/ SendCalled \/ PopFrame
  PROVE  SerialInv'
PROOF
  <1> USE DEF SerialInv, ControlTyped, ThreadsAgree, Phases, Up, Down, SenderOwns, MainPlace,
              ServicePlace, Service, Thread, Goto, serviceVars, rxVars, txVars, queueVars
  <1>1. ASSUME NEW s \in Service, CheckRunning(s) PROVE SerialInv'
    BY <1>1 DEF CheckRunning
  <1>2. ASSUME NEW s \in Service, RecvNothing(s) PROVE SerialInv'
    BY <1>2 DEF RecvNothing
  <1>3. CASE RxFirstByte
    BY <1>3 DEF RxFirstByte
  <1>4. CASE RxLastByte
    BY <1>4 DEF RxLastByte
  <1>5. CASE RxPush
    BY <1>5 DEF RxPush
  <1>6. CASE BridgeChunk
    BY <1>6 DEF BridgeChunk
  <1>7. CASE SendCalled
    BY <1>7 DEF SendCalled
  <1>8. CASE PopFrame
    BY <1>8 DEF PopFrame, Queue!Pop
  <1> QED
    BY <1>1, <1>2, <1>3, <1>4, <1>5, <1>6, <1>7, <1>8

LEMMA SerialInvStep == SerialInv /\ [Next]_vars => SerialInv'
PROOF
  <1> SUFFICES ASSUME SerialInv, [Next]_vars PROVE SerialInv'
    OBVIOUS
  <1>1. CASE UNCHANGED vars
    BY <1>1 DEF vars, serviceVars, rxVars, txVars, queueVars, SerialInv, ControlTyped,
                ThreadsAgree, Phases, Up, Down, SenderOwns
  <1>2. CASE Next
    BY <1>2, StartKeepsInv, StopKeepsInv, SendKeepsInv, ServiceKeepsInv
    DEF Next, RxStep, BridgeStep, MainStep, Call, Service
  <1> QED
    BY <1>1, <1>2

LEMMA SerialInvAlways == Spec => []SerialInv
  BY SerialInvInit, SerialInvStep, PTL DEF Spec

(* For any number of sessions, no service thread is left once a device is  *)
(* closed (app_serial_runtime.c:114-126).                                  *)
THEOREM SerialDescriptors == Spec => []NoUseAfterClose
PROOF
  <1>1. SerialInv => NoUseAfterClose
    BY DEF SerialInv, ThreadsAgree, NoUseAfterClose, Alive
  <1> QED
    BY <1>1, SerialInvAlways, PTL

(* However write() cuts the frames, no frame begins inside another         *)
(* (uart_io.c:47-80).                                                      *)
THEOREM SerialFrames == Spec => []OneSenderMidFrame
PROOF
  <1>1. SerialInv => OneSenderMidFrame
    BY SerialAssumption DEF SerialInv, ControlTyped, SenderOwns, OneSenderMidFrame
  <1> QED
    BY <1>1, SerialInvAlways, PTL

(* Whatever fails to open, to be configured or to start, and however often *)
(* the runtime is started: all of it runs or nothing is left               *)
(* (app_serial_runtime.c:69-126).                                          *)
THEOREM SerialAllOrNothing == Spec => []AllOrNothing
PROOF
  <1>1. SerialInv => AllOrNothing
    BY DEF SerialInv, ControlTyped, ThreadsAgree, Phases, Up, Down, AllOrNothing, IsStarted,
           Alive, Service
  <1> QED
    BY <1>1, SerialInvAlways, PTL

-----------------------------------------------------------------------------
(* What is on its way to the main loop was read in this session.           *)
Ring == INSTANCE FrameQueueProofs WITH Frame <- Received, NoFrame <- NoReceived

This == [first |-> session, last |-> session]

DataTyped ==
  /\ open \subseteq Device /\ session \in 0 .. MaxSession
  /\ partial \in 0 .. MaxSession /\ view \in Received \cup {NoReceived}
  /\ open # {} => session # 0

ReadNow ==
  /\ Alive("rx") => partial \in {0, session}
  /\ pc["rx"] = "push" => view = This

WaitingNow == \A i \in 0 .. g_count - 1 : g_frames[Ring!SlotAt(g_head + i)] = This

SessionInv == DataTyped /\ ReadNow /\ WaitingNow /\ Ring!RingInv

LEMMA QueueAssumptions == Capacity \in Nat \ {0} /\ NoReceived \notin Received
PROOF
  <1>1. \A r \in Received : r.first # 0
    BY SerialAssumption DEF Received, Session
  <1>2. NoReceived.first = 0
    BY DEF NoReceived
  <1> QED
    BY <1>1, <1>2, SerialAssumption

(* Where the cursors of the ring come to stand.                            *)
LEMMA RingSlots ==
  /\ \A h \in Ring!Slot, i \in 0 .. Capacity :
       /\ Ring!SlotAt(h + i) \in Ring!Slot /\ Ring!SlotAt(h) = h
       /\ Ring!SlotAt(Ring!SlotAt(h + 1) + i) = Ring!SlotAt(h + (i + 1))
  /\ \A h \in Ring!Slot : \A i, j \in 0 .. Capacity - 1 :
       i # j => Ring!SlotAt(h + i) # Ring!SlotAt(h + j)
PROOF
  <1>1. ASSUME NEW h \in Ring!Slot, NEW i \in 0 .. Capacity
        PROVE  /\ Ring!SlotAt(h + i) \in Ring!Slot /\ Ring!SlotAt(h) = h
               /\ Ring!SlotAt(Ring!SlotAt(h + 1) + i) = Ring!SlotAt(h + (i + 1))
    BY Ring!SlotShift, QueueAssumptions
  <1>2. ASSUME NEW h \in Ring!Slot, NEW i \in 0 .. Capacity - 1, NEW j \in 0 .. Capacity - 1,
               i # j
        PROVE  Ring!SlotAt(h + i) # Ring!SlotAt(h + j)
    BY <1>2, Ring!SlotsDistinct, QueueAssumptions
  <1> QED
    BY <1>1, <1>2

LEMMA ThisReceived == DataTyped /\ open # {} => This \in Received
  BY SerialAssumption DEF DataTyped, This, Received, Session

LEMMA SessionInit == Init => SessionInv
PROOF
  <1> SUFFICES ASSUME Init PROVE SessionInv
    OBVIOUS
  <1>1. DataTyped
    BY SerialAssumption DEF Init, DataTyped
  <1>2. ReadNow
    BY DEF Init, ReadNow, Alive, Thread, Service
  <1>3. WaitingNow
    BY DEF Init, WaitingNow, Queue!Init, Queue!InitRing
  <1>4. Ring!Init
    BY DEF Init, Queue!Init, Queue!InitRing, Queue!Slot, Ring!Init, Ring!InitRing, Ring!Slot
  <1>5. Ring!RingInv
    BY <1>4, QueueAssumptions, Ring!RingInvInit
  <1> QED
    BY <1>1, <1>2, <1>3, <1>5 DEF SessionInv

(* The ring takes a frame of this session.                                 *)
LEMMA PushKeepsSession ==
  ASSUME SessionInv, open # {}, Queue!Push(This), UNCHANGED session
  PROVE  WaitingNow' /\ Ring!RingInv'
PROOF
  <1>1. This \in Received
    BY ThisReceived DEF SessionInv
  <1>2. Ring!Push(This)
    BY DEF Queue!Push, Ring!Push, Queue!SlotAt, Ring!SlotAt
  <1>3. Ring!RingInv'
    BY <1>1, <1>2, QueueAssumptions, Ring!PushKeepsRing DEF SessionInv
  <1>4. /\ g_head \in 0 .. Capacity - 1 /\ g_count \in 0 .. Capacity - 1
        /\ g_tail = Ring!SlotAt(g_head + g_count) /\ g_tail \in 0 .. Capacity - 1
        /\ g_frames \in [0 .. Capacity - 1 -> Received \cup {NoReceived}]
    BY QueueAssumptions
    DEF SessionInv, Ring!RingInv, Ring!TypeOK, Ring!CursorsAgree, Ring!Slot, Queue!Push
  <1>5. /\ g_frames' = [g_frames EXCEPT ![g_tail] = This]
        /\ g_count' = g_count + 1 /\ g_head' = g_head /\ This' = This
    BY DEF Queue!Push, This
  <1> SUFFICES ASSUME NEW i \in 0 .. g_count
               PROVE  g_frames'[Ring!SlotAt(g_head + i)] = This
    BY <1>3, <1>4, <1>5 DEF WaitingNow
  <1>6. CASE i = g_count
    BY <1>4, <1>5, <1>6
  <1>7. CASE i \in 0 .. g_count - 1
    <2>0. g_head \in Ring!Slot /\ {i, g_count} \subseteq 0 .. Capacity - 1 /\ i # g_count
      BY <1>4, <1>7, QueueAssumptions DEF Ring!Slot
    <2>1. Ring!SlotAt(g_head + i) # g_tail
      BY <1>4, <2>0, RingSlots
    <2>2. g_frames[Ring!SlotAt(g_head + i)] = This
      BY <1>7 DEF SessionInv, WaitingNow
    <2>3. Ring!SlotAt(g_head + i) \in 0 .. Capacity - 1
      <3>1. i \in 0 .. Capacity
        BY <2>0, QueueAssumptions
      <3>2. Ring!SlotAt(g_head + i) \in Ring!Slot
        BY <2>0, <3>1, RingSlots
      <3> QED
        BY <3>2 DEF Ring!Slot
    <2> QED
      BY <1>4, <1>5, <2>1, <2>2, <2>3
  <1> QED
    BY <1>4, <1>6, <1>7

(* What is popped was read in this session, and so is what is left.        *)
LEMMA PopKeepsSession ==
  ASSUME SessionInv, Queue!Pop, UNCHANGED session
  PROVE  WaitingNow' /\ Ring!RingInv' /\ popped' = This
PROOF
  <1>1. Ring!Pop
    BY DEF Queue!Pop, Ring!Pop, Queue!SlotAt, Ring!SlotAt
  <1>2. Ring!RingInv'
    BY <1>1, QueueAssumptions, Ring!PopKeepsRing DEF SessionInv
  <1>3. g_head \in 0 .. Capacity - 1 /\ g_count \in 1 .. Capacity
    BY QueueAssumptions DEF SessionInv, Ring!RingInv, Ring!TypeOK, Ring!Slot, Queue!Pop
  <1>4. /\ g_frames' = g_frames /\ g_head' = Ring!SlotAt(g_head + 1)
        /\ g_count' = g_count - 1 /\ popped' = g_frames[g_head] /\ This' = This
    BY <1>1 DEF Ring!Pop, This
  <1>5. popped' = This
    <2>1. Ring!SlotAt(g_head + 0) = g_head
      <3>1. g_head + 0 = g_head
        BY <1>3
      <3> QED
        BY <1>3, <3>1, QueueAssumptions, RingSlots, 0 \in 0 .. Capacity
        DEF Ring!Slot
    <2>2. 0 \in 0 .. g_count - 1
      BY <1>3
    <2> QED
      BY <1>4, <2>1, <2>2 DEF SessionInv, WaitingNow
  <1>6. ASSUME NEW i \in 0 .. g_count - 2
        PROVE  g_frames[Ring!SlotAt(Ring!SlotAt(g_head + 1) + i)] = This
    <2>1. Ring!SlotAt(Ring!SlotAt(g_head + 1) + i) = Ring!SlotAt(g_head + (i + 1))
      <3>1. g_head \in Ring!Slot /\ i \in 0 .. Capacity
        BY <1>3, QueueAssumptions DEF Ring!Slot
      <3> QED
        BY <3>1, RingSlots
    <2>2. i + 1 \in 0 .. g_count - 1
      BY <1>3
    <2> QED
      BY <2>1, <2>2 DEF SessionInv, WaitingNow
  <1>7. WaitingNow'
    BY <1>3, <1>4, <1>6 DEF WaitingNow
  <1> QED
    BY <1>2, <1>5, <1>7

(* The steps that leave the ring as it is.                                 *)
LEMMA RingUnmoved ==
  ASSUME SessionInv, UNCHANGED <<session, queueVars>>
  PROVE  WaitingNow' /\ Ring!RingInv'
  BY DEF SessionInv, WaitingNow, This, queueVars, Ring!RingInv, Ring!TypeOK, Ring!CursorsAgree,
         Ring!WaitingSlotsWritten

LEMMA ClearKeepsSession ==
  ASSUME SessionInv, Queue!Clear
  PROVE  WaitingNow' /\ Ring!RingInv'
PROOF
  <1>1. Ring!Clear
    BY DEF Queue!Clear, Ring!Clear
  <1>2. Ring!RingInv'
    BY <1>1, QueueAssumptions, Ring!ClearKeepsRing DEF SessionInv
  <1>3. WaitingNow'
    BY DEF Queue!Clear, WaitingNow
  <1> QED
    BY <1>2, <1>3

-----------------------------------------------------------------------------
(* Steps of the receive thread.                                            *)
LEMMA RxKeepsSession ==
  ASSUME SerialInv, SessionInv, RxStep
  PROVE  SessionInv'
PROOF
  <1>1. pc["rx"] \in {"check", "recv", "push"} /\ pc' = [pc EXCEPT !["rx"] = pc'["rx"]]
        /\ UNCHANGED <<open, session>>
    BY DEF RxStep, CheckRunning, RecvNothing, RxFirstByte, RxLastByte, RxPush, Goto,
           SerialInv, ControlTyped, Service, Thread
  <1>2. open = Device /\ open # {} /\ session # 0 /\ partial \in {0, session}
    BY <1>1
    DEF SerialInv, ThreadsAgree, Service, SessionInv, DataTyped, ReadNow, Alive, Device
  <1>3. This \in Received /\ This' = This
    BY <1>1, <1>2, ThisReceived DEF SessionInv, This
  <1>4. DataTyped' /\ ReadNow'
    <2> USE DEF SessionInv, DataTyped, ReadNow, Alive
    <2>1. CASE CheckRunning("rx") \/ RecvNothing("rx")
      BY <1>1, <1>2, <2>1
      DEF CheckRunning, RecvNothing, Goto, rxVars, SerialInv, ControlTyped, Service, Thread
    <2>2. CASE RxFirstByte
      BY <1>1, <1>2, <2>2 DEF RxFirstByte, Goto, SerialInv, ControlTyped, Service, Thread
    <2>3. CASE RxLastByte
      <3>1. view' = This /\ partial' = 0
        BY <1>2, <2>3 DEF RxLastByte, This
      <3>2. DataTyped'
        BY <1>1, <1>3, <3>1, SerialAssumption
      <3>3. ReadNow'
        BY <1>3, <3>1
      <3> QED
        BY <3>2, <3>3
    <2>4. CASE RxPush
      BY <1>1, <1>2, <2>4 DEF RxPush, Goto, rxVars, SerialInv, ControlTyped, Service, Thread
    <2> QED
      BY <2>1, <2>2, <2>3, <2>4 DEF RxStep
  <1>5. WaitingNow' /\ Ring!RingInv'
    <2>1. CASE UNCHANGED queueVars
      BY <1>1, <2>1, RingUnmoved
    <2>2. CASE RxPush
      <3>1. view = This
        BY <2>2 DEF RxPush, SessionInv, ReadNow
      <3>2. Queue!Push(This) \/ UNCHANGED queueVars
        BY <2>2, <3>1 DEF RxPush, Queue!PushRefused, queueVars
      <3> QED
        BY <1>1, <1>2, <2>1, <3>2, PushKeepsSession
    <2> QED
      BY <2>1, <2>2 DEF RxStep, CheckRunning, RecvNothing, RxFirstByte, RxLastByte
  <1> QED
    BY <1>4, <1>5 DEF SessionInv

(* A session begins where no thread reads and no frame waits.              *)
LEMMA OpenKeepsSession ==
  ASSUME SerialInv, SessionInv, StartOpen
  PROVE  SessionInv'
PROOF
  <1>1. pc["rx"] = "none" /\ g_count = 0
    BY DEF StartOpen, SerialInv, ThreadsAgree, Phases, Up, Down, Service, Device
  <1>2. pc'["rx"] = "none"
    BY <1>1 DEF StartOpen, Goto, SerialInv, ControlTyped, Service, Thread
  <1>3. DataTyped'
    BY SerialAssumption DEF StartOpen, SessionInv, DataTyped, rxVars
  <1>4. ReadNow'
    BY <1>2 DEF ReadNow, Alive
  <1>5. Ring!RingInv' /\ g_count' = 0
    <2>1. CASE Queue!Clear
      BY <2>1, ClearKeepsSession DEF Queue!Clear
    <2>2. CASE UNCHANGED queueVars
      BY <1>1, <2>2
      DEF SessionInv, queueVars, Ring!RingInv, Ring!TypeOK, Ring!CursorsAgree,
          Ring!WaitingSlotsWritten
    <2> QED
      BY <2>1, <2>2 DEF StartOpen
  <1>6. WaitingNow'
    BY <1>5 DEF WaitingNow
  <1> QED
    BY <1>3, <1>4, <1>5, <1>6 DEF SessionInv

(* The steps that leave what was read alone, and start no reader.          *)
LEMMA ReaderUnmoved ==
  ASSUME SessionInv, UNCHANGED <<open, session, rxVars, queueVars>>,
         pc'["rx"] = pc["rx"] \/ pc'["rx"] = "none"
  PROVE  SessionInv'
PROOF
  <1>1. DataTyped' /\ ReadNow'
    BY DEF SessionInv, DataTyped, ReadNow, Alive, This, rxVars
  <1> QED
    BY <1>1, RingUnmoved DEF SessionInv

LEMMA SessionStep ==
  ASSUME SerialInv, SessionInv, [Next]_vars
  PROVE  SessionInv'
PROOF
  <1> USE DEF Goto, SerialInv, ControlTyped, Service, Thread
  <1>1. CASE RxStep
    BY <1>1, RxKeepsSession
  <1>2. CASE BridgeStep
    <2>1. UNCHANGED <<open, session, rxVars, queueVars>> /\ pc'["rx"] = pc["rx"]
      BY <1>2
      DEF BridgeStep, CheckRunning, RecvNothing, BridgeChunk, LockTx, Write, WriteFails
    <2> QED
      BY <2>1, ReaderUnmoved
  <1>3. CASE StopBridge \/ JoinBridge \/ StopRx \/ JoinRx
    <2>1. /\ UNCHANGED <<open, session, rxVars, queueVars>>
          /\ pc'["rx"] = pc["rx"] \/ pc'["rx"] = "none"
      BY <1>3 DEF StopBridge, JoinBridge, StopRx, JoinRx, StopService, JoinService
    <2> QED
      BY <2>1, ReaderUnmoved
  <1>4. CASE LockTx("main") \/ Write("main") \/ WriteFails("main") \/ SendCalled \/ Stop
             \/ StartBridge
    <2>1. UNCHANGED <<open, session, rxVars, queueVars>> /\ pc'["rx"] = pc["rx"]
      BY <1>4
      DEF LockTx, Write, WriteFails, SendCalled, Stop, StartBridge, StartService
    <2> QED
      BY <2>1, ReaderUnmoved
  <1>5. CASE StartRx
    <2>1. /\ UNCHANGED <<open, session, queueVars>> /\ partial' = 0 /\ view' = NoReceived
          /\ pc'["rx"] \in {"check", pc["rx"]} /\ pc["rx"] = "none"
      BY <1>5 DEF StartRx, StartService, Phases, ThreadsAgree
    <2>2. DataTyped' /\ ReadNow'
      BY <2>1, SerialAssumption DEF SessionInv, DataTyped, ReadNow, Alive
    <2> QED
      BY <2>1, <2>2, RingUnmoved DEF SessionInv
  <1>6. CASE CloseDevices
    <2>1. pc'["rx"] = "none" /\ UNCHANGED <<session, rxVars>> /\ open' = {} /\ Queue!Clear
      BY <1>6 DEF CloseDevices, Phases, ThreadsAgree
    <2>2. DataTyped' /\ ReadNow'
      BY <2>1 DEF SessionInv, DataTyped, ReadNow, Alive, rxVars
    <2> QED
      BY <2>1, <2>2, ClearKeepsSession DEF SessionInv
  <1>7. CASE StartOpen
    BY <1>7, OpenKeepsSession
  <1>8. CASE PopFrame
    <2>1. UNCHANGED <<open, session, rxVars, pc>> /\ Queue!Pop
      BY <1>8 DEF PopFrame
    <2>2. DataTyped' /\ ReadNow'
      BY <2>1 DEF SessionInv, DataTyped, ReadNow, Alive, This, rxVars
    <2> QED
      BY <2>1, <2>2, PopKeepsSession DEF SessionInv
  <1>9. CASE UNCHANGED vars
    BY <1>9, ReaderUnmoved DEF vars
  <1> QED
    BY <1>1, <1>2, <1>3, <1>4, <1>5, <1>6, <1>7, <1>8, <1>9, Zenon DEF Next, MainStep, Call

LEMMA SessionAlways == Spec => []SessionInv
PROOF
  <1>1. SerialInv /\ SessionInv /\ [Next]_vars => SessionInv'
    BY SessionStep
  <1> QED
    BY <1>1, SessionInit, SerialInvAlways, PTL DEF Spec

(* The values of the runtime stay what they are for any capacity, number of*)
(* sessions and pieces of a frame.                                         *)
THEOREM SerialTyped == Spec => []TypeOK
PROOF
  <1>1. Ring!TypeOK <=> Queue!TypeOK
    BY DEF Ring!TypeOK, Queue!TypeOK, Ring!Slot, Queue!Slot
  <1>2. SerialInv /\ SessionInv => TypeOK
    BY <1>1
    DEF SerialInv, ControlTyped, MainPlace, ServicePlace, SessionInv, DataTyped, Ring!RingInv,
        TypeOK
  <1> QED
    BY <1>2, SerialInvAlways, SessionAlways, PTL

(* However often the runtime is stopped and started, the main loop handles *)
(* only frames read from the first byte to the last since the latest start *)
(* (app_serial_runtime.c:95, 124; protocol_rx_service.c:38-46).            *)
THEOREM SerialSessions == Spec => OnlyThisSession
PROOF
  <1>1. SessionInv /\ [Next]_vars
        => [PopFrame => popped'.first = session /\ popped'.last = session]_vars
    <2> SUFFICES ASSUME SessionInv, PopFrame
                 PROVE  popped'.first = session /\ popped'.last = session
      OBVIOUS
    <2>1. popped' = This
      BY PopKeepsSession DEF PopFrame
    <2> QED
      BY <2>1 DEF This
  <1> QED
    BY <1>1, SessionAlways, PTL DEF Spec, OnlyThisSession

-----------------------------------------------------------------------------
(* The inductive invariant: a frame in progress still needs at least one   *)
(* byte and fits the buffer.                                               *)
ParserInv == FieldsOK /\ LengthAccounted /\ AcceptedHeaderCompletes

(* The parser starts outside a frame.                                      *)
LEMMA ParserInvInit == ParserInit => ParserInv
BY SizeAssumption DEF ParserInit, InitParser, ParserInv, FieldsOK, LengthAccounted, AcceptedHeaderCompletes

(* Opening a frame or falling back to the idle line keeps the invariant.   *)
LEMMA RestartKeepsParser ==
  ASSUME NEW byte \in Byte, Start \/ Reset,
         result' \in {"incomplete", "ready", "invalid_length"}, frame' \in Seq(Byte)
  PROVE  ParserInv'
<1> USE SizeAssumption DEF ParserInv, FieldsOK, LengthAccounted, AcceptedHeaderCompletes
<1>1. CASE Start
  BY <1>1 DEF Start
<1>2. CASE Reset
  BY <1>2 DEF Reset
<1>3. QED
  BY <1>1, <1>2

(* Storing a byte appends it after the bytes already there.                *)
LEMMA StoreAppends ==
  ASSUME buffer \in Seq(Byte), NEW byte \in Byte
  PROVE  LET stored == Append(buffer, byte)
         IN  /\ stored \in Seq(Byte)
             /\ Len(stored) = Len(buffer) + 1
             /\ stored[Len(buffer) + 1] = byte
             /\ \A i \in 1 .. Len(buffer) : stored[i] = buffer[i]
OBVIOUS

(* Each branch of protocol_frame_parser_feed() preserves the invariant.    *)
LEMMA ParserInvStep == ParserInv /\ [ParserNext]_lineVars => ParserInv'
<1> SUFFICES ASSUME ParserInv, [ParserNext]_lineVars PROVE ParserInv'
  OBVIOUS
<1> USE SizeAssumption
<1>1. CASE UNCHANGED lineVars
  BY <1>1 DEF lineVars, parserVars, ParserInv, FieldsOK, LengthAccounted, AcceptedHeaderCompletes
<1>2. ASSUME NEW byte \in Byte, Feed(byte) PROVE ParserInv'
  <2> DEFINE stored == Append(buffer, byte)
  <2>0. /\ stored \in Seq(Byte) /\ Len(stored) = Len(buffer) + 1
        /\ stored[Len(buffer) + 1] = byte
        /\ \A i \in 1 .. Len(buffer) : stored[i] = buffer[i]
    BY StoreAppends DEF ParserInv, FieldsOK
  <2>1. CASE FeedIdle(byte)
    <3>1. CASE byte = FIRST
      BY <2>1, <3>1, RestartKeepsParser DEF FeedIdle, Return
    <3>2. CASE byte # FIRST
      BY <2>1, <3>2 DEF FeedIdle, Return, ParserInv, FieldsOK, LengthAccounted, AcceptedHeaderCompletes
    <3>3. QED
      BY <3>1, <3>2
  <2>2. CASE FeedSecond(byte)
    <3>1. CASE byte = SECOND
      BY <2>0, <2>2, <3>1
      DEF FeedSecond, Store, Return, ParserInv, FieldsOK, LengthAccounted, AcceptedHeaderCompletes
    <3>2. CASE byte # SECOND
      BY <2>2, <3>2, RestartKeepsParser DEF FeedSecond, Restart, Return
    <3>3. QED
      BY <3>1, <3>2
  <2>3. CASE FeedLength(byte)
    <3>1. CASE byte < MinSize
      BY <2>3, <3>1, RestartKeepsParser DEF FeedLength, Return
    <3>2. CASE ~(byte < MinSize)
      BY <2>0, <2>3, <3>2
      DEF FeedLength, Store, Return, ParserInv, FieldsOK, LengthAccounted, AcceptedHeaderCompletes
    <3>3. QED
      BY <3>1, <3>2
  <2>4. CASE FeedLast(byte)
    <3>0. Len(stored) = buffer[3] /\ stored[1] = buffer[1]
          /\ stored[2] = buffer[2] /\ stored[3] = buffer[3]
      BY <2>0, <2>4 DEF FeedLast, ParserInv, FieldsOK, LengthAccounted
    <3>1. IsValid(stored)
      BY <2>0, <2>4, <3>0 DEF FeedLast, IsValid, ParserInv, FieldsOK, LengthAccounted
    <3>2. QED
      BY <2>0, <2>4, <3>1, RestartKeepsParser DEF FeedLast, Return
  <2>5. CASE FeedBody(byte)
    <3>1. remaining >= 2 /\ Len(buffer) + remaining <= MaxSize
      BY <2>5 DEF FeedBody, ParserInv, FieldsOK, LengthAccounted
    <3>2. Len(buffer) + 1 < MaxSize
      BY <3>1 DEF ParserInv, FieldsOK
    <3>3. /\ buffer' = stored /\ receiving' = TRUE /\ remaining' = remaining - 1
          /\ result' = "incomplete" /\ frame' = <<>>
      BY <2>5, <3>2 DEF FeedBody, Store, Return, ParserInv, FieldsOK
    <3>4. /\ stored # <<>> /\ stored[1] = FIRST /\ stored[2] = SECOND
          /\ stored[3] = buffer[3]
      BY <2>0, <2>5 DEF FeedBody, ParserInv, FieldsOK, LengthAccounted
    <3>5. LengthAccounted'
      BY <2>0, <2>5, <3>1, <3>3, <3>4 DEF FeedBody, ParserInv, FieldsOK, LengthAccounted
    <3>6. FieldsOK' /\ AcceptedHeaderCompletes'
      BY <2>0, <3>1, <3>2, <3>3 DEF ParserInv, FieldsOK, AcceptedHeaderCompletes
    <3>7. QED
      BY <3>5, <3>6 DEF ParserInv
  <2>6. QED
    BY <1>2, <2>1, <2>2, <2>3, <2>4, <2>5 DEF Feed
<1>3. QED
  BY <1>1, <1>2 DEF ParserNext

(* The parser's fields stay in range: index never reaches the buffer's end *)
(* (protocol_frame_parser.c:53).                                           *)
THEOREM ParserTyped == ParserSpec => []ParserTypeOK
<1>1. ParserInv => FieldsOK
  BY DEF ParserInv
<1>2. ParserInit => receiving \in BOOLEAN
  BY DEF ParserInit, InitParser
<1>3. receiving \in BOOLEAN /\ [ParserNext]_lineVars => (receiving \in BOOLEAN)'
  BY DEF ParserNext, Feed, FeedIdle, FeedSecond, FeedLength, FeedLast, FeedBody,
         Restart, Start, Reset, Store, lineVars, parserVars
<1>4. QED
  BY <1>1, <1>2, <1>3, ParserInvInit, ParserInvStep, PTL DEF ParserSpec, ParserTypeOK

(* Stored and expected bytes always add up to the announced length.        *)
THEOREM ParserAccounts == ParserSpec => []LengthAccounted
<1>1. ParserInv => LengthAccounted
  BY DEF ParserInv
<1>2. QED
  BY <1>1, ParserInvInit, ParserInvStep, PTL DEF ParserSpec

(* A frame whose header and length were accepted always completes: for     *)
(* every byte stream the overflow and whole-frame rejections are dead.     *)
THEOREM ParserCompletes == ParserSpec => []AcceptedHeaderCompletes
<1>1. ParserInv => AcceptedHeaderCompletes
  BY DEF ParserInv
<1>2. QED
  BY <1>1, ParserInvInit, ParserInvStep, PTL DEF ParserSpec

-----------------------------------------------------------------------------
(* The parser against the line.  Back(line, k) is what came k bytes ago.   *)
Back(line, k) == line[Len(line) - k]

WindowTyped ==
  window \in Seq([byte : Byte, outside : BOOLEAN]) /\ Len(window) <= MaxSize

(* What is stored is what came last, and so is a frame just handed over.   *)
Held(bytes) ==
  /\ Len(bytes) <= Len(window)
  /\ \A i \in 1 .. Len(bytes) : Back(window, Len(bytes) - i).byte = bytes[i]
ReadyHeld == result = "ready" => IsValid(frame) /\ Held(frame)

(* The last m bytes may be the beginning of a frame, or all of one, that   *)
(* began outside a frame body.                                             *)
Promising(m) ==
  /\ Back(window, m - 1).outside /\ Back(window, m - 1).byte = FIRST
  /\ m >= 2 => Back(window, m - 2).byte = SECOND
  /\ m >= 3 => Back(window, m - 3).byte >= MinSize /\ m <= Back(window, m - 3).byte
Finished(m) == m >= 3 /\ m = Back(window, m - 3).byte

(* Then the parser has stored them, or handed them over.                   *)
Tracked ==
  \A m \in 1 .. Len(window) :
    Promising(m) => IF Finished(m) THEN result = "ready" /\ Len(frame) = m
                    ELSE Len(buffer) = m

LineInv == WindowTyped /\ Held(buffer) /\ ReadyHeld /\ Tracked

(* A byte moves what came before it one place back; no byte that may still *)
(* belong to a frame falls out of the window.                              *)
LEMMA WindowMoves ==
  ASSUME WindowTyped, NEW byte \in Byte, Remember(byte), buffer \in Seq(Byte)
  PROVE  /\ WindowTyped'
         /\ Len(window') = IF Len(window) < MaxSize THEN Len(window) + 1 ELSE MaxSize
         /\ Back(window', 0) = [byte |-> byte, outside |-> Len(buffer) <= 1]
         /\ \A k \in 1 .. Len(window') - 1 : Back(window', k) = Back(window, k - 1)
PROOF
  <1> DEFINE entry == [byte |-> byte, outside |-> Len(buffer) <= 1]
             longer == Append(window, entry)
             Entry == [byte : Byte, outside : BOOLEAN]
  <1> USE SizeAssumption
  <1>1. entry \in Entry
    <2>1. (Len(buffer) <= 1) \in BOOLEAN
      OBVIOUS
    <2> QED
      BY <2>1
  <1>2. window \in Seq(Entry) /\ Len(window) \in Nat /\ Len(window) <= MaxSize
    BY DEF WindowTyped
  <1> HIDE DEF entry, Entry
  <1>3. /\ longer \in Seq(Entry) /\ Len(longer) = Len(window) + 1
        /\ longer[Len(window) + 1] = entry
        /\ \A i \in 1 .. Len(window) : longer[i] = window[i]
    BY <1>1, <1>2
  <1>4. window' = IF Len(window) < MaxSize THEN longer ELSE SubSeq(longer, 2, Len(longer))
    BY <1>2, <1>3 DEF Remember, LastBytes, entry
  <1>5. CASE Len(window) < MaxSize
    <2>1. window' = longer
      BY <1>4, <1>5
    <2> QED
      BY <1>2, <1>3, <1>5, <2>1 DEF Back, WindowTyped, Entry, entry
  <1>6. CASE Len(window) = MaxSize
    <2>1. /\ window' \in Seq(Entry) /\ Len(window') = MaxSize
          /\ \A i \in 1 .. MaxSize : window'[i] = longer[i + 1]
      <3>1. window' = SubSeq(longer, 2, MaxSize + 1)
        <4>1. ~(Len(window) < MaxSize) /\ Len(longer) = MaxSize + 1
          BY <1>3, <1>6
        <4> HIDE DEF longer
        <4> QED
          BY <1>4, <4>1
      <3>2. \A i \in 2 .. MaxSize + 1 : longer[i] \in Entry
        BY <1>3, <1>6
      <3> HIDE DEF longer
      <3> QED
        BY <3>1, <3>2, SubSeqProperties
    <2> QED
      BY <1>2, <1>3, <1>6, <2>1 DEF Back, WindowTyped, Entry, entry
  <1> QED
    BY <1>2, <1>5, <1>6

(* What was held and has not been restarted is held with the next byte.    *)
LEMMA HeldGrows ==
  ASSUME WindowTyped, NEW byte \in Byte, Remember(byte), buffer \in Seq(Byte),
         Len(buffer) < MaxSize, Held(buffer)
  PROVE  LET stored == Append(buffer, byte)
         IN  /\ Len(stored) <= Len(window')
             /\ \A i \in 1 .. Len(stored) : Back(window', Len(stored) - i).byte = stored[i]
PROOF
  <1> DEFINE stored == Append(buffer, byte)
  <1>1. /\ Len(stored) = Len(buffer) + 1 /\ stored[Len(buffer) + 1] = byte
        /\ \A i \in 1 .. Len(buffer) : stored[i] = buffer[i]
        /\ Len(buffer) \in Nat
    BY StoreAppends
  <1>2. /\ Len(window') = IF Len(window) < MaxSize THEN Len(window) + 1 ELSE MaxSize
        /\ Back(window', 0).byte = byte
        /\ \A k \in 1 .. Len(window') - 1 : Back(window', k) = Back(window, k - 1)
    BY WindowMoves
  <1>3. Len(window) \in Nat /\ Len(buffer) <= Len(window)
    BY DEF WindowTyped, Held
  <1>4. Len(stored) <= Len(window')
    BY <1>1, <1>2, <1>3, SizeAssumption
  <1> HIDE DEF stored
  <1>5. ASSUME NEW i \in 1 .. Len(stored)
        PROVE  Back(window', Len(stored) - i).byte = stored[i]
    <2>1. CASE i = Len(buffer) + 1
      BY <1>1, <1>2, <2>1
    <2>2. CASE i \in 1 .. Len(buffer)
      <3> DEFINE k == Len(stored) - i
      <3>1. k \in 1 .. Len(window') - 1 /\ k - 1 = Len(buffer) - i
        BY <1>1, <1>4, <2>2
      <3>2. Back(window', k) = Back(window, Len(buffer) - i)
        BY <1>2, <3>1
      <3>3. Back(window, Len(buffer) - i).byte = buffer[i]
        BY <2>2 DEF Held
      <3> QED
        BY <1>1, <2>2, <3>2, <3>3
    <2> QED
      BY <1>1, <2>1, <2>2
  <1> QED
    BY <1>4, <1>5 DEF stored

(* What feeding a byte comes to.                                           *)
Opens(byte) ==
  buffer' = <<FIRST>> /\ byte = FIRST /\ Len(buffer) <= 1 /\ result' = "incomplete"
Drops(byte) ==
  /\ buffer' = <<>> /\ result' # "ready" /\ Len(buffer) <= 2
  /\ Len(buffer) = 0 => byte # FIRST
  /\ Len(buffer) = 1 => byte \notin {FIRST, SECOND}
  /\ Len(buffer) = 2 => byte < MinSize
Stores(byte) ==
  /\ buffer' = Append(buffer, byte) /\ result' = "incomplete" /\ Len(buffer) >= 1
  /\ Len(buffer) = 1 => byte = SECOND
  /\ Len(buffer) >= 3 => remaining >= 2
Completes(byte) ==
  /\ buffer' = <<>> /\ result' = "ready" /\ frame' = Append(buffer, byte) /\ IsValid(frame')
  /\ Len(buffer) >= 3 /\ remaining = 1

LEMMA FeedOutcome ==
  ASSUME ParserInv, NEW byte \in Byte, Feed(byte)
  PROVE  Opens(byte) \/ Drops(byte) \/ Stores(byte) \/ Completes(byte)
PROOF
  <1> USE SizeAssumption
  <1>1. /\ receiving <=> buffer # <<>>
        /\ buffer \in Seq(Byte) /\ Len(buffer) \in Nat
        /\ buffer # <<>> => Len(buffer) >= 1
    BY DEF ParserInv, FieldsOK, LengthAccounted
  <1>2. CASE FeedIdle(byte)
    <2>1. buffer = <<>> /\ Len(buffer) = 0
      BY <1>1, <1>2 DEF FeedIdle
    <2> QED
      BY <1>2, <2>1 DEF FeedIdle, Start, Return, Opens, Drops
  <1>3. CASE FeedSecond(byte)
    <2>1. CASE byte = SECOND
      BY <1>3, <2>1 DEF FeedSecond, Store, Return, Stores
    <2>2. CASE byte # SECOND
      BY <1>3, <2>2 DEF FeedSecond, Restart, Start, Reset, Return, Opens, Drops
    <2> QED
      BY <2>1, <2>2
  <1>4. CASE FeedLength(byte)
    <2>1. CASE byte < MinSize
      BY <1>4, <2>1 DEF FeedLength, Reset, Return, Drops
    <2>2. CASE ~(byte < MinSize)
      BY <1>4, <2>2 DEF FeedLength, Store, Return, Stores
    <2> QED
      BY <2>1, <2>2
  <1>5. CASE FeedLast(byte)
    <2>1. /\ Append(buffer, byte) \in Seq(Byte)
          /\ Len(Append(buffer, byte)) = Len(buffer) + 1
          /\ \A i \in 1 .. Len(buffer) : Append(buffer, byte)[i] = buffer[i]
      BY <1>1, StoreAppends
    <2>2. IsValid(Append(buffer, byte))
      BY <1>5, <2>1 DEF FeedLast, IsValid, ParserInv, FieldsOK, LengthAccounted
    <2>3. buffer' = <<>> /\ result' = "ready" /\ frame' = Append(buffer, byte)
      BY <1>5, <2>2 DEF FeedLast, Reset, Return
    <2>4. Len(buffer) >= 3 /\ remaining = 1
      BY <1>1, <1>5 DEF FeedLast
    <2>5. IsValid(frame')
      BY <2>2, <2>3, Zenon
    <2> QED
      BY <2>3, <2>4, <2>5, Zenon DEF Completes
  <1>6. CASE FeedBody(byte)
    <2>1. remaining >= 2 /\ Len(buffer) + 1 < MaxSize
      BY <1>6 DEF FeedBody, ParserInv, FieldsOK, LengthAccounted
    <2> QED
      BY <1>1, <1>6, <2>1 DEF FeedBody, Store, Return, Stores
  <1> QED
    BY <1>2, <1>3, <1>4, <1>5, <1>6 DEF Feed

(* A promising beginning one byte longer was one before the byte came.     *)
LEMMA PromiseKept ==
  ASSUME WindowTyped, NEW byte \in Byte, Remember(byte), buffer \in Seq(Byte),
         NEW m \in 2 .. Len(window'), Promising(m)'
  PROVE  /\ m - 1 \in 1 .. Len(window) /\ Promising(m - 1) /\ ~Finished(m - 1)
         /\ m > 3 => Back(window', m - 3) = Back(window, m - 4)
PROOF
  <1>1. /\ Len(window') = IF Len(window) < MaxSize THEN Len(window) + 1 ELSE MaxSize
        /\ \A k \in 1 .. Len(window') - 1 : Back(window', k) = Back(window, k - 1)
    BY WindowMoves
  <1>2. Len(window) \in Nat /\ Len(window) <= MaxSize /\ Len(window') \in Nat
    BY <1>1, SizeAssumption DEF WindowTyped
  <1>3. m - 1 \in 1 .. Len(window)
    BY <1>1, <1>2, SizeAssumption
  <1>4. Back(window', m - 1) = Back(window, m - 2)
    BY <1>1, <1>2
  <1>5. m >= 3 => Back(window', m - 2) = Back(window, m - 3)
    BY <1>1, <1>2
  <1>6. m > 3 => Back(window', m - 3) = Back(window, m - 4)
    BY <1>1, <1>2
  <1>7. /\ Back(window', m - 1).outside /\ Back(window', m - 1).byte = FIRST
        /\ m >= 2 => Back(window', m - 2).byte = SECOND
        /\ m >= 3 => Back(window', m - 3).byte >= MinSize /\ m <= Back(window', m - 3).byte
    BY DEF Promising
  <1>8. /\ (m - 1) - 1 = m - 2 /\ (m - 1) - 2 = m - 3 /\ (m - 1) - 3 = m - 4
    OBVIOUS
  <1>9. m > 3 => Back(window, m - 4).byte \in Int
    <2> SUFFICES ASSUME m > 3 PROVE Back(window, m - 4).byte \in Int
      OBVIOUS
    <2> DEFINE Entry == [byte : Byte, outside : BOOLEAN]
               i == Len(window) - (m - 4)
    <2>1. i \in 1 .. Len(window)
      BY <1>2, <1>3
    <2>2. window \in Seq(Entry)
      BY DEF WindowTyped
    <2> HIDE DEF i, Entry
    <2>3. window[i] \in Entry
      BY <2>1, <2>2
    <2>4. window[i].byte \in Byte
      BY <2>3 DEF Entry
    <2> QED
      <3>1. Back(window, m - 4).byte \in Byte
        BY <2>4 DEF Back, i
      <3>2. \A x \in Byte : x \in Int
        BY SizeAssumption
      <3> QED
        BY <3>1, <3>2, Zenon
  <1>10. Promising(m - 1)
    BY <1>4, <1>5, <1>6, <1>7, <1>8, <1>9, SizeAssumption DEF Promising
  <1>11. ~Finished(m - 1)
    BY <1>6, <1>7, <1>8, <1>9 DEF Finished
  <1> QED
    BY <1>3, <1>6, <1>10, <1>11

LEMMA LineStep ==
  ASSUME ParserInv, LineInv, NEW byte \in Byte, Feed(byte), Remember(byte)
  PROVE  LineInv'
PROOF
  <1> USE SizeAssumption
  <1>1. /\ buffer \in Seq(Byte) /\ Len(buffer) < MaxSize /\ Len(buffer) \in Nat
        /\ WindowTyped /\ Held(buffer)
    BY DEF ParserInv, FieldsOK, LineInv
  <1>2. /\ WindowTyped'
        /\ Len(window') = IF Len(window) < MaxSize THEN Len(window) + 1 ELSE MaxSize
        /\ Back(window', 0) = [byte |-> byte, outside |-> Len(buffer) <= 1]
    BY <1>1, WindowMoves
  <1>3. Len(window) \in Nat /\ Len(window) <= MaxSize /\ Len(window') >= 1
    BY <1>1, <1>2 DEF WindowTyped
  <1> DEFINE stored == Append(buffer, byte)
  <1>4. /\ Len(stored) <= Len(window')
        /\ \A i \in 1 .. Len(stored) : Back(window', Len(stored) - i).byte = stored[i]
    BY <1>1, HeldGrows
  <1>5. Len(stored) = Len(buffer) + 1
    BY <1>1, StoreAppends
  <1>6. Opens(byte) \/ Drops(byte) \/ Stores(byte) \/ Completes(byte)
    BY FeedOutcome
  <1> HIDE DEF stored
  <1>7. Held(buffer)'
    <2>1. CASE buffer' = <<>>
      BY <1>3, <2>1 DEF Held
    <2>2. CASE Opens(byte)
      BY <1>2, <1>3, <2>2 DEF Held, Opens
    <2>3. CASE Stores(byte)
      BY <1>4, <2>3 DEF Held, Stores, stored
    <2> QED
      BY <1>6, <2>1, <2>2, <2>3 DEF Drops, Completes
  <1>8. ReadyHeld'
    <2>1. CASE Completes(byte)
      BY <1>4, <2>1 DEF Completes, ReadyHeld, Held, stored
    <2>2. CASE ~Completes(byte)
      BY <1>6, <2>2 DEF Opens, Drops, Stores, ReadyHeld
    <2> QED
      BY <2>1, <2>2
  <1>9. ASSUME NEW m \in 1 .. Len(window'), Promising(m)'
        PROVE  IF Finished(m)' THEN result' = "ready" /\ Len(frame') = m
               ELSE Len(buffer') = m
    <2>1. CASE m = 1
      <3>1. Len(buffer) <= 1 /\ byte = FIRST
        <4>1. Back(window', m - 1).outside /\ Back(window', m - 1).byte = FIRST
          BY <1>9 DEF Promising
        <4>2. m - 1 = 0
          BY <2>1
        <4>3. Back(window', 0).outside = (Len(buffer) <= 1) /\ Back(window', 0).byte = byte
          BY <1>2
        <4> QED
          BY <4>1, <4>2, <4>3, Zenon
      <3>0. Len(buffer) = 0 \/ Len(buffer) = 1
        <4>1. \A n \in Nat : n <= 1 => n = 0 \/ n = 1
          OBVIOUS
        <4> QED
          BY <1>1, <3>1, <4>1, Zenon
      <3>2. ~Drops(byte)
        <4>1. Len(buffer) = 0 => Len(buffer) # 1
          OBVIOUS
        <4> QED
          BY <3>0, <3>1, <4>1, Zenon DEF Drops
      <3>3. ~Stores(byte)
        <4>1. Stores(byte) => Len(buffer) = 1
          BY <3>0 DEF Stores
        <4> QED
          BY <3>1, <4>1, Zenon DEF Stores
      <3>4. ~Completes(byte)
        BY <1>1, <3>1 DEF Completes
      <3>5. Opens(byte)
        BY <1>6, <3>2, <3>3, <3>4
      <3> QED
        BY <2>1, <3>5 DEF Opens, Finished
    <2>2. CASE m \in 2 .. Len(window')
      <3>1. /\ m - 1 \in 1 .. Len(window) /\ Promising(m - 1) /\ ~Finished(m - 1)
            /\ m > 3 => Back(window', m - 3) = Back(window, m - 4)
        BY <1>1, <1>9, <2>2, PromiseKept
      <3>2. Len(buffer) = m - 1
        BY <3>1 DEF LineInv, Tracked
      <3>3. CASE m = 2
        <4>1. byte = SECOND
          BY <1>2, <1>9, <3>3 DEF Promising
        <4>2. Stores(byte)
          BY <1>6, <3>2, <3>3, <4>1 DEF Opens, Drops, Completes
        <4> QED
          BY <1>5, <3>2, <3>3, <4>2 DEF Stores, Finished, stored
      <3>4. CASE m = 3
        <4>1. byte >= MinSize /\ byte \in Int
          BY <1>2, <1>9, <3>4 DEF Promising
        <4>2. Stores(byte)
          BY <1>6, <3>2, <3>4, <4>1 DEF Opens, Drops, Completes
        <4>3. ~Finished(m)'
          BY <1>2, <3>4, <4>1 DEF Finished
        <4> QED
          BY <1>5, <3>2, <3>4, <4>2, <4>3 DEF Stores, stored
      <3>5. CASE m > 3
        <4>1. Back(window, m - 4).byte = buffer[3] /\ Back(window', m - 3).byte = buffer[3]
          BY <1>1, <3>1, <3>2, <3>5 DEF Held
        <4>2. buffer[3] = Len(buffer) + remaining /\ remaining \in Int
          BY <3>2, <3>5 DEF ParserInv, FieldsOK, LengthAccounted
        <4>3. Finished(m)' <=> m = buffer[3]
          BY <3>5, <4>1 DEF Finished
        <4>4. CASE Stores(byte)
          BY <1>1, <1>5, <3>2, <3>5, <4>2, <4>3, <4>4 DEF Stores, stored
        <4>5. CASE Completes(byte)
          BY <1>1, <1>5, <3>2, <3>5, <4>2, <4>3, <4>5 DEF Completes, stored
        <4> QED
          BY <1>6, <3>2, <3>5, <4>4, <4>5 DEF Opens, Drops
      <3> QED
        BY <2>2, <3>3, <3>4, <3>5
    <2> QED
      BY <1>2, <2>1, <2>2
  <1>10. Tracked'
    BY <1>9 DEF Tracked
  <1> QED
    BY <1>2, <1>7, <1>8, <1>10 DEF LineInv

LEMMA LineInvAlways == ParserSpec => [](ParserInv /\ LineInv)
PROOF
  <1>1. ParserInit => ParserInv /\ LineInv
    <2>1. ParserInit => LineInv
      BY SizeAssumption
      DEF ParserInit, InitParser, LineInv, WindowTyped, Held, ReadyHeld, Tracked
    <2> QED
      BY <2>1, ParserInvInit
  <1>2. ParserInv /\ LineInv /\ [ParserNext]_lineVars => LineInv'
    <2> SUFFICES ASSUME ParserInv, LineInv, [ParserNext]_lineVars PROVE LineInv'
      OBVIOUS
    <2>1. CASE ParserNext
      BY <2>1, LineStep DEF ParserNext
    <2>2. CASE UNCHANGED lineVars
      BY <2>2 DEF lineVars, parserVars, LineInv, WindowTyped, Held, ReadyHeld, Tracked, Promising,
                  Finished
    <2> QED
      BY <2>1, <2>2
  <1> QED
    BY <1>1, <1>2, ParserInvStep, PTL DEF ParserSpec

(* The end of the line, seen from its last byte.                           *)
LEMMA LastBytesOfLine ==
  ASSUME WindowTyped, NEW n \in 1 .. Len(window)
  PROVE  /\ Len(LastN(n)) = n
         /\ \A i \in 1 .. n : LastN(n)[i] = Back(window, n - i)
         /\ DOMAIN BytesOf(LastN(n)) = 1 .. n /\ BytesOf(LastN(n)) \in Seq(Byte)
         /\ Len(BytesOf(LastN(n))) = n
         /\ \A i \in 1 .. n : BytesOf(LastN(n))[i] = Back(window, n - i).byte
PROOF
  <1> DEFINE Entry == [byte : Byte, outside : BOOLEAN]
  <1>1. window \in Seq(Entry) /\ Len(window) \in Nat
    BY DEF WindowTyped
  <1> HIDE DEF Entry
  <1>2. \A i \in Len(window) - n + 1 .. Len(window) : window[i] \in Entry
    BY <1>1
  <1>3. /\ LastN(n) \in Seq(Entry) /\ Len(LastN(n)) = n
        /\ \A i \in 1 .. n : LastN(n)[i] = window[Len(window) - n + 1 + i - 1]
    BY <1>1, <1>2, SubSeqProperties DEF LastN
  <1>4. \A i \in 1 .. n : LastN(n)[i] = Back(window, n - i)
    BY <1>1, <1>3 DEF Back
  <1>5. \A i \in 1 .. n : LastN(n)[i].byte \in Byte
    <2>1. \A i \in 1 .. n : LastN(n)[i] \in Entry
      BY <1>3
    <2> QED
      BY <2>1 DEF Entry
  <1>6. BytesOf(LastN(n)) = [i \in 1 .. n |-> LastN(n)[i].byte]
    BY <1>3 DEF BytesOf
  <1>7. BytesOf(LastN(n)) \in Seq(Byte) /\ Len(BytesOf(LastN(n))) = n
    BY <1>5, <1>6
  <1>8. \A i \in 1 .. n : BytesOf(LastN(n))[i] = Back(window, n - i).byte
    BY <1>4, <1>6
  <1>9. DOMAIN BytesOf(LastN(n)) = 1 .. n
    BY <1>6
  <1> QED
    BY <1>3, <1>4, <1>7, <1>8, <1>9

(* A frame of the queue is valid and is the last bytes of the line.        *)
THEOREM ParserContiguous == ParserSpec => []ReadyIsContiguous
PROOF
  <1>1. ParserInv /\ LineInv => ReadyIsContiguous
    <2> SUFFICES ASSUME ParserInv, LineInv, result = "ready"
                 PROVE  IsValid(frame) /\ frame = BytesOf(LastN(Len(frame)))
      BY DEF ReadyIsContiguous
    <2>1. IsValid(frame) /\ Held(frame) /\ frame \in Seq(Byte) /\ WindowTyped
      BY DEF LineInv, ReadyHeld, ParserInv, FieldsOK
    <2>2. Len(frame) \in 1 .. Len(window)
      BY <2>1, SizeAssumption DEF IsValid, Held, WindowTyped
    <2>3. /\ BytesOf(LastN(Len(frame))) \in Seq(Byte)
          /\ Len(BytesOf(LastN(Len(frame)))) = Len(frame)
          /\ \A i \in 1 .. Len(frame) :
               BytesOf(LastN(Len(frame)))[i] = Back(window, Len(frame) - i).byte
      BY <2>1, <2>2, LastBytesOfLine
    <2>4. frame = BytesOf(LastN(Len(frame)))
      BY <2>1, <2>3, SeqEqual DEF Held
    <2> QED
      BY <2>1, <2>4
  <1> QED
    BY <1>1, LineInvAlways, PTL

(* No valid frame on the line is missed when its first byte finds the      *)
(* parser outside a frame body, after any noise                            *)
(* (protocol_frame_parser.c:41-46, 55-63).                                 *)
THEOREM ParserMissesNone == ParserSpec => []OutsideFrameNeverMissed
PROOF
  <1>1. ParserInv /\ LineInv => OutsideFrameNeverMissed
    <2> SUFFICES ASSUME ParserInv, LineInv, NEW n \in MinSize .. Len(window),
                        IsValid(BytesOf(LastN(n))), LastN(n)[1].outside
                 PROVE  result = "ready" /\ frame = BytesOf(LastN(n))
      BY DEF OutsideFrameNeverMissed
    <2>1. n \in 1 .. Len(window) /\ n >= 4 /\ WindowTyped
      BY SizeAssumption DEF LineInv, WindowTyped
    <2> DEFINE bytes == BytesOf(LastN(n))
    <2>2. /\ bytes \in Seq(Byte) /\ Len(bytes) = n
          /\ \A i \in 1 .. n : bytes[i] = Back(window, n - i).byte
          /\ LastN(n)[1] = Back(window, n - 1)
      BY <2>1, LastBytesOfLine
    <2> HIDE DEF bytes
    <2>3. bytes[1] = FIRST /\ bytes[2] = SECOND /\ bytes[3] = n
      BY <2>2 DEF IsValid, bytes
    <2>4. /\ Back(window, n - 1).byte = FIRST /\ Back(window, n - 2).byte = SECOND
          /\ Back(window, n - 3).byte = n /\ Back(window, n - 1).outside
      BY <2>1, <2>2, <2>3
    <2>5. Promising(n) /\ Finished(n)
      BY <2>1, <2>4 DEF Promising, Finished
    <2>6. result = "ready" /\ Len(frame) = n
      BY <2>1, <2>5 DEF LineInv, Tracked
    <2>7. Held(frame) /\ frame \in Seq(Byte)
      BY <2>6 DEF LineInv, ReadyHeld, ParserInv, FieldsOK
    <2>8. frame = bytes
      <3>1. \A i \in 1 .. n : frame[i] = bytes[i]
        BY <2>2, <2>6, <2>7 DEF Held
      <3> QED
        BY <2>2, <2>6, <2>7, <3>1, SeqEqual
    <2> QED
      BY <2>6, <2>8 DEF bytes
  <1> QED
    BY <1>1, LineInvAlways, PTL
=============================================================================
