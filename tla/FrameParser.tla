---------------------------- MODULE FrameParser ----------------------------
(***************************************************************************)
(* src/un260/protocol/protocol_frame_parser.c: the byte-by-byte parser the *)
(* UART4 receive thread feeds.  A frame is                                 *)
(*     FIRST SECOND length command payload... trailer                      *)
(* where length counts every byte of the frame.  The parser's state is one *)
(* of this module's variables per field; parser->index is Len(buffer).     *)
(***************************************************************************)
EXTENDS Integers, Sequences

CONSTANTS
  Byte,         \* the byte values on the line
  FIRST,        \* PROTOCOL_FRAME_HEADER_FIRST
  SECOND,       \* PROTOCOL_FRAME_HEADER_SECOND
  MinSize,      \* PROTOCOL_FRAME_MIN_SIZE
  MaxSize       \* PROTOCOL_FRAME_MAX_SIZE

(* uint8_t bytes and a one-byte length field: no byte exceeds MaxSize.     *)
ASSUME SizeAssumption ==
  /\ MinSize \in Nat /\ MaxSize \in Nat
  /\ 4 <= MinSize /\ MinSize <= MaxSize
  /\ Byte \subseteq 0 .. MaxSize
  /\ FIRST \in Byte /\ SECOND \in Byte /\ FIRST # SECOND

VARIABLES
  receiving, \* parser->receiving
  buffer,    \* parser->buffer[0 .. index - 1]
  remaining, \* parser->remaining
  result,    \* what the last feed() returned
  frame,     \* the view the last feed() filled in, <<>> for NULL
  window     \* history: the last MaxSize bytes, each with whether it found
             \* the parser outside any accepted header

parserVars == <<receiving, buffer, remaining, result, frame>>
lineVars == <<parserVars, window>>

(* protocol_frame_is_valid(): header and length, not the trailer.          *)
IsValid(data) ==
  /\ Len(data) >= MinSize
  /\ Len(data) <= MaxSize
  /\ data[1] = FIRST
  /\ data[2] = SECOND
  /\ data[3] = Len(data)

(* protocol_frame_parser_reset() and _start().                             *)
Reset == receiving' = FALSE /\ buffer' = <<>> /\ remaining' = 0
Start == receiving' = TRUE /\ buffer' = <<FIRST>> /\ remaining' = 0

(* The resynchronisation after a rejected byte: that byte may itself open  *)
(* a frame.                                                                *)
Restart_DropsByte(byte) == Reset \* mutant: the rejected byte is lost
Restart(byte) == IF byte = FIRST THEN Start ELSE Reset

Return(r, f) == result' = r /\ frame' = f

FeedIdle(byte) ==
  /\ ~receiving
  /\ IF byte = FIRST THEN Start ELSE UNCHANGED <<receiving, buffer, remaining>>
  /\ Return("incomplete", <<>>)

Store(byte) == buffer' = Append(buffer, byte) /\ receiving' = TRUE

FeedSecond(byte) ==
  /\ receiving
  /\ Len(buffer) = 1
  /\ IF byte = SECOND THEN Store(byte) /\ UNCHANGED remaining ELSE Restart(byte)
  /\ Return("incomplete", <<>>)

FeedLengthWith(byte, minimum, rest) ==
  /\ receiving
  /\ Len(buffer) = 2
  /\ IF byte < minimum
       THEN Reset /\ Return("invalid_length", <<>>)
       ELSE Store(byte) /\ remaining' = rest /\ Return("incomplete", <<>>)
FeedLength_OneMore(byte) == FeedLengthWith(byte, MinSize, byte - 2) \* mutant

FeedLength(byte) ==
  /\ receiving
  /\ Len(buffer) = 2
  /\ IF byte < MinSize
       THEN Reset /\ Return("invalid_length", <<>>)
       ELSE Store(byte) /\ remaining' = byte - 3 /\ Return("incomplete", <<>>)

FeedLast_ShortView(byte) == \* mutant: the view misses the byte just stored
  /\ receiving
  /\ Len(buffer) \in 3 .. MaxSize - 1
  /\ remaining = 1
  /\ IF IsValid(Append(buffer, byte))
       THEN Reset /\ Return("ready", buffer)
       ELSE Restart(byte) /\ Return("invalid_frame", <<>>)

FeedLast(byte) ==
  /\ receiving
  /\ Len(buffer) \in 3 .. MaxSize - 1
  /\ remaining = 1
  /\ IF IsValid(Append(buffer, byte))
       THEN Reset /\ Return("ready", Append(buffer, byte))
       ELSE Restart(byte) /\ Return("invalid_frame", <<>>)

(* Any other byte of the body, and the checks against the buffer's size    *)
(* before and after storing it.                                            *)
FeedBody(byte) ==
  /\ receiving
  /\ Len(buffer) >= 3
  /\ ~(remaining = 1 /\ Len(buffer) < MaxSize)
  /\ IF Len(buffer) + 1 >= MaxSize
       THEN Reset /\ Return("overflow", <<>>)
       ELSE Store(byte) /\ remaining' = remaining - 1 /\ Return("incomplete", <<>>)

(* protocol_frame_parser_feed().                                           *)
Feed(byte) ==
  \/ FeedIdle(byte)
  \/ FeedSecond(byte)
  \/ FeedLength(byte)
  \/ FeedLast(byte)
  \/ FeedBody(byte)

(* History: remember the byte and whether it came outside a frame body.    *)
LastBytes(s) == IF Len(s) <= MaxSize THEN s ELSE SubSeq(s, Len(s) - MaxSize + 1, Len(s))
Remember(byte) ==
  window' = LastBytes(Append(window, [byte |-> byte, outside |-> Len(buffer) <= 1]))

InitParser ==
  /\ receiving = FALSE
  /\ buffer = <<>>
  /\ remaining = 0
  /\ result = "incomplete"
  /\ frame = <<>>

ParserInit == InitParser /\ window = <<>>

ParserNext == \E byte \in Byte : Feed(byte) /\ Remember(byte)

ParserSpec == ParserInit /\ [][ParserNext]_lineVars

-----------------------------------------------------------------------------
(* The parser's fields stay in range: what is stored never fills the       *)
(* buffer of protocol_frame_parser.h.                                      *)
FieldsOK ==
  /\ buffer \in Seq(Byte)
  /\ Len(buffer) < MaxSize
  /\ remaining \in 0 .. MaxSize
  /\ result \in {"incomplete", "ready", "invalid_length", "invalid_frame", "overflow"}
  /\ frame \in Seq(Byte)

ParserTypeOK == receiving \in BOOLEAN /\ FieldsOK

(* While a frame is being received the bytes stored and the bytes still    *)
(* expected add up to the length the frame announced, and what is stored   *)
(* began with the two header bytes: index, remaining and buffer are set in *)
(* different branches of protocol_frame_parser.c:53-95 and must agree.     *)
LengthAccounted ==
  /\ receiving <=> buffer # <<>>
  /\ Len(buffer) >= 1 => buffer[1] = FIRST
  /\ Len(buffer) >= 2 => buffer[2] = SECOND
  /\ Len(buffer) >= 3 =>
       buffer[3] = Len(buffer) + remaining /\ remaining >= 1 /\ buffer[3] >= MinSize
  /\ Len(buffer) < 3 => remaining = 0

(* A frame whose header and length were accepted always completes: the     *)
(* overflow checks of protocol_frame_parser.c:48-51 and 89-92 and the      *)
(* whole-frame check of lines 76-82 can never fire, so the only way the    *)
(* receive thread loses synchronisation is a bad length byte.              *)
AcceptedHeaderCompletes == result \notin {"overflow", "invalid_frame"}

LastN(n) == SubSeq(window, Len(window) - n + 1, Len(window))
BytesOf(w) == [i \in 1 .. Len(w) |-> w[i].byte]

(* A frame handed to the queue is valid and is exactly the last bytes of   *)
(* the line, none skipped and none taken from an earlier frame             *)
(* (protocol_frame_parser.c:83-86).                                        *)
ReadyIsContiguous ==
  result = "ready" =>
    /\ IsValid(frame)
    /\ frame = BytesOf(LastN(Len(frame)))

(* A valid frame on the line is never missed when its first byte finds the *)
(* parser outside a frame body, whatever noise came before it, a lone      *)
(* first header byte included (protocol_frame_parser.c:41-46, 55-63).      *)
OutsideFrameNeverMissed ==
  \A n \in MinSize .. Len(window) :
    (IsValid(BytesOf(LastN(n))) /\ LastN(n)[1].outside)
      => result = "ready" /\ frame = BytesOf(LastN(n))
=============================================================================
