---------------------- MODULE MCMultiPassVerification ----------------------
(* Results that differ from the first, each in one respect, or not at all. *)
EXTENDS MultiPassVerification

Row(value, pcs) == [value |-> value, pcs |-> pcs]
Reasons(r) == [code \in {1, 2} |-> IF code \in DOMAIN r THEN r[code] ELSE 0]

(* Twenty notes of 1 and one of 5, of which three serial numbers are read. *)
First == [accepted |-> 21, reject |-> 1, amount |-> 25,
          denom |-> <<Row(1, 20), Row(5, 1)>>, reasons |-> Reasons(<<1>>),
          serials |-> << <<5, 7>>, <<1, 2>>, <<1, 2>> >>]

ModelResults == {
  First,
  \* the same notes in another order, the ones split over two rows
  [First EXCEPT !.serials = << <<1, 2>>, <<5, 7>>, <<1, 2>> >>,
                !.denom = <<Row(5, 1), Row(1, 12), Row(1, 8)>>],
  \* rejected for another reason
  [First EXCEPT !.reasons = Reasons(<<0, 1>>)],
  \* one serial number read another way, as often as before
  [First EXCEPT !.serials = << <<1, 2>>, <<5, 7>>, <<5, 7>> >>],
  \* a serial number missed
  [First EXCEPT !.serials = << <<1, 2>>, <<1, 2>> >>],
  \* a bundle with no serial number in common, or with none read
  [First EXCEPT !.serials = << <<1, 4>>, <<1, 5>>, <<1, 6>> >>],
  [First EXCEPT !.serials = <<>>],
  \* other notes of the same amount; nothing at all
  [First EXCEPT !.accepted = 25, !.denom = <<Row(1, 25), Row(5, 0)>>],
  [First EXCEPT !.accepted = 0, !.reject = 0, !.amount = 0, !.denom = <<>>,
                !.reasons = Reasons(<<>>), !.serials = <<>>] }
=============================================================================
