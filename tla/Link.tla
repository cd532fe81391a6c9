-------------------------------- MODULE Link --------------------------------
(***************************************************************************)
(* What the two proxies promise to an X client and its server: a lossless  *)
(* link.  Everything handed to the encoding side comes out of the decoding *)
(* side, once, unchanged and in order.                                     *)
(***************************************************************************)
EXTENDS Sequences

CONSTANTS Payload, Nothing

VARIABLES inFlight,   \* handed over and not yet delivered
          out         \* the last payload delivered

vars == <<inFlight, out>>

Init == inFlight = << >> /\ out = Nothing

Send(x) == inFlight' = Append(inFlight, x) /\ UNCHANGED out

Deliver ==
    /\ inFlight # << >>
    /\ out' = Head(inFlight)
    /\ inFlight' = Tail(inFlight)

Next == (\E x \in Payload : Send(x)) \/ Deliver

Spec == Init /\ [][Next]_vars

=============================================================================
