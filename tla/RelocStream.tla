----------------------------- MODULE RelocStream -----------------------------
(***************************************************************************)
(* What a relocation iterator promises its caller (spec section 9, "one    *)
(* contract: next() -> record or end-of-stream"): it yields the records of *)
(* the region one by one, in storage order, and then the end of the       *)
(* stream, after which it yields nothing more.                             *)
(***************************************************************************)
EXTENDS Naturals, Sequences

VARIABLES
  records,  \* the records the region encodes (fixed for a walk)
  out,      \* the records yielded so far
  ended     \* next() has returned end-of-stream

Init ==
  /\ out = << >>
  /\ ended = FALSE

Yield ==
  /\ ~ended
  /\ Len(out) < Len(records)
  /\ out' = Append(out, records[Len(out) + 1])
  /\ UNCHANGED <<records, ended>>

End ==
  /\ ~ended
  /\ Len(out) = Len(records)
  /\ ended' = TRUE
  /\ UNCHANGED <<records, out>>

Next == Yield \/ End

Spec == Init /\ [][Next]_<<records, out, ended>>
          /\ WF_<<records, out, ended>>(Next)
=============================================================================
