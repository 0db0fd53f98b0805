---------------------------- MODULE MCSleb128 ----------------------------
(***************************************************************************)
(* Inputs for checking Sleb128: the reference SLEB128 encoding of every    *)
(* signed value of a W-bit size_t, every proper prefix of it (a range that *)
(* ends inside a number), and the examples of spec section 8.             *)
(***************************************************************************)
EXTENDS Sleb128

\* Reference encoder: seven bits per byte, low group first, until the rest
\* is all sign (TLC's \div and % round towards minus infinity).
RECURSIVE Enc(_)
Enc(x) ==
  LET b == x % 128
      r == x \div 128
  IN IF (r = 0 /\ b < 64) \/ (r = -1 /\ b >= 64) THEN <<b>>
     ELSE <<b + 128>> \o Enc(r)

\* The encoding of x with k more bytes of sign fill (LEB128 padding).
Padded(x, k) ==
  LET e == Enc(x)
      fill == IF x < 0 THEN 127 ELSE 0
  IN [e EXCEPT ![Len(e)] = @ + 128]
     \o [i \in 1..k |-> IF i < k THEN fill + 128 ELSE fill]

Signed == (-(2^(W - 1)))..(2^(W - 1) - 1)

Minimal == { [bytes |-> Enc(x), format |-> FALSE, expect |-> x % M] : x \in Signed }
Prefixes ==
  UNION { { [bytes |-> SubSeq(Enc(x), 1, k), format |-> TRUE, expect |-> 0] :
            k \in 0..(Len(Enc(x)) - 1) } : x \in Signed }
SpecExamples == { [bytes |-> <<127>>, format |-> FALSE, expect |-> M - 1],
                  [bytes |-> <<128, 1>>, format |-> FALSE, expect |-> 128] }
\* Padded to more bytes than a W-bit value needs.
Overlong == { [bytes |-> Padded(x, k), format |-> FALSE, expect |-> x % M] : x \in Signed, k \in 1..2 }

MCInputs == Minimal \cup Prefixes \cup SpecExamples
=============================================================================
