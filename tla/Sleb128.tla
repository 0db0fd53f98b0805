------------------------------ MODULE Sleb128 ------------------------------
(***************************************************************************)
(* xh_elf_sleb128_decoder_init / _next of src/libxhook/jni/xh_elf.c (lines *)
(* 72-110) at the level of bytes: one step per turn of the do-while loop.  *)
(* size_t is W bits wide.  A left shift by W or more (line 99, once a      *)
(* number has more than W/7 bytes) is undefined in C: the build computes   *)
(* either the shift modulo the width (AArch64 LSL by register) or 0 (ARM   *)
(* register shifts of 32 or more), and the model takes either.             *)
(***************************************************************************)
EXTENDS Integers, Sequences, Bitwise

CONSTANTS
  W,       \* width in bits of size_t
  Inputs   \* [bytes : Seq(0..255), format : BOOLEAN, expect : 0..M-1]

M == 2^W

VARIABLES
  in,      \* the byte range [cur, end) handed to the decoder, and the
           \* value a correct decoder returns for it
  cur,     \* index of the next byte
  value,
  shift,
  phase,   \* "loop", "done" (returned 0 with *ret = value), "err" (FORMAT)
  ret      \* *ret

vars == <<in, cur, value, shift, phase, ret>>

Payload(b) == b % 128
More(b) == b >= 128
SignBit(b) == (b \div 64) % 2 = 1

\* Mutant: the shifted payload not truncated to size_t.
ShiftedAllNoWrap(x, s) ==
  IF s < W THEN {x * 2^s}
  ELSE {x * 2^(s % W), 0}

\* (size_t)x << s, for the shifts the build may compute when s >= W.
ShiftedAll(x, s) ==
  IF s < W THEN {(x * 2^s) % M}
  ELSE {(x * 2^(s % W)) % M, 0}

\* Mutant: the sign extension tested against the shift of the last byte.
FinishEarlyShift(v, s, b) ==
  IF s - 7 < W /\ SignBit(b) THEN v | (M - 2^(s - 7)) ELSE v

\* Lines 103-106: sign-extend when the accumulator still has room.
Finish(v, s, b) ==
  IF s < W /\ SignBit(b) THEN v | (M - 2^s) ELSE v

\* One turn of the loop of lines 93-101, and lines 103-109 after the last.
Step ==
  /\ phase = "loop"
  /\ \/ /\ cur > Len(in.bytes)
        /\ phase' = "err"
        /\ UNCHANGED <<in, cur, value, shift, ret>>
     \/ /\ cur <= Len(in.bytes)
        /\ LET b == in.bytes[cur] IN
           \E sh \in ShiftedAll(Payload(b), shift) :
             LET v == value | sh IN
             /\ cur' = cur + 1
             /\ shift' = shift + 7
             /\ IF More(b)
                  THEN /\ value' = v /\ UNCHANGED <<phase, ret>>
                  ELSE /\ value' = Finish(v, shift + 7, b)
                       /\ ret' = value'
                       /\ phase' = "done"
        /\ UNCHANGED in

Init ==
  /\ in \in Inputs
  /\ cur = 1
  /\ value = 0
  /\ shift = 0
  /\ phase = "loop"
  /\ ret = 0

Next ==
  \/ Step
  \/ phase # "loop" /\ UNCHANGED vars

Spec == Init /\ [][Next]_vars

(***************************************************************************)
(* Properties                                                              *)
(***************************************************************************)

TypeOK ==
  /\ value \in 0..(M - 1) /\ ret \in 0..(M - 1)
  /\ cur \in 1..(Len(in.bytes) + 1)
  /\ shift \in {7 * k : k \in 0..Len(in.bytes)}
  /\ phase \in {"loop", "done", "err"}

(* The decoder returns, for every number it is given, the value of size_t  *)
(* the number encodes, and FORMAT exactly when the range ends inside the   *)
(* number (spec 4.1; spec 8: 0x7F is -1, 0x80 0x01 is 128).                *)
DecodesEncoded ==
  /\ phase = "done" => ~in.format /\ in.expect = ret
  /\ phase = "err" => in.format
=============================================================================
