------------------------------- MODULE Fusion -------------------------------
(***************************************************************************)
(* The reading of a sensor value and the fire-detection arithmetic of the  *)
(* sink: char_to_int (src/sink/pdu.c) and src/sink/fusion.c.  A C string   *)
(* is the sequence of its bytes before the terminating 0.  The floats of   *)
(* the code are exact fractions <<numerator, denominator>> here, so the    *)
(* final truncation can differ from the code's by one.                     *)
(***************************************************************************)
EXTENDS Integers, SequencesExt

\* The bytes of a buffer up to its first 0.
CString(bytes) ==
  LET zeros == {k \in DOMAIN bytes : bytes[k] = 0}
  IN  IF zeros = {} THEN bytes ELSE SubSeq(bytes, 1, Min(zeros) - 1)

\* data[i] -= '0' on an uint8_t, for every byte of the string.
Shifted(data) == [k \in DOMAIN data |-> (data[k] + 256 - 48) % 256]

\* The sum of data[i] * 10^(distance from the end).
Positional(data) == FoldLeft(LAMBDA j, d : 10 * j + d, 0, data)

\* char_to_int converts in place: it returns an int and leaves the buffer
\* shifted, where a digit '0' has become the end of the string.
char_to_int(data) == [value |-> Positional(Shifted(data)),
                      data  |-> CString(Shifted(data))]

(***************************************************************************)
(* Membership(data, x1, x2, x3, 0.1, 0.5) for data the fraction <<s, n>>.  *)
(* In C `x1 <= data < x2' compares 0 or 1 with x2, so with x2 > 1 the      *)
(* second branch takes every datum that is not below x1 and the branches   *)
(* for x3 are dead.                                                        *)
(***************************************************************************)
Membership(data, x1, x2) ==
  LET s == data[1]  n == data[2]
  IN  IF s < x1 * n
      THEN <<1, 10>>
      ELSE <<4 * (s - x1 * n) + n * (x2 - x1), 10 * n * (x2 - x1)>>

\* (f1 + f2 + f3) / 3 for three memberships whose denominators divide
\* 7000 * n, where n is the number of readings of each kind.
MeanOf3(f, n) ==
  LET over(k) == f[k][1] * ((7000 * n) \div f[k][2])
  IN  <<over(1) + over(2) + over(3), 21000 * n>>

\* means[k] is the <<sum, number>> of the readings of type k: temperature,
\* smoke, carbon monoxide.
data_fusion(means) ==
  MeanOf3(<<Membership(means[1], 30, 55),
            Membership(means[2], 300, 1000),
            Membership(means[3], 30, 100)>>,
          means[1][2] * means[2][2] * means[3][2])

\* fre = fusion_result * 1000, truncated: the sample frequency sent back.
cooperative_control(result) == (1000 * result[1]) \div result[2]
=============================================================================
