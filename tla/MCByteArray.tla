----------------------------- MODULE MCByteArray -----------------------------
(***************************************************************************)
(* An instance of ByteArray, and its zigzag coding for integers of 2, 4    *)
(* and 8 bits; the code's have 32 and 64.                                  *)
(***************************************************************************)
EXTENDS ByteArray

Widths == {4, 16, 256}

\* What is encoded is decoded again, the smallest number too, whose negation overflows.
ASSUME Zigzag ==
  \A w \in Widths : \A v \in 0..(w - 1) : DecodeZigzag(w, EncodeZigzag(w, v)) = v

\* writeInt64() decodes where it should encode: nothing but zero is read again as it was written.
ASSUME OnlyZeroSurvives ==
  \A w \in Widths : {v \in 0..(w - 1) : IntWrittenAndRead(w, v) = v} = {0}
==============================================================================
