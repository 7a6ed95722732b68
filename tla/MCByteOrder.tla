----------------------------- MODULE MCByteOrder ------------------------------
(* Model of ByteOrder for TLC.                                                 *)
EXTENDS ByteOrder

(* Up to three words, with a low byte, a high byte or both.                    *)
Words == UNION {[1..n -> {1, 256, 515}] : n \in 0..2} \union {<<1, 515, 256>>}
==============================================================================
