-------------------------------- MODULE Bytes --------------------------------
(* Numbers as the bytes of a frame, most significant first: tp3_set2bytes, *)
(* tp3_set3bytes and tp3_set4bytes of ttap3_base.h, and tp3_readnum.       *)
EXTENDS Integers, Sequences

Byte == 0..255
Place == <<1, 256, 256 * 256, 256 * 256 * 256>>

(* An int is 32 bits wide; \div rounds down and so shifts the sign in. *)
IntMax == 127 * Place[4] + (Place[4] - 1)
IsInt(n) == n \in Int /\ -IntMax - 1 <= n /\ n <= IntMax

(* The low w bytes of an int.  Written for each width, as the macros are. *)
SetBytes(w, n) == [i \in 1..w |-> (n \div Place[w - i + 1]) % 256]

(* Mutant of ReadNum: the bytes are taken least significant first. *)
ReadNumReversed(b) ==
    LET digit(i) == IF i <= Len(b) THEN b[i] ELSE 0
    IN  digit(1) + Place[2] * digit(2) + Place[3] * digit(3) + Place[4] * digit(4)

(* tp3_readnum of at most four bytes: four of them fill the int, and the   *)
(* first one's high bit becomes its sign.                                  *)
ReadNum(b) ==
    LET digit(i) == IF i < Len(b) THEN b[Len(b) - i] ELSE 0
        top == IF digit(3) < 128 THEN digit(3) ELSE digit(3) - 256
    IN  digit(0) + Place[2] * digit(1) + Place[3] * digit(2) + Place[4] * top
=============================================================================
