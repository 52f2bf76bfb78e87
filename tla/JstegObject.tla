----------------------------- MODULE JstegObject -----------------------------
(***************************************************************************)
(* The object that break_jsteg.c keeps of an image.  The low bits of the   *)
(* coefficients hold the width of a number, the number, which is the       *)
(* length of the message, and the message.  The object has the last bytes  *)
(* of the message, to be recognised with the right key, the number of      *)
(* bytes of the key stream to skip for them, and the message's first       *)
(* bytes.  A bit of the message is named by its place in the image.        *)
(***************************************************************************)
EXTENDS Integers, Sequences, SequencesExt

CONSTANTS
    WidthBits,   \* bits of the number that says how wide the length is: 5
    ByteBits,    \* 8
    JSTEGBYTES,  \* bytes of coeff: 8
    JSTEGHEADER, \* bytes of header: 64
    IntRange     \* values of an int: 2^32

ASSUME JstegAssumption ==
    /\ {WidthBits, ByteBits, JSTEGBYTES, JSTEGHEADER} \subseteq Nat \ {0}
    /\ IntRange \in Nat /\ IntRange % 2 = 0 /\ IntRange > 0

NoBit == -1
NoObject == [kind |-> "NULL"]

\* The number that a sequence of bits is, shifted in from the right.
Shifted(number_, bit) == 2 * number_ + bit
Number(bits) == FoldLeft(Shifted, 0, bits)

\* What an int holds of a number.
ToInt(x) == LET m == x % IntRange IN IF 2 * m < IntRange THEN m ELSE m - IntRange

\* jsteg_size(): of a length that has no bits one bit is read all the same, and
\* off is one further when the bits end within the number.
JstegSize(dcts) ==
    LET bits  == Len(dcts)
        width == Number(SubSeq(dcts, 1, Min({WidthBits, bits})))
        last  == WidthBits + Max({width, 1})
    IN  [bytes |-> Number(SubSeq(dcts, WidthBits + 1, Min({last, bits}))),
         off   |-> IF bits >= last THEN last ELSE bits + 1]

\* Mutant of PrepareJsteg: the end of the message is not looked for past its length.
PrepareJstegEarly(dcts) ==
    LET size   == JstegSize(dcts)
        max    == JSTEGBYTES * ByteBits
        jsbits == ToInt(size.bytes * ByteBits)
    IN  IF jsbits < max \/ size.off + jsbits > Len(dcts) THEN NoObject
        ELSE [skip   |-> size.bytes - JSTEGBYTES,
              coeff  |-> [j \in 1..max |-> jsbits - max + j],
              header |-> [j \in 1..JSTEGHEADER * ByteBits |->
                            IF j <= jsbits THEN size.off + j ELSE NoBit]]

\* break_jsteg_prepare(); the rest of a header longer than the message is zero.
PrepareJsteg(dcts) ==
    LET size   == JstegSize(dcts)
        max    == JSTEGBYTES * ByteBits
        jsbits == ToInt(size.bytes * ByteBits)
    IN  IF jsbits < max \/ size.off + jsbits > Len(dcts) THEN NoObject
        ELSE [skip   |-> size.bytes - JSTEGBYTES,
              coeff  |-> [j \in 1..max |-> size.off + jsbits - max + j],
              header |-> [j \in 1..JSTEGHEADER * ByteBits |->
                            IF j <= jsbits THEN size.off + j ELSE NoBit]]

\* break_jsteg() with a key: byte k of coeff is decrypted by this byte of the key
\* stream; crack_jsteg() decrypts byte k of header by byte k of it.
KeyByteOf(job, k) == job.skip + k
=============================================================================
