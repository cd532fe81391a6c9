----------------------------- MODULE BitCoding -----------------------------
(***************************************************************************)
(* The bits of a frame: nxcomp/src/EncodeBuffer.cpp writes the fields of a *)
(* message one after the other, and DecodeBuffer.cpp, which knows only     *)
(* what kind of field comes next, must stop reading each of them exactly   *)
(* where it ends.  A number is written in blocks, lowest bits first; after *)
(* a block one bit says whether the rest is only copies of the last one.   *)
(* An index of a cache is written in unary, and raw data starts at a byte. *)
(*                                                                         *)
(* A number is a sequence of bits, lowest first.                           *)
(***************************************************************************)
EXTENDS Naturals, Sequences, SequencesExt

CONSTANTS Widths,      \* numBits of the fields
          Blocks,      \* block sizes, 0 for none
          MaxIndex,    \* the largest index of a cache
          ByteBits,    \* 8
          MaxFrameFields \* bound for model checking: the fields of a frame

ASSUME BitsAssumption ==
    /\ Widths \subseteq Nat \ {0} /\ Blocks \subseteq Nat
    /\ MaxIndex \in Nat /\ ByteBits \in Nat \ {0} /\ MaxFrameFields \in Nat

VARIABLES buffer,   \* the bits written: nextDest_ and destShift_ are its length
          fields,   \* the fields written
          flushed,  \* the frame has been sent
          nextSrc,  \* the bits read: nextSrc_ and srcMask_
          read      \* the fields read

frameVars == <<buffer, fields, flushed, nextSrc, read>>

-----------------------------------------------------------------------------
(* Numbers *)

(* The size of block i, counting from 1, if the first is b bits. *)
SizeOfBlock(b, i, n) ==
    LET first   == IF b = 0 THEN n ELSE b
        half(x) == IF x \div 2 < 2 THEN 2 ELSE x \div 2
    IN  <<first, half(first), half(half(first)), n>>[i]

Least(x, y) == IF x < y THEN x ELSE y

(* Mutant: the last bit of the block is not compared with the first of the
   rest. *)
OnlyCopiesMutant(v, done) == \A j \in done + 2 .. Len(v) : v[j] = v[j - 1]

(* The bits after the first done ones repeat the last of these. *)
OnlyCopies(v, done) == \A j \in done + 1 .. Len(v) : v[j] = v[done]

Bits == {0, 1}

(* Where the loop of encodeValue is. *)
Writing == [bits : Seq(Bits), done : Nat, i : Nat]

(* One turn of the loop of encodeValue, with w.done bits of v written in
   w.i - 1 blocks; the rest is done once its copies are announced. *)
WriteBlock(w, v, b) ==
    LET n   == Len(v)
        to  == Least(n, w.done + SizeOfBlock(b, w.i, n))
        now == w.bits \o SubSeq(v, w.done + 1, to)
    IN  IF w.done = n THEN w
        ELSE IF to = n THEN [bits |-> now, done |-> n, i |-> w.i + 1]
        ELSE IF OnlyCopies(v, to) THEN [bits |-> Append(now, 0), done |-> n, i |-> w.i + 1]
        ELSE [bits |-> Append(now, 1), done |-> to, i |-> w.i + 1]

(* The fourth block takes all that is left. *)
encodeValue(v, b) ==
    LET turn[w \in Writing] == WriteBlock(w, v, b)
    IN  turn[turn[turn[turn[[bits |-> << >>, done |-> 0, i |-> 1]]]]].bits

(* Bits of the frame that decodeValue and its like may look at. *)
Available(bits, p, k) == p + k <= Len(bits)

(* Where the loop of decodeValue is. *)
Reading == [value : Seq(Bits), next : Nat, i : Nat, over : BOOLEAN]

(* One turn of the loop of decodeValue: r.value was read before place r.next,
   in r.i - 1 blocks.  Past the end the session is aborted. *)
ReadBlock(r, bits, n, b) ==
    LET k    == Least(n - Len(r.value), SizeOfBlock(b, r.i, n))
        w    == r.value \o SubSeq(bits, r.next + 1, r.next + k)
        last == Len(r.value) + k = n
        Done(value, next) == [value |-> value, next |-> next, i |-> r.i + 1, over |-> TRUE]
    IN  IF r.over THEN r
        ELSE IF ~ Available(bits, r.next, IF last THEN k ELSE k + 1) THEN Done(<< >>, Len(bits))
        ELSE IF last THEN Done(w, r.next + k)
        ELSE IF bits[r.next + k + 1] = 0
        THEN Done([j \in 1 .. n |-> IF j <= Len(w) THEN w[j] ELSE w[Len(w)]], r.next + k + 1)
        ELSE [value |-> w, next |-> r.next + k + 1, i |-> r.i + 1, over |-> FALSE]

decodeValue(bits, p, n, b) ==
    LET turn[r \in Reading] == ReadBlock(r, bits, n, b)
    IN  turn[turn[turn[turn[[value |-> << >>, next |-> p, i |-> 1, over |-> FALSE]]]]]

-----------------------------------------------------------------------------
(* Cached fields and raw data *)

Unary(k) == Append([j \in 1 .. k |-> 0], 1)

(* The index of a hit; 2 is taken, it says that a number follows. *)
IndexCode(k) == Unary(IF k > 1 THEN k + 1 ELSE k)

Escape == Unary(2)

(* The zeros from place p to the next one. *)
Zeros(bits, p) ==
    CHOOSE k \in 0 .. Len(bits) - p :
        /\ \A j \in 1 .. k : bits[p + j] = 0
        /\ Available(bits, p, k + 1) => bits[p + k + 1] = 1

(* alignBuffer, and its counterpart in decodeMemory. *)
Aligned(p) == IF p % ByteBits = 0 THEN p ELSE (p \div ByteBits + 1) * ByteBits

Padded(bits) == bits \o [j \in 1 .. Aligned(Len(bits)) - Len(bits) |-> 0]

-----------------------------------------------------------------------------
(* The frame *)

Numbers == UNION {[1 .. n -> Bits] : n \in Widths}

FrameField ==
    [kind : {"value", "miss"}, value : Numbers, block : Blocks]
    \cup [kind : {"hit"}, value : 0 .. MaxIndex]
    \cup [kind : {"memory"}, value : [1 .. ByteBits -> Bits]]

FrameInit ==
    /\ buffer = << >> /\ fields = << >> /\ flushed = FALSE
    /\ nextSrc = 0 /\ read = << >>

Code(f) ==
    CASE f.kind = "value" -> encodeValue(f.value, f.block)
      [] f.kind = "miss" -> Escape \o encodeValue(f.value, f.block)
      [] OTHER -> IndexCode(f.value)

encode(f) ==
    /\ ~ flushed /\ Len(fields) < MaxFrameFields
    /\ f.kind # "memory"
    /\ buffer' = buffer \o Code(f)
    /\ fields' = Append(fields, f)
    /\ UNCHANGED <<flushed, nextSrc, read>>

encodeMemory(f) ==
    /\ ~ flushed /\ Len(fields) < MaxFrameFields
    /\ f.kind = "memory"
    /\ buffer' = Padded(buffer) \o f.value
    /\ fields' = Append(fields, f)
    /\ UNCHANGED <<flushed, nextSrc, read>>

(* getLength rounds up to a whole byte.  The byte it adds for the postfix is
   taken off again by the DecodeBuffer. *)
Flush ==
    /\ ~ flushed /\ fields # << >>
    /\ flushed' = TRUE
    /\ buffer' = Padded(buffer)
    /\ UNCHANGED <<fields, nextSrc, read>>

(* The next field, of the kind that the protocol has at this point. *)
Expected == fields[Len(read) + 1]

Took(f, next) ==
    /\ read' = Append(read, f)
    /\ nextSrc' = next
    /\ UNCHANGED <<buffer, fields, flushed>>

decode ==
    /\ flushed /\ Len(read) < Len(fields)
    /\ Expected.kind = "value"
    /\ LET r == decodeValue(buffer, nextSrc, Len(Expected.value), Expected.block)
       IN  Took([Expected EXCEPT !.value = r.value], r.next)

decodeCached ==
    /\ flushed /\ Len(read) < Len(fields)
    /\ Expected.kind \in {"hit", "miss"}
    /\ LET k == Zeros(buffer, nextSrc)
           p == nextSrc + k + 1
           (* numBits and the block size are known to both sides. *)
           n == IF Expected.kind = "miss" THEN Len(Expected.value) ELSE 1
           b == IF Expected.kind = "miss" THEN Expected.block ELSE 0
           r == decodeValue(buffer, p, n, b)
       IN  IF k = 2 THEN Took([kind |-> "miss", value |-> r.value, block |-> b], r.next)
           ELSE Took([kind |-> "hit", value |-> IF k > 2 THEN k - 1 ELSE k], p)

decodeMemory ==
    /\ flushed /\ Len(read) < Len(fields)
    /\ Expected.kind = "memory"
    /\ LET p == Aligned(nextSrc)
       IN  Took([Expected EXCEPT !.value = SubSeq(buffer, p + 1, p + ByteBits)], p + ByteBits)

FrameNext ==
    \/ \E f \in FrameField : encode(f) \/ encodeMemory(f)
    \/ Flush \/ decode \/ decodeCached \/ decodeMemory

FrameSpec == FrameInit /\ [][FrameNext]_frameVars

-----------------------------------------------------------------------------
(* Properties *)

(* Each field is read as it was written: the reader stops where the writer did,
   whatever the block sizes, the run of equal bits at the end of a number and
   the place in the byte where it starts.  A frame that was read to the end
   leaves less than a byte behind. *)
ReadsWhatWasWritten ==
    /\ IsPrefix(read, fields)
    /\ flushed /\ Len(read) = Len(fields) => Len(buffer) - nextSrc \in 0 .. ByteBits - 1

=============================================================================
