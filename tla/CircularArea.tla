---------------------------- MODULE CircularArea ----------------------------
(***************************************************************************)
(* Circular areas (circular_area.c): a ring of bytes, sequential, full or  *)
(* empty by b_status when its indices are equal.  What the two halves of a *)
(* divided copy do is one copy modulo the length.                          *)
(***************************************************************************)
EXTENDS Integers, Sequences

CONSTANTS
    Byte,          \* the bytes
    AreaLen,       \* area_length
    IdxMod,        \* 2^8: readidx and writeidx count modulo IdxMod
    Forces         \* the values of b_force callers pass

ASSUME CircularAreaAssumption ==
    Byte # {} /\ AreaLen \in Nat \ {0} /\ IdxMod \in Nat \ {0} /\ Forces \subseteq BOOLEAN

VARIABLES
    readidx, writeidx, data_buffer, b_status,
    stored         \* history: the bytes written and not read

areaVars == <<readidx, writeidx, data_buffer, b_status, stored>>

AreaInit ==
    /\ readidx = 0 /\ writeidx = 0 /\ b_status = FALSE /\ stored = <<>>
    /\ data_buffer \in [0 .. AreaLen - 1 -> {CHOOSE b \in Byte : TRUE}]

CircularAreaIsFull == readidx = writeidx /\ b_status
CircularAreaIsEmpty == readidx = writeidx /\ ~b_status

CircularAreaGetDataLength ==
    IF CircularAreaIsFull THEN AreaLen ELSE (writeidx - readidx + AreaLen) % AreaLen

Atmost(n, limit) == IF n > limit THEN limit ELSE n

Advance(idx, n) == ((idx + n) % AreaLen) % IdxMod

LastOfSeq(s, n) == SubSeq(s, Len(s) - Atmost(n, Len(s)) + 1, Len(s))

(* A read that leaves b_status. *)
ReadKeepsStatus(len) ==
    LET n == Atmost(len, CircularAreaGetDataLength)
    IN  /\ ~CircularAreaIsEmpty
        /\ readidx' = Advance(readidx, n)
        /\ stored' = SubSeq(stored, n + 1, Len(stored))
        /\ UNCHANGED <<writeidx, data_buffer, b_status>>

(* CircularAreaRead of at most len bytes. *)
CircularAreaRead(len) ==
    LET n == Atmost(len, CircularAreaGetDataLength)
    IN  /\ ~CircularAreaIsEmpty
        /\ readidx' = Advance(readidx, n)
        /\ b_status' = FALSE
        /\ stored' = SubSeq(stored, n + 1, Len(stored))
        /\ UNCHANGED <<writeidx, data_buffer>>

(* CircularAreaWrite: as much of the input as there is room for.  A forced *)
(* write is to go in whole, at the expense of the oldest bytes; the code   *)
(* writes no more than otherwise and then moves readidx.                   *)
CircularAreaWrite(input, b_force) ==
    LET n == Atmost(Len(input), AreaLen - CircularAreaGetDataLength)
    IN  /\ ~CircularAreaIsFull \/ b_force
        /\ data_buffer' = [i \in 0 .. AreaLen - 1 |->
              LET k == (i - writeidx) % AreaLen
              IN  IF k < n THEN input[k + 1] ELSE data_buffer[i]]
        /\ writeidx' = Advance(writeidx, n)
        /\ readidx' = IF b_force THEN writeidx' ELSE readidx
        /\ b_status' = TRUE
        /\ stored' = IF b_force THEN LastOfSeq(stored \o input, AreaLen)
                                ELSE stored \o SubSeq(input, 1, n)

CircularAreaReset ==
    /\ readidx' = 0 /\ writeidx' = 0 /\ b_status' = FALSE /\ stored' = <<>>
    /\ UNCHANGED data_buffer

AreaNext ==
    \/ \E len \in 1 .. AreaLen : CircularAreaRead(len)
    \/ \E len \in 1 .. AreaLen : \E input \in [1 .. len -> Byte], force \in Forces :
          CircularAreaWrite(input, force)
    \/ CircularAreaReset

AreaSpec == AreaInit /\ [][AreaNext]_areaVars

-----------------------------------------------------------------------------
(* Properties. *)

(* The bytes that a reader would get. *)
Readable == [i \in 1 .. CircularAreaGetDataLength |-> data_buffer[(readidx + i - 1) % AreaLen]]

(* What was written is read, once and in order, and the area is full or    *)
(* empty when it says so, although one flag and two equal indices stand    *)
(* for both: after any series of reads and writes of any lengths, across   *)
(* the end of the buffer.                                                  *)
AreaFifo == Readable = stored
=============================================================================
