-------------------------------- MODULE Fifo --------------------------------
(***************************************************************************)
(* The byte fifo of the board library (zf_common_fifo.c): a ring with a    *)
(* write position, a read position and the number of free places.  The     *)
(* program uses it for the lines of the GNSS receiver, every call from the *)
(* one serial interrupt, so an operation is one action; the execution      *)
(* flags, which turn away an operation that meets another half-way, are    *)
(* always clear between two operations and left out.                       *)
(***************************************************************************)
EXTENDS Naturals, Integers, Sequences

CONSTANTS
    Max,            \* fifo->max
    Bytes, Zero     \* the values of a byte, and what a clear leaves

ASSUME FifoAssumption ==
    /\ Max \in Nat \ {0}
    /\ Zero \in Bytes

VARIABLES buffer, head, end, size, result

fifoVars == <<buffer, head, end, size, result>>

Places == 0 .. Max - 1
Messages == UNION {[1 .. n -> Bytes] : n \in 1 .. Max + 1}
Lengths == 1 .. Max + 1
(* A call and its outcome, with the bytes it was given or handed out. *)
Answer(c, s, d) == [call |-> c, status |-> s, data |-> d]

FifoTypeOK ==
    /\ buffer \in [Places -> Bytes]
    /\ head \in Places /\ end \in Places
    /\ size \in 0 .. Max

FifoInit ==
    /\ buffer \in [Places -> Bytes]
    /\ head = 0 /\ end = 0 /\ size = Max
    /\ result = Answer("clear", "SUCCESS", <<>>)

-----------------------------------------------------------------------------
(* fifo_head_offset, fifo_end_offset: at most one turn. *)
Offset(p, n) == IF p + n < Max THEN p + n ELSE p + n - Max

Used == Max - size

(* Slip: the second part of a message that wraps begins with its first     *)
(* byte again.                                                             *)
CopyInRepeating(at, dat) ==
    [j \in Places |-> IF at <= j /\ j < at + Len(dat) THEN dat[j - at + 1]
                      ELSE IF j + Max < at + Len(dat) THEN dat[j + 1]
                      ELSE buffer[j]]

(* dat from place at on, in two parts when it passes the end of the buffer. *)
CopyIn(at, dat) ==
    [j \in Places |-> IF at <= j /\ j < at + Len(dat) THEN dat[j - at + 1]
                      ELSE IF j + Max < at + Len(dat) THEN dat[j + Max - at + 1]
                      ELSE buffer[j]]

CopyOut(at, n) == [i \in 1 .. n |-> buffer[Offset(at, i - 1)]]

(* fifo_write_buffer, and fifo_write_element for one byte. *)
Write(dat) ==
    \/ /\ Len(dat) <= size
       /\ buffer' = CopyIn(head, dat)
       /\ head' = Offset(head, Len(dat))
       /\ size' = size - Len(dat)
       /\ result' = Answer("write", "SUCCESS", dat)
       /\ UNCHANGED end
    \/ /\ Len(dat) > size
       /\ result' = Answer("write", "SPACE_NO_ENOUGH", dat)
       /\ UNCHANGED <<buffer, head, end, size>>

Granted(n) == IF n <= Used THEN n ELSE Used
Status(n) == IF n <= Used THEN "SUCCESS" ELSE "DATA_NO_ENOUGH"

(* fifo_read_buffer, and fifo_read_element for one byte. *)
Read(n, clean) ==
    /\ result' = Answer("read", Status(n), CopyOut(end, Granted(n)))
    /\ IF clean
       THEN /\ end' = Offset(end, Granted(n))
            /\ size' = size + Granted(n)
       ELSE UNCHANGED <<end, size>>
    /\ UNCHANGED <<buffer, head>>

Cleared ==
    /\ buffer' = [j \in Places |-> Zero]
    /\ head' = 0 /\ end' = 0 /\ size' = Max

Clear == Cleared /\ result' = Answer("clear", "SUCCESS", <<>>)

(* The newest n bytes.  When they lie round the end of the buffer, the     *)
(* second part is fetched from place head - n instead of place 0; what     *)
(* stands before the buffer can be any byte.                               *)
TailOut(n, before) ==
    [i \in 1 .. n |->
        IF head > end \/ head >= n THEN buffer[head - n + i - 1]
        ELSE LET first == n - head
                 place == (i - 1 - first) + (head - n)
             IN  IF i <= first THEN buffer[Max - first + i - 1]
                 ELSE IF place >= 0 THEN buffer[place]
                 ELSE before]

ReadTail(n, clean) ==
    /\ \E before \in Bytes :
           result' = Answer("tail", Status(n), TailOut(Granted(n), before))
    /\ IF clean /\ Used > 0 THEN Cleared ELSE UNCHANGED <<buffer, head, end, size>>

FifoNext ==
    \/ \E dat \in Messages : Write(dat)
    \/ \E n \in Lengths, clean \in BOOLEAN : Read(n, clean) \/ ReadTail(n, clean)
    \/ Clear

FifoSpec == FifoInit /\ [][FifoNext]_fifoVars

-----------------------------------------------------------------------------
(* The bytes between the read and the write position, oldest first. *)
Content == CopyOut(end, Used)

Queue == INSTANCE ByteQueue WITH content <- Content

(* The ring is a queue: whatever is written, read and cleared, and however *)
(* often the positions pass the end of the buffer, every byte comes out    *)
(* once and in order, a message is taken whole or not at all, and a read   *)
(* from the tail keeps the whole content or drops the whole of it          *)
(* (zf_common_fifo.c:47-101, 168-272, 345-526).                            *)
ImplementsQueue == Queue!Spec
=============================================================================
