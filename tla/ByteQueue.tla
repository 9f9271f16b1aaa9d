------------------------------ MODULE ByteQueue ------------------------------
(***************************************************************************)
(* What the byte fifo of zf_common_fifo.c promises its callers: a queue of *)
(* at most Max bytes that takes a message whole or not at all, hands out   *)
(* its oldest bytes in order, and says when it had fewer than were asked   *)
(* for.  Of a read from the tail only the number of bytes is promised.     *)
(***************************************************************************)
EXTENDS Naturals, Sequences

CONSTANTS Max, Bytes

VARIABLES content, result

Messages == UNION {[1 .. n -> Bytes] : n \in 1 .. Max + 1}
Lengths == 1 .. Max + 1

(* A call and its outcome, with the bytes it was given or handed out. *)
Answer(c, s, d) == [call |-> c, status |-> s, data |-> d]

Init ==
    /\ content = <<>>
    /\ result = Answer("clear", "SUCCESS", <<>>)

Write(dat) ==
    \/ /\ Len(content) + Len(dat) <= Max
       /\ content' = content \o dat
       /\ result' = Answer("write", "SUCCESS", dat)
    \/ /\ Len(content) + Len(dat) > Max
       /\ content' = content
       /\ result' = Answer("write", "SPACE_NO_ENOUGH", dat)

(* How many bytes a request for n gets. *)
Granted(n) == IF n <= Len(content) THEN n ELSE Len(content)
Status(n) == IF n <= Len(content) THEN "SUCCESS" ELSE "DATA_NO_ENOUGH"

Read(n, clean) ==
    /\ result' = Answer("read", Status(n), [i \in 1 .. Granted(n) |-> content[i]])
    /\ content' = IF clean
                  THEN [i \in 1 .. Len(content) - Granted(n) |-> content[Granted(n) + i]]
                  ELSE content

(* A read from the tail hands out as many bytes as there are, up to n; it  *)
(* does not say which.  A clean one drops the whole content.               *)
ReadTail(n, clean) ==
    /\ \E dat \in [1 .. Granted(n) -> Bytes] :
           result' = Answer("tail", Status(n), dat)
    /\ content' = IF clean THEN <<>> ELSE content

Clear ==
    /\ content' = <<>>
    /\ result' = Answer("clear", "SUCCESS", <<>>)

Next ==
    \/ \E dat \in Messages : Write(dat)
    \/ \E n \in Lengths, clean \in BOOLEAN : Read(n, clean) \/ ReadTail(n, clean)
    \/ Clear

Spec == Init /\ [][Next]_<<content, result>>
=============================================================================
