----------------------------- MODULE Fifo_proofs -----------------------------
(***************************************************************************)
(* For every capacity and every set of bytes the ring of module Fifo       *)
(* implements the queue of module ByteQueue.                               *)
(***************************************************************************)
EXTENDS Fifo, SequenceTheorems, TLAPS

USE FifoAssumption DEF FifoAssumption

(* The inductive invariant: the write position is as far ahead of the read *)
(* position as there are bytes.                                            *)
Inv == FifoTypeOK /\ head = Offset(end, Used)

LEMMA OffsetPlace ==
    ASSUME NEW p \in Places, NEW n \in 0 .. Max
    PROVE  Offset(p, n) \in Places
BY DEF Offset, Places

LEMMA OffsetTwice ==
    ASSUME NEW p \in Places, NEW m \in 0 .. Max, NEW n \in 0 .. Max - m
    PROVE  Offset(Offset(p, m), n) = Offset(p, m + n)
BY DEF Offset, Places

LEMMA MessageType ==
    ASSUME NEW dat \in Messages
    PROVE  /\ Len(dat) \in 1 .. Max + 1
           /\ dat \in [1 .. Len(dat) -> Bytes]
           /\ dat \in Seq(Bytes)
<1>1. PICK n \in 1 .. Max + 1 : dat \in [1 .. n -> Bytes]
  BY DEF Messages
<1>2. dat \in Seq(Bytes) /\ Len(dat) = n
  BY <1>1
<1> QED
  BY <1>1, <1>2

LEMMA InvInit == FifoInit => Inv
BY DEF FifoInit, Inv, FifoTypeOK, Places, Offset, Used

LEMMA InvWrite ==
    ASSUME Inv, NEW dat \in Messages, Write(dat)
    PROVE  Inv'
<1>1. Len(dat) \in 1 .. Max + 1 /\ dat \in [1 .. Len(dat) -> Bytes]
  BY MessageType
<1>2. CASE Len(dat) <= size
  <2>1. /\ buffer' = CopyIn(head, dat)
        /\ head' = Offset(head, Len(dat))
        /\ size' = size - Len(dat)
        /\ end' = end
    BY <1>1, <1>2 DEF Write, Inv, FifoTypeOK
  <2>2. CopyIn(head, dat) \in [Places -> Bytes]
    BY <1>1, <1>2 DEF CopyIn, Inv, FifoTypeOK, Places
  <2>3. Offset(head, Len(dat)) \in Places
    BY <1>1, <1>2, OffsetPlace DEF Inv, FifoTypeOK
  <2>4. Offset(head, Len(dat)) = Offset(end, Used + Len(dat))
    BY <1>1, <1>2, OffsetTwice DEF Inv, FifoTypeOK, Used
  <2> QED
    BY <1>1, <1>2, <2>1, <2>2, <2>3, <2>4 DEF Inv, FifoTypeOK, Used, Offset
<1>3. CASE Len(dat) > size
  BY <1>1, <1>3 DEF Write, Inv, FifoTypeOK, Used, Offset
<1> QED
  BY <1>1, <1>2, <1>3 DEF Inv, FifoTypeOK

LEMMA InvRead ==
    ASSUME Inv, NEW n \in Lengths, NEW clean \in BOOLEAN, Read(n, clean)
    PROVE  Inv'
<1>1. Granted(n) \in 0 .. Used /\ Used \in 0 .. Max
  BY DEF Granted, Used, Inv, FifoTypeOK, Lengths
<1>2. CASE clean
  <2>1. Offset(end, Granted(n)) \in Places
    BY <1>1, OffsetPlace DEF Inv, FifoTypeOK
  <2>2. head = Offset(Offset(end, Granted(n)), Used - Granted(n))
    BY <1>1, OffsetTwice DEF Inv, FifoTypeOK
  <2>3. Used' = Used - Granted(n) /\ size' \in 0 .. Max
    BY <1>1, <1>2 DEF Read, Used, Inv, FifoTypeOK
  <2> QED
    BY <1>2, <2>1, <2>2, <2>3 DEF Read, Inv, FifoTypeOK, Offset
<1>3. CASE ~clean
  BY <1>3 DEF Read, Inv, FifoTypeOK, Used, Offset
<1> QED
  BY <1>2, <1>3

LEMMA InvClear ==
    ASSUME Cleared
    PROVE  Inv'
BY DEF Cleared, Inv, FifoTypeOK, Places, Offset, Used

LEMMA InvNext == Inv /\ [FifoNext]_fifoVars => Inv'
<1> SUFFICES ASSUME Inv, [FifoNext]_fifoVars PROVE Inv'
  OBVIOUS
<1>1. ASSUME NEW dat \in Messages, Write(dat) PROVE Inv'
  BY <1>1, InvWrite
<1>2. ASSUME NEW n \in Lengths, NEW clean \in BOOLEAN, Read(n, clean) PROVE Inv'
  BY <1>2, InvRead
<1>3. ASSUME NEW n \in Lengths, NEW clean \in BOOLEAN, ReadTail(n, clean) PROVE Inv'
  <2>1. CASE Cleared
    BY <2>1, InvClear
  <2>2. CASE UNCHANGED <<buffer, head, end, size>>
    BY <2>2 DEF Inv, FifoTypeOK, Used, Offset
  <2> QED
    BY <1>3, <2>1, <2>2 DEF ReadTail
<1>4. CASE Clear
  BY <1>4, InvClear DEF Clear
<1>5. CASE UNCHANGED fifoVars
  BY <1>5 DEF fifoVars, Inv, FifoTypeOK, Used, Offset
<1> QED
  BY <1>1, <1>2, <1>3, <1>4, <1>5 DEF FifoNext

(* The positions stay inside the buffer and agree with the count of free   *)
(* places.                                                                 *)
THEOREM FifoInv == FifoSpec => []Inv
<1> QED
  BY InvInit, InvNext, PTL DEF FifoSpec
-----------------------------------------------------------------------------
(* The refinement *)

LEMMA RingSeq ==
    ASSUME NEW b \in [Places -> Bytes], NEW e \in Places, NEW u \in 0 .. Max
    PROVE  LET c == [i \in 1 .. u |-> b[Offset(e, i - 1)]]
           IN  /\ c \in Seq(Bytes)
               /\ Len(c) = u
               /\ \A i \in 1 .. u : c[i] = b[Offset(e, i - 1)]
<1> DEFINE c == [i \in 1 .. u |-> b[Offset(e, i - 1)]]
<1>1. \A i \in 1 .. u : Offset(e, i - 1) \in Places
  BY OffsetPlace
<1>2. c \in [1 .. u -> Bytes]
  BY <1>1
<1>3. c \in Seq(Bytes) /\ Len(c) = u
  BY <1>2
<1> QED
  BY <1>3

LEMMA ContentType ==
    ASSUME Inv
    PROVE  /\ Used \in 0 .. Max
           /\ Content \in Seq(Bytes)
           /\ Len(Content) = Used
           /\ \A i \in 1 .. Used : Content[i] = buffer[Offset(end, i - 1)]
<1>1. Used \in 0 .. Max /\ buffer \in [Places -> Bytes] /\ end \in Places
  BY DEF Inv, FifoTypeOK, Used
<1> QED
  BY <1>1, RingSeq DEF Content, CopyOut

LEMMA UsedRange ==
    ASSUME NEW s \in 0 .. Max
    PROVE  Max - s \in 0 .. Max
OBVIOUS

LEMMA ContentTypeNext ==
    ASSUME Inv'
    PROVE  /\ Used' \in 0 .. Max
           /\ Content' \in Seq(Bytes)
           /\ Len(Content') = Used'
           /\ \A i \in 1 .. Used' : Content'[i] = buffer'[Offset(end', i - 1)]
<1>1. Used' \in 0 .. Max /\ buffer' \in [Places -> Bytes] /\ end' \in Places
  <2>1. buffer' \in [Places -> Bytes] /\ end' \in Places /\ size' \in 0 .. Max
    BY DEF Inv, FifoTypeOK, Places
  <2>2. Max - size' \in 0 .. Max
    BY <2>1, UsedRange
  <2>3. Used' = Max - size'
    BY DEF Used
  <2> QED
    BY <2>1, <2>2, <2>3
<1>2. Content' = [i \in 1 .. Used' |-> buffer'[Offset(end', i - 1)]]
  BY DEF Content, CopyOut, Offset
<1> QED
  BY <1>1, <1>2, RingSeq

(* Where a message is found after it has been copied in. *)
LEMMA CopyInHit ==
    ASSUME NEW h \in Places, NEW dat \in Seq(Bytes), Len(dat) \in 1 .. Max,
           NEW k \in 0 .. Len(dat) - 1
    PROVE  CopyIn(h, dat)[Offset(h, k)] = dat[k + 1]
<1>1. CASE h + k < Max
  <2>1. h + k \in Places /\ h + k - h + 1 = k + 1
    BY <1>1 DEF Places
  <2> QED
    BY <1>1, <2>1 DEF CopyIn, Offset, Places
<1>2. CASE h + k >= Max
  <2>1. /\ h + k - Max \in Places /\ h + k - Max < h
        /\ (h + k - Max) + Max < h + Len(dat)
        /\ (h + k - Max) + Max - h + 1 = k + 1
    BY <1>2 DEF Places
  <2>2. CopyIn(h, dat)[h + k - Max] = dat[(h + k - Max) + Max - h + 1]
    BY <2>1 DEF CopyIn, Places
  <2>3. Offset(h, k) = h + k - Max
    BY <1>2 DEF Offset, Places
  <2> QED
    BY <2>1, <2>2, <2>3
<1> QED
  BY <1>1, <1>2 DEF Places

LEMMA EmptyContent ==
    ASSUME Inv, Used = 0
    PROVE  Content = <<>>
<1>1. Content \in Seq(Bytes) /\ Len(Content) = 0
  BY ContentType
<1> QED
  BY <1>1, EmptySeq

LEMMA GrantedSame ==
    ASSUME Inv, NEW n \in Lengths
    PROVE  /\ Queue!Granted(n) = Granted(n)
           /\ Queue!Status(n) = Status(n)
           /\ Granted(n) \in 0 .. Used
BY ContentType DEF Queue!Granted, Granted, Queue!Status, Status, Lengths

LEMMA WriteStep ==
    ASSUME Inv, Inv', NEW dat \in Messages, Write(dat)
    PROVE  Queue!Write(dat)
<1>1. /\ Len(dat) \in 1 .. Max + 1
      /\ dat \in [1 .. Len(dat) -> Bytes]
      /\ dat \in Seq(Bytes)
  BY MessageType
<1>2. Len(Content) = Used /\ Content \in Seq(Bytes) /\ Used = Max - size
      /\ size \in 0 .. Max /\ end \in Places /\ head = Offset(end, Used)
  BY ContentType DEF Used, Inv, FifoTypeOK
<1>3. CASE Len(dat) <= size
  <2>1. /\ buffer' = CopyIn(head, dat)
        /\ size' = size - Len(dat)
        /\ end' = end
        /\ result' = Answer("write", "SUCCESS", dat)
    BY <1>1, <1>2, <1>3 DEF Write
  <2>2. Used' = Used + Len(dat)
    BY <1>1, <1>2, <2>1 DEF Used
  <2>3. Content' \in Seq(Bytes) /\ Len(Content') = Used + Len(dat)
        /\ \A i \in 1 .. Used + Len(dat) : Content'[i] = CopyIn(head, dat)[Offset(end, i - 1)]
    <3>1. /\ Content' \in Seq(Bytes)
          /\ Len(Content') = Used'
          /\ \A i \in 1 .. Used' : Content'[i] = buffer'[Offset(end', i - 1)]
      BY ContentTypeNext
    <3> QED
      BY <3>1, <2>1, <2>2
  <2>4. Content \o dat \in Seq(Bytes) /\ Len(Content \o dat) = Used + Len(dat)
    BY <1>1, <1>2
  <2>5. ASSUME NEW i \in 1 .. Used
        PROVE  Content'[i] = (Content \o dat)[i]
    <3>1. (Content \o dat)[i] = Content[i]
      BY <1>1, <1>2
    <3>2. Content[i] = buffer[Offset(end, i - 1)]
      BY ContentType
    <3>3. CopyIn(head, dat)[Offset(end, i - 1)] = buffer[Offset(end, i - 1)]
      BY <1>1, <1>2, <1>3 DEF CopyIn, Offset, Places
    <3>4. i \in 1 .. Used + Len(dat)
      BY <1>1, <1>2
    <3>5. Content'[i] = CopyIn(head, dat)[Offset(end, i - 1)]
      BY <2>3, <3>4
    <3> QED
      BY <3>1, <3>2, <3>3, <3>5
  <2>6. ASSUME NEW i \in Used + 1 .. Used + Len(dat)
        PROVE  Content'[i] = (Content \o dat)[i]
    <3>1. (Content \o dat)[i] = dat[i - Used]
      BY <1>1, <1>2
    <3>2. /\ i - 1 - Used \in 0 .. Len(dat) - 1
          /\ i - 1 - Used \in 0 .. Max - Used
          /\ Used + (i - 1 - Used) = i - 1
          /\ i \in 1 .. Used + Len(dat)
          /\ head \in Places /\ Len(dat) \in 1 .. Max /\ Used \in 0 .. Max
      BY <1>1, <1>2, <1>3 DEF Inv, FifoTypeOK
    <3>3. Offset(head, i - 1 - Used) = Offset(end, i - 1)
      BY <3>2, <1>2, OffsetTwice
    <3>4. CopyIn(head, dat)[Offset(head, i - 1 - Used)] = dat[(i - 1 - Used) + 1]
      BY <3>2, <1>1, CopyInHit
    <3>5. (i - 1 - Used) + 1 = i - Used
      BY <3>2
    <3> QED
      BY <3>1, <3>2, <3>3, <3>4, <3>5, <2>3
  <2>7. Content' = Content \o dat
    <3>1. \A i \in 1 .. Len(Content') : Content'[i] = (Content \o dat)[i]
      BY <2>3, <2>5, <2>6, <1>1, <1>2
    <3> QED
      BY <3>1, <2>3, <2>4, SeqEqual
  <2> QED
    BY <2>1, <2>7, <1>1, <1>2, <1>3 DEF Queue!Write, Queue!Answer, Answer, Places
<1>4. CASE Len(dat) > size
  <2>1. UNCHANGED <<buffer, head, end, size>> /\ result' = Answer("write", "SPACE_NO_ENOUGH", dat)
    BY <1>1, <1>2, <1>4 DEF Write
  <2>2. Content' = Content
    BY <2>1 DEF Content, CopyOut, Used, Offset
  <2> QED
    BY <2>1, <2>2, <1>1, <1>2, <1>4 DEF Queue!Write, Queue!Answer, Answer
<1> QED
  BY <1>1, <1>2, <1>3, <1>4 DEF Places
LEMMA ReadStep ==
    ASSUME Inv, Inv', NEW n \in Lengths, NEW clean \in BOOLEAN, Read(n, clean)
    PROVE  Queue!Read(n, clean)
<1>1. /\ Used \in 0 .. Max
      /\ Content \in Seq(Bytes)
      /\ Len(Content) = Used
      /\ \A i \in 1 .. Used : Content[i] = buffer[Offset(end, i - 1)]
  BY ContentType
<1>2. Queue!Granted(n) = Granted(n) /\ Queue!Status(n) = Status(n) /\ Granted(n) \in 0 .. Used
  BY GrantedSame
<1>3. CopyOut(end, Granted(n)) = [i \in 1 .. Granted(n) |-> Content[i]]
  BY <1>1, <1>2 DEF CopyOut
<1>4. result' = Queue!Answer("read", Queue!Status(n),
                             [i \in 1 .. Queue!Granted(n) |-> Content[i]])
  BY <1>2, <1>3 DEF Read, Queue!Answer, Answer
<1>5. CASE clean
  <2>1. Used' = Used - Granted(n) /\ buffer' = buffer /\ end' = Offset(end, Granted(n))
    BY <1>1, <1>2, <1>5 DEF Read, Used, Inv, FifoTypeOK
  <2>2. Content' = [i \in 1 .. Used - Granted(n) |-> buffer[Offset(Offset(end, Granted(n)), i - 1)]]
    BY <2>1 DEF Content, CopyOut, Offset
  <2>3. ASSUME NEW i \in 1 .. Used - Granted(n)
        PROVE  buffer[Offset(Offset(end, Granted(n)), i - 1)] = Content[Granted(n) + i]
    <3>1. /\ end \in Places /\ Granted(n) \in 0 .. Max
          /\ i - 1 \in 0 .. Max - Granted(n)
          /\ Granted(n) + i \in 1 .. Used
          /\ Granted(n) + (i - 1) = (Granted(n) + i) - 1
      BY <1>1, <1>2 DEF Inv, FifoTypeOK
    <3>2. Offset(Offset(end, Granted(n)), i - 1) = Offset(end, Granted(n) + (i - 1))
      BY <3>1, OffsetTwice
    <3> QED
      BY <3>1, <3>2, <1>1
  <2>4. Content' = [i \in 1 .. Len(Content) - Queue!Granted(n) |-> Content[Queue!Granted(n) + i]]
    BY <2>2, <2>3, <1>1, <1>2
  <2> QED
    BY <2>4, <1>4, <1>5 DEF Queue!Read
<1>6. CASE ~clean
  <2>1. UNCHANGED <<buffer, end, size>>
    BY <1>6 DEF Read
  <2>2. Content' = Content
    BY <2>1 DEF Content, CopyOut, Used, Offset
  <2> QED
    BY <2>2, <1>4, <1>6 DEF Queue!Read
<1> QED
  BY <1>5, <1>6

(* Wherever a tail read looks, it hands out n bytes. *)
LEMMA TailType ==
    ASSUME Inv, NEW n \in 0 .. Used, NEW before \in Bytes
    PROVE  TailOut(n, before) \in [1 .. n -> Bytes]
<1>1. /\ buffer \in [Places -> Bytes]
      /\ head \in 0 .. Max - 1 /\ end \in 0 .. Max - 1
      /\ n \in 0 .. Max
      /\ head > end => head >= n
  BY DEF Inv, FifoTypeOK, Places, Used, Offset
<1> DEFINE Place1(i) == head - n + i - 1
           Place2(i) == Max - (n - head) + i - 1
           Place3(i) == (i - 1 - (n - head)) + (head - n)
           Out(i) == IF head > end \/ head >= n THEN buffer[Place1(i)]
                     ELSE IF i <= n - head THEN buffer[Place2(i)]
                     ELSE IF Place3(i) >= 0 THEN buffer[Place3(i)] ELSE before
<1>2. ASSUME NEW i \in 1 .. n PROVE Out(i) \in Bytes
  <2>1. CASE head >= n
    BY <1>1, <2>1 DEF Places
  <2>2. CASE head < n
    BY <1>1, <2>2 DEF Places
  <2> QED
    BY <1>1, <2>1, <2>2
<1>3. TailOut(n, before) = [i \in 1 .. n |-> Out(i)]
  BY DEF TailOut
<1> QED
  BY <1>2, <1>3

LEMMA ClearedContent ==
    ASSUME Inv', Cleared
    PROVE  Content' = <<>>
<1>1. Used' = 0
  BY DEF Cleared, Used
<1>2. Content' \in Seq(Bytes) /\ Len(Content') = 0
  BY <1>1, ContentTypeNext
<1> QED
  BY <1>2, EmptySeq

LEMMA ClearStep ==
    ASSUME Inv', Clear
    PROVE  Queue!Clear
<1>1. Content' = <<>>
  BY ClearedContent DEF Clear
<1> QED
  BY <1>1 DEF Clear, Queue!Clear, Queue!Answer, Answer

LEMMA ReadTailStep ==
    ASSUME Inv, Inv', NEW n \in Lengths, NEW clean \in BOOLEAN, ReadTail(n, clean)
    PROVE  Queue!ReadTail(n, clean)
<1>1. Queue!Granted(n) = Granted(n) /\ Queue!Status(n) = Status(n) /\ Granted(n) \in 0 .. Used
  BY GrantedSame
<1>2. PICK before \in Bytes :
         result' = Answer("tail", Status(n), TailOut(Granted(n), before))
  BY DEF ReadTail
<1>3. TailOut(Granted(n), before) \in [1 .. Granted(n) -> Bytes]
  BY <1>1, TailType
<1>4. \E dat \in [1 .. Queue!Granted(n) -> Bytes] :
         result' = Queue!Answer("tail", Queue!Status(n), dat)
  BY <1>1, <1>2, <1>3 DEF Queue!Answer, Answer
<1>5. CASE clean /\ Used > 0
  <2>1. Content' = <<>>
    BY <1>5, ClearedContent DEF ReadTail
  <2> QED
    BY <2>1, <1>4, <1>5 DEF Queue!ReadTail
<1>6. CASE ~(clean /\ Used > 0)
  <2>1. UNCHANGED <<buffer, head, end, size>>
    BY <1>6 DEF ReadTail
  <2>2. Content' = Content
    BY <2>1 DEF Content, CopyOut, Used, Offset
  <2>3. clean => Used = 0
    BY <1>6, ContentType
  <2>4. clean => Content = <<>>
    BY <2>3, EmptyContent
  <2> QED
    BY <2>2, <2>4, <1>4 DEF Queue!ReadTail
<1> QED
  BY <1>5, <1>6

LEMMA InitStep == FifoInit => Queue!Init
<1> SUFFICES ASSUME FifoInit PROVE Queue!Init
  OBVIOUS
<1>1. Inv
  BY InvInit
<1>2. Used = 0
  BY DEF FifoInit, Used
<1> QED
  BY <1>1, <1>2, EmptyContent DEF FifoInit, Queue!Init, Queue!Answer, Answer

LEMMA NextStep ==
    ASSUME Inv, Inv', [FifoNext]_fifoVars
    PROVE  [Queue!Next]_<<Content, result>>
<1>1. ASSUME NEW dat \in Messages, Write(dat) PROVE Queue!Next
  <2>1. dat \in Queue!Messages
    BY <1>1 DEF Messages, Queue!Messages
  <2> QED
    BY <1>1, <2>1, WriteStep DEF Queue!Next
<1>2. ASSUME NEW n \in Lengths, NEW clean \in BOOLEAN, Read(n, clean) PROVE Queue!Next
  <2>1. n \in Queue!Lengths
    BY DEF Lengths, Queue!Lengths
  <2> QED
    BY <1>2, <2>1, ReadStep DEF Queue!Next
<1>3. ASSUME NEW n \in Lengths, NEW clean \in BOOLEAN, ReadTail(n, clean) PROVE Queue!Next
  <2>1. n \in Queue!Lengths
    BY DEF Lengths, Queue!Lengths
  <2> QED
    BY <1>3, <2>1, ReadTailStep DEF Queue!Next
<1>4. CASE Clear
  BY <1>4, ClearStep DEF Queue!Next
<1>5. CASE UNCHANGED fifoVars
  BY <1>5 DEF fifoVars, Content, CopyOut, Used, Offset
<1> QED
  BY <1>1, <1>2, <1>3, <1>4, <1>5 DEF FifoNext

(* The ring implements the queue: every byte written comes out once and in *)
(* order, a message is taken whole or not at all, whatever the capacity    *)
(* (zf_common_fifo.c:47-101, 168-272, 345-526).                            *)
THEOREM FifoImplementsQueue == FifoSpec => ImplementsQueue
<1>1. FifoSpec => []Inv
  BY FifoInv
<1>2. FifoInit => Queue!Init
  BY InitStep
<1>3. Inv /\ Inv' /\ [FifoNext]_fifoVars => [Queue!Next]_<<Content, result>>
  BY NextStep
<1> QED
  BY <1>1, <1>2, <1>3, PTL DEF FifoSpec, ImplementsQueue, Queue!Spec
=============================================================================
