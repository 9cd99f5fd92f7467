-------------------------------- MODULE SeqNo --------------------------------
(***************************************************************************)
(* CSeqNo (common.h): packet sequence numbers 0 .. m_iMaxSeqNo that wrap,  *)
(* and their comparison, which is meaningful only for numbers less than    *)
(* m_iSeqNoTH apart.  CMsgNo is the same arithmetic on message numbers.    *)
(* Modules UdtTransfer_proofs and LossLists_proofs show that it is         *)
(* arithmetic on positions.                                                *)
(***************************************************************************)
EXTENDS Integers

CONSTANTS MaxSeqNo, SeqNoTH

\* 0x7FFFFFFF and 0x3FFFFFFF in the code.
ASSUME SeqNoAssumption ==
    /\ MaxSeqNo \in Nat
    /\ SeqNoTH \in Nat \ {0}
    /\ 2 * SeqNoTH <= MaxSeqNo + 1

SeqNos == 0 .. MaxSeqNo

\* -1, where there is no number, or no slot of a list.
Nil == -1

Distance(a, b) == IF a < b THEN b - a ELSE a - b

\* Negative, zero or positive as seq1 is before, equal to or after seq2.
SeqCmp(seq1, seq2) ==
    IF Distance(seq1, seq2) < SeqNoTH THEN seq1 - seq2 ELSE seq2 - seq1

\* How many numbers seq1 .. seq2 are.
SeqLen(seq1, seq2) ==
    IF seq1 <= seq2 THEN seq2 - seq1 + 1 ELSE seq2 - seq1 + MaxSeqNo + 2

\* How far seq2 is after seq1.
SeqOff(seq1, seq2) ==
    IF Distance(seq1, seq2) < SeqNoTH THEN seq2 - seq1
    ELSE IF seq1 < seq2 THEN seq2 - seq1 - MaxSeqNo - 1
    ELSE seq2 - seq1 + MaxSeqNo + 1

IncSeq(seq) == IF seq = MaxSeqNo THEN 0 ELSE seq + 1

DecSeq(seq) == IF seq = 0 THEN MaxSeqNo ELSE seq - 1

IncSeqBy(seq, inc) ==
    IF MaxSeqNo - seq >= inc THEN seq + inc ELSE seq - MaxSeqNo + inc - 1
=============================================================================
