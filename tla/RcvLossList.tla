----------------------------- MODULE RcvLossList -----------------------------
(***************************************************************************)
(* CRcvLossList (list.cpp): the receiver's missing packets, kept as        *)
(* CSndLossList keeps them but with links in both directions.  New losses  *)
(* come after all others; any packet may be removed.  The links of empty   *)
(* slots are Nil, as there.                                                *)
(***************************************************************************)
EXTENDS SeqNo, Sequences

CONSTANT RcvListSize

RcvSlots == 0 .. RcvListSize - 1

NewRcvList ==
    [data1 |-> [i \in RcvSlots |-> Nil], data2 |-> [i \in RcvSlots |-> Nil],
     next |-> [i \in RcvSlots |-> Nil], prior |-> [i \in RcvSlots |-> Nil],
     head |-> Nil, tail |-> Nil, length |-> 0]

\* seq1 continues the last range (of more than one number).
JoinsTailAnyway(l, seq1) == l.data2[l.tail] # Nil
JoinsTail(l, seq1) ==
    l.data2[l.tail] # Nil /\ IncSeq(l.data2[l.tail]) = seq1

\* seq1 .. seq2 become a node at loc, the last one.
PutLast(l, loc, seq1, seq2) ==
    [l EXCEPT !.data1[loc] = seq1, !.data2[loc] = IF seq2 # seq1 THEN seq2 ELSE @,
              !.next[loc] = Nil, !.tail = loc, !.length = @ + SeqLen(seq1, seq2)]

\* insert(seqno1, seqno2), both after all numbers in the list
RcvInsert(l, seq1, seq2) ==
    LET loc == (l.head + SeqOff(l.data1[l.head], seq1)) % RcvListSize
    IN IF l.length = 0
         THEN [PutLast(l, 0, seq1, seq2) EXCEPT !.head = 0, !.prior[0] = Nil]
       ELSE IF JoinsTail(l, seq1)
         THEN [l EXCEPT !.data2[l.tail] = seq2, !.length = @ + SeqLen(seq1, seq2)]
       ELSE [PutLast(l, loc, seq1, seq2) EXCEPT !.next[l.tail] = loc, !.prior[loc] = l.tail]

\* A range of one leaves the list.
Unlink(l, loc) ==
    LET next == l.next[loc]
        prior == l.prior[loc]
        gone == [l EXCEPT !.data1[loc] = Nil, !.next[loc] = Nil,
                          !.prior[loc] = Nil]
    IN IF loc = l.head
         THEN [gone EXCEPT !.head = next,
                           !.prior = IF next # Nil THEN [@ EXCEPT ![next] = Nil]
                                                   ELSE @]
         ELSE [gone EXCEPT !.next[prior] = next,
                           !.prior = IF next # Nil THEN [@ EXCEPT ![next] = prior]
                                                   ELSE @,
                           !.tail = IF next = Nil THEN prior ELSE @]

\* The links of the node at loc, and those that lead to it, move to slot i.
MoveLinks(l, loc, i) ==
    LET moved == [l EXCEPT !.next[i] = l.next[loc], !.prior[i] = l.prior[loc],
                           !.next[loc] = Nil, !.prior[loc] = Nil]
    IN [moved EXCEPT
           !.next = IF loc # l.head THEN [@ EXCEPT ![l.prior[loc]] = i] ELSE @,
           !.prior = IF loc # l.tail THEN [@ EXCEPT ![l.next[loc]] = i] ELSE @,
           !.head = IF @ = loc THEN i ELSE @,
           !.tail = IF @ = loc THEN i ELSE @]

\* The first number of a longer range leaves the list: its node moves on.
Advance(l, loc) ==
    LET i == (loc + 1) % RcvListSize
        seq == IncSeq(l.data1[loc])
    IN [MoveLinks(l, loc, i) EXCEPT
           !.data1[i] = seq, !.data1[loc] = Nil,
           !.data2[i] = IF SeqCmp(l.data2[loc], seq) > 0 THEN l.data2[loc] ELSE @,
           !.data2[loc] = Nil]

\* The nearest node in the slots before loc.
NodeBefore(l, loc) ==
    LET Before(i) == (i - 1 + RcvListSize) % RcvListSize
        node[i \in RcvSlots] == IF l.data1[i] = Nil THEN node[Before(i)] ELSE i
    IN node[Before(loc)]

\* The numbers of node i from seq on become a node at slot new, after it.
Part(l, i, new, seq) ==
    [l EXCEPT !.data1[new] = seq,
              !.data2[new] = IF SeqCmp(l.data2[i], seq) > 0 THEN l.data2[i] ELSE @,
              !.next[new] = l.next[i], !.next[i] = new,
              !.prior = IF l.tail = i THEN [@ EXCEPT ![new] = i]
                                      ELSE [@ EXCEPT ![new] = i, ![l.next[i]] = new],
              !.tail = IF @ = i THEN new ELSE @]

\* Node i ends before seq.
EndBefore(l, i, seq) ==
    [l EXCEPT !.data2[i] = IF seq = IncSeq(l.data1[i]) THEN Nil ELSE DecSeq(seq)]

\* seq leaves the range of node i from the end or from within.
Cut(l, i, loc, seq) ==
    IF seq = l.data2[i] THEN EndBefore(l, i, seq)
    ELSE EndBefore(Part(l, i, (loc + 1) % RcvListSize, IncSeq(seq)), i, seq)

\* remove(seqno)
RcvRemove(l, seq) ==
    IF l.length = 0 \/ SeqOff(l.data1[l.head], seq) < 0 THEN l
    ELSE LET loc == (l.head + SeqOff(l.data1[l.head], seq)) % RcvListSize
             shorter == [l EXCEPT !.length = @ - 1]
             i == NodeBefore(l, loc)
         IN IF seq = l.data1[loc]
              THEN IF l.data2[loc] = Nil THEN Unlink(shorter, loc)
                                         ELSE Advance(shorter, loc)
            ELSE IF l.data2[i] = Nil \/ SeqCmp(seq, l.data2[i]) > 0 THEN l
            ELSE Cut(shorter, i, loc, seq)

Ascending(from, to) == [k \in 1 .. to - from + 1 |-> from + k - 1]

\* The numbers the loops of remove(seqno1, seqno2) run over, in order.
RangeLoop(seq1, seq2) ==
    IF seq1 <= seq2 THEN Ascending(seq1, seq2)
    ELSE Ascending(seq1, MaxSeqNo - 1) \o Ascending(0, seq2)

\* remove(seqno1, seqno2)
RcvRemoveRange(l, seq1, seq2) ==
    LET loop == RangeLoop(seq1, seq2)
        after[k \in 0 .. Len(loop)] ==
            IF k = 0 THEN l ELSE RcvRemove(after[k - 1], loop[k])
    IN after[Len(loop)]

\* getFirstLostSeq()
RcvFirst(l) == IF l.length = 0 THEN Nil ELSE l.data1[l.head]

\* The ranges from the head on.
RcvRanges(l) ==
    LET RangeOf(i) == <<l.data1[i], IF l.data2[i] = Nil THEN l.data1[i] ELSE l.data2[i]>>
        walk[k \in [at : RcvSlots \cup {Nil}, seen : SUBSET {RangeOf(i) : i \in RcvSlots}]] ==
            IF k.at = Nil THEN k
            ELSE walk[[at |-> l.next[k.at], seen |-> k.seen \cup {RangeOf(k.at)}]]
    IN walk[[at |-> l.head, seen |-> {}]].seen
=============================================================================
