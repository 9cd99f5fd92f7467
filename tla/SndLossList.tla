----------------------------- MODULE SndLossList -----------------------------
(***************************************************************************)
(* CSndLossList (list.cpp): the sender's lost packets, as ranges in a      *)
(* static array.  The range that starts at seq is the node at distance     *)
(* seqoff(first, seq) from the head, modulo the size; data1 is its first   *)
(* and data2 its last number (Nil for a range of one); next links the      *)
(* nodes in order.                                                         *)
(*                                                                         *)
(* A list is a value; the operators take one and return the next.  The     *)
(* code never initialises the links of empty slots and leaves them stale;  *)
(* here they are Nil, and following one would break the list at once.      *)
(***************************************************************************)
EXTENDS SeqNo

CONSTANT SndListSize

SndSlots == 0 .. SndListSize - 1

SndLists ==
    [data1 : [SndSlots -> SeqNos \cup {Nil}], data2 : [SndSlots -> SeqNos \cup {Nil}],
     next : [SndSlots -> SndSlots \cup {Nil}], head : SndSlots \cup {Nil},
     length : Int, lastInsertPos : SndSlots \cup {Nil}]

NewSndList ==
    [data1 |-> [i \in SndSlots |-> Nil], data2 |-> [i \in SndSlots |-> Nil],
     next |-> [i \in SndSlots |-> Nil], head |-> Nil, length |-> 0,
     lastInsertPos |-> Nil]

\* Where the node of seq is, or would be.
SlotOf(l, seq) ==
    (l.head + SeqOff(l.data1[l.head], seq) + SndListSize) % SndListSize

SetNode(l, loc, seq1, seq2) ==
    [l EXCEPT !.data1[loc] = seq1,
              !.data2[loc] = IF seq2 # seq1 THEN seq2 ELSE @]

\* The last node from i on that starts before seq.
PriorNode(l, i, seq) ==
    LET last[j \in SndSlots] ==
            IF l.next[j] # Nil /\ SeqCmp(l.data1[l.next[j]], seq) < 0
              THEN last[l.next[j]] ELSE j
    IN last[i]

LastOf(l, i) == IF l.data2[i] = Nil THEN l.data1[i] ELSE l.data2[i]

\* How many numbers of node i are already in the range that ends at end.
CommonIgnoringTail(l, i, end) ==
    IF SeqCmp(LastOf(l, i), end) <= 0 THEN SeqLen(l.data1[i], LastOf(l, i)) ELSE 0
Common(l, i, end) ==
    IF SeqCmp(LastOf(l, i), end) <= 0 THEN SeqLen(l.data1[i], LastOf(l, i))
    ELSE IF SeqCmp(end, l.data1[i]) >= 0 THEN SeqLen(l.data1[i], end)
    ELSE 0

\* The node after loc, if its range touches or overlaps that of loc.
Touches(l, loc) ==
    /\ l.next[loc] # Nil /\ l.data2[loc] # Nil
    /\ SeqCmp(l.data1[l.next[loc]], IncSeq(l.data2[loc])) <= 0

\* It becomes part of the range of loc.
Merge(l, loc) ==
    LET i == l.next[loc]
        end == l.data2[loc]
    IN [l EXCEPT !.length = @ - Common(l, i, end),
                 !.data2 = [@ EXCEPT ![loc] = IF SeqCmp(LastOf(l, i), end) > 0
                                                THEN LastOf(l, i) ELSE end,
                                     ![i] = Nil],
                 !.data1[i] = Nil,
                 !.next = [@ EXCEPT ![loc] = l.next[i], ![i] = Nil]]

\* Merge the nodes after loc that its range touches or overlaps.
Coalesce(l, loc) ==
    LET merged[k \in SndLists] ==
            IF Touches(k, loc) THEN merged[Merge(k, loc)] ELSE k
    IN merged[l]

\* The node at loc reaches up to seq2 from now on, if it does not already.
Extend(l, loc, seq2) ==
    LET at == [l EXCEPT !.lastInsertPos = loc] IN
    IF SeqCmp(seq2, LastOf(l, loc)) > 0
      THEN Coalesce([at EXCEPT !.length = @ + SeqLen(LastOf(l, loc), seq2) - 1,
                               !.data2[loc] = seq2], loc)
      ELSE at

\* Where the search for the place of seq1 starts.
FirstCandidate(l, seq1) ==
    IF l.lastInsertPos # Nil /\ SeqCmp(l.data1[l.lastInsertPos], seq1) < 0
      THEN l.lastInsertPos ELSE l.head

\* insert(seqno1, seqno2)
SndInsert(l, seq1, seq2) ==
    LET loc == IF l.length = 0 THEN 0 ELSE SlotOf(l, seq1)
        new == [SetNode(l, loc, seq1, seq2) EXCEPT
                   !.length = @ + SeqLen(seq1, seq2), !.lastInsertPos = loc]
        i == PriorNode(l, FirstCandidate(l, seq1), seq1)
    IN IF l.length = 0
         THEN [new EXCEPT !.head = loc, !.next[loc] = Nil]
       ELSE IF SeqOff(l.data1[l.head], seq1) < 0
         THEN Coalesce([new EXCEPT !.next[loc] = l.head, !.head = loc], loc)
       ELSE IF seq1 = l.data1[loc]
         THEN Extend(l, loc, seq2)
       ELSE IF l.data2[i] = Nil \/ SeqCmp(l.data2[i], seq1) < 0
         THEN Coalesce([new EXCEPT !.next[loc] = l.next[i], !.next[i] = loc], loc)
       ELSE Extend(l, i, seq2)

\* The first number leaves the list.
DropFirst(l) ==
    LET h == l.head
        loc == (h + 1) % SndListSize
        seq == IncSeq(l.data1[h])
        rest == IF l.data2[h] = Nil
                  THEN [l EXCEPT !.head = l.next[h]]
                  ELSE [l EXCEPT !.data1[loc] = seq,
                                 !.data2[loc] = IF SeqCmp(l.data2[h], seq) > 0
                                                  THEN l.data2[h] ELSE @,
                                 !.next[loc] = l.next[h],
                                 !.head = loc]
    IN [rest EXCEPT !.data1[h] = Nil, !.data2[h] = Nil, !.next[h] = Nil,
                    !.length = @ - 1,
                    !.lastInsertPos = IF @ = h THEN Nil ELSE @]

\* getLostSeq() returns SndFirst and leaves DropFirst.
SndFirst(l) == l.data1[l.head]

\* Node h leaves the list.
DropNode(l, h) ==
    [l EXCEPT !.length = @ - SeqLen(l.data1[h], LastOf(l, h)),
              !.data1[h] = Nil, !.data2[h] = Nil, !.next[h] = Nil,
              !.lastInsertPos = IF @ = h THEN Nil ELSE @]

\* The nodes from h up to the new head leave the list.
DropBeforeHead(l, h) ==
    LET rest[k \in [list : SndLists, h : SndSlots \cup {Nil}]] ==
            IF k.h \in {k.list.head, Nil} THEN k
            ELSE rest[[list |-> DropNode(k.list, k.h), h |-> k.list.next[k.h]]]
    IN rest[[list |-> l, h |-> h]].list

\* The head moves behind seq, which is in the range of node i or after it.
HeadAfter(l, i, seq) ==
    LET loc == (SlotOf(l, seq) + 1) % SndListSize
        from == IncSeq(seq)
    IN IF l.data2[i] = Nil \/ SeqCmp(l.data2[i], seq) <= 0
         THEN [l EXCEPT !.head = l.next[i]]
         ELSE [l EXCEPT !.data1[loc] = from,
                        !.data2[loc] = IF SeqCmp(l.data2[i], from) > 0
                                         THEN l.data2[i] ELSE @,
                        !.data2[i] = IF seq = l.data1[i] THEN Nil ELSE seq,
                        !.next[loc] = l.next[i], !.next[i] = loc,
                        !.head = loc]

\* remove(seqno): everything up to and including seqno leaves the list.
SndRemove(l, seq) ==
    IF l.length = 0 \/ SeqOff(l.data1[l.head], seq) < 0 THEN l
    ELSE IF seq = l.data1[l.head] THEN DropFirst(l)
    ELSE LET loc == SlotOf(l, seq)
             i == IF seq = l.data1[loc] THEN loc ELSE PriorNode(l, l.head, seq)
         IN DropBeforeHead(HeadAfter(l, i, seq), l.head)

\* The ranges from the head on.
SndRanges(l) ==
    LET RangeOf(i) == <<l.data1[i], LastOf(l, i)>>
        walk[k \in [at : SndSlots \cup {Nil}, seen : SUBSET {RangeOf(i) : i \in SndSlots}]] ==
            IF k.at = Nil THEN k
            ELSE walk[[at |-> l.next[k.at], seen |-> k.seen \cup {RangeOf(k.at)}]]
    IN walk[[at |-> l.head, seen |-> {}]].seen
=============================================================================
