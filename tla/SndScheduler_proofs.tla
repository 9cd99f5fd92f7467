------------------------- MODULE SndScheduler_proofs -------------------------
(***************************************************************************)
(* The heap of CSndUList holds each socket at most once, and knows where;  *)
(* and no socket with a packet to send is forgotten.  For any number of    *)
(* sockets, threads and calls.                                             *)
(***************************************************************************)
EXTENDS SndScheduler, SequenceTheorems, FiniteSetTheorems, TLAPS

\* The places of the sockets on the heap at every turn of the loops: while a
\* socket rises its own m_iHeapLoc is not yet set; while the heap closes over a
\* hole, that of the socket taken off is not yet reset.
Places ==
    /\ \A i \in 1 .. Last : loc[heap[i]] = i \/ (op.pc = "up" /\ i = op.at)
    /\ \A s \in Sock :
          loc[s] > 0 /\ ~(op.pc = "down" /\ s = op.sock) =>
              loc[s] <= Last /\ heap[loc[s]] = s
    /\ op.pc = "up" =>
          op.at \in 1 .. Last /\ heap[op.at] = op.sock /\ loc[op.sock] = 0
    /\ op.pc = "down" =>
          /\ op.at \in 1 .. Last + 1 /\ loc[op.sock] > 0
          /\ \A i \in 1 .. Last : heap[i] # op.sock
    /\ op.pc \in {"insert", "pack"} => loc[op.sock] = 0

\* A socket that is off the heap for good was taken off by close().
TakenOff == op.pc = "down" /\ op.then = "free" => op.sock \in closing

SchedulerInv == TypeOK /\ Places /\ TakenOff /\ NobodyStranded
-----------------------------------------------------------------------------
\* insert_() leaves the heap one longer, with the new socket about to rise.
LEMMA InsertStep ==
    ASSUME TypeOK, Places, NEW u \in Sock, NEW t \in Int,
           op.pc \in {"free", "insert", "pack"}, loc[u] = 0,
           StartInsert(u, t)
    PROVE  TypeOK' /\ Places'
<1> DEFINE n == Len(heap)
<1>1. heap \in Seq(Sock) /\ n \in Nat
  BY LenProperties DEF TypeOK
<1>2. /\ heap' \in Seq(Sock) /\ Len(heap') = n + 1
      /\ \A i \in 1 .. n : heap'[i] = heap[i]
      /\ heap'[n + 1] = u
  BY <1>1, AppendProperties DEF StartInsert
<1>3. op' = [pc |-> "up", sock |-> u, at |-> n + 1, then |-> "free"] /\ loc' = loc
  BY DEF StartInsert, Last
<1>4. TypeOK'
  BY <1>1, <1>2, <1>3 DEF TypeOK, StartInsert
<1>5. \A i \in 1 .. n : loc[heap[i]] = i
  BY DEF Places, Last
<1>6. \A i \in 1 .. n + 1 : loc'[heap'[i]] = i \/ i = n + 1
  BY <1>1, <1>2, <1>3, <1>5
<1>7. ASSUME NEW s \in Sock, loc[s] > 0
      PROVE  loc[s] <= n + 1 /\ heap'[loc[s]] = s
  <2>1. loc[s] \in 1 .. n /\ heap[loc[s]] = s
    BY <1>7 DEF Places, Last, TypeOK
  <2> QED
    BY <1>1, <1>2, <2>1
<1>8. Places'
  BY <1>1, <1>2, <1>3, <1>6, <1>7 DEF Places, Last
<1> QED
  BY <1>4, <1>8

\* remove_() puts the last entry into the hole.
LEMMA RemoveStep ==
    ASSUME TypeOK, Places, NEW u \in Sock, NEW then \in {"free", "insert", "pack"},
           op.pc \in {"free", "insert", "pack"}, loc[u] > 0,
           StartRemove(u, then)
    PROVE  TypeOK' /\ Places'
<1> DEFINE n == Len(heap)
           moved == [heap EXCEPT ![loc[u]] = heap[n]]
<1>1. heap \in Seq(Sock) /\ n \in Nat
  BY LenProperties DEF TypeOK
<1>2. loc[u] \in 1 .. n /\ heap[loc[u]] = u
  BY DEF TypeOK, Places, Last
<1>3. n \in 1 .. n /\ heap[n] \in Sock
  BY <1>1, <1>2, ElementOfSeq
<1>4. moved \in Seq(Sock) /\ Len(moved) = n
      /\ \A i \in 1 .. n : moved[i] = IF i = loc[u] THEN heap[n] ELSE heap[i]
  BY <1>1, <1>2, <1>3, ExceptSeq
<1>5. heap' = SubSeq(moved, 1, n - 1)
  BY DEF StartRemove, Last
<1>6. /\ heap' \in Seq(Sock) /\ Len(heap') = n - 1
      /\ \A i \in 1 .. n - 1 : heap'[i] = IF i = loc[u] THEN heap[n] ELSE heap[i]
  BY <1>1, <1>3, <1>4, <1>5, SubSeqProperties
<1>7. op' = [pc |-> "down", sock |-> u, at |-> loc[u], then |-> then]
  BY DEF StartRemove
<1>8. /\ loc' \in [Sock -> Nat] /\ loc'[u] > 0
      /\ \A s \in Sock : loc'[s] = IF s = heap[n] THEN loc[u] ELSE loc[s]
  BY <1>2, <1>3 DEF StartRemove, TypeOK, Last
<1>9. ts' \in [Sock -> Int]
  BY SchedulerAssumption, FS_CardinalityType DEF StartRemove, TypeOK, AtOnce
<1>10. TypeOK'
  BY <1>6, <1>7, <1>8, <1>9, <1>2 DEF TypeOK
<1>11. \A i \in 1 .. n : loc[heap[i]] = i
  BY DEF Places, Last
<1>12. \A i \in 1 .. n - 1 : heap'[i] # u /\ loc'[heap'[i]] = i
  <2> SUFFICES ASSUME NEW i \in 1 .. n - 1 PROVE heap'[i] # u /\ loc'[heap'[i]] = i
    OBVIOUS
  <2>1. heap[i] \in Sock
    BY <1>1, ElementOfSeq
  <2>2. CASE i = loc[u]
    <3>1. heap'[i] = heap[n]
      BY <1>6, <2>2
    <3>2. loc[heap[n]] = n
      BY <1>3, <1>11
    <3> QED
      BY <2>2, <3>1, <3>2, <1>3, <1>8, <1>1
  <2>3. CASE i # loc[u]
    <3>1. heap'[i] = heap[i] /\ loc[heap[i]] = i
      BY <1>6, <2>3, <1>11, <1>1
    <3>2. heap[i] # heap[n]
      BY <3>1, <1>3, <1>11, <1>1
    <3> QED
      BY <2>1, <2>3, <3>1, <3>2, <1>8
  <2> QED
    BY <2>2, <2>3
<1>13. ASSUME NEW s \in Sock, loc'[s] > 0, s # u
       PROVE  loc'[s] <= n - 1 /\ heap'[loc'[s]] = s
  <2>1. loc[heap[n]] = n /\ (s = heap[n] => loc[u] # n)
    BY <1>3, <1>11, <1>13, <1>2
  <2>2. CASE s = heap[n]
    <3>1. loc'[s] = loc[u] /\ loc[u] \in 1 .. n - 1
      BY <2>1, <2>2, <1>1, <1>2, <1>8
    <3>2. heap'[loc[u]] = heap[n]
      BY <3>1, <1>6
    <3> QED
      BY <3>1, <3>2, <2>2, <1>1
  <2>3. CASE s # heap[n]
    <3>1. loc[s] \in 1 .. n /\ heap[loc[s]] = s
      BY <1>13, <1>8, <2>3 DEF Places, Last, TypeOK
    <3>2. loc[s] # n /\ loc[s] # loc[u]
      BY <3>1, <2>3, <1>2, <1>13
    <3>3. loc'[s] = loc[s]
      BY <2>3, <1>8
    <3>4. loc[s] \in 1 .. n - 1
      BY <3>1, <3>2, <1>1
    <3>5. heap'[loc[s]] = heap[loc[s]]
      BY <3>2, <3>4, <1>6
    <3> QED
      BY <3>1, <3>3, <3>4, <3>5, <1>1
  <2> QED
    BY <2>2, <2>3
<1>14. Places'
  BY <1>1, <1>2, <1>3, <1>6, <1>7, <1>8, <1>12, <1>13 DEF Places, Last
<1> QED
  BY <1>10, <1>14
-----------------------------------------------------------------------------
\* The steps of the loops.
LEMMA RiseStep ==
    ASSUME TypeOK, Places, Rise
    PROVE  TypeOK' /\ Places'
<1> DEFINE n == Len(heap)
           q == op.at
           p == op.at \div 2
<1>1. heap \in Seq(Sock) /\ n \in Nat /\ op.sock \in Sock
  BY LenProperties DEF TypeOK, Rise
<1>2. q \in 1 .. n /\ heap[q] = op.sock /\ loc[op.sock] = 0 /\ p \in 1 .. n /\ p < q
  BY <1>1 DEF Rise, Places, Last, TypeOK
<1>3. heap[p] \in Sock /\ heap[q] \in Sock
  BY <1>1, <1>2, ElementOfSeq
<1>4. heap' = [heap EXCEPT ![p] = heap[q], ![q] = heap[p]]
  BY DEF Rise, Swap
<1>5. /\ heap' \in Seq(Sock) /\ Len(heap') = n
      /\ \A i \in 1 .. n : heap'[i] = IF i = p THEN heap[q] ELSE IF i = q THEN heap[p] ELSE heap[i]
  BY <1>1, <1>2, <1>3, <1>4
<1>6. op' = [op EXCEPT !.at = p] /\ op.pc = "up"
  BY DEF Rise
<1>7. \A s \in Sock : loc'[s] = IF s = heap[p] THEN q ELSE loc[s]
  BY <1>3 DEF Rise, TypeOK
<1>8. TypeOK'
  <2>1. loc' \in [Sock -> Nat] /\ ts' \in [Sock -> Int]
    BY <1>1, <1>2, <1>3 DEF Rise, TypeOK
  <2>2. p \in Nat
    BY <1>1, <1>2
  <2>3. op' \in [pc : {"free", "up", "down", "insert", "pack"}, sock : Sock \cup {NoSock},
                 at : Nat, then : {"free", "insert", "pack"}]
    BY <2>2, <1>6 DEF TypeOK
  <2> QED
    BY <2>1, <2>3, <1>1, <1>5, <1>6 DEF TypeOK
<1>9. \A i \in 1 .. n : i # q => loc[heap[i]] = i
  BY <1>6 DEF Places, Last
<1>10. \A i \in 1 .. n : i # p => loc'[heap'[i]] = i
  <2> SUFFICES ASSUME NEW i \in 1 .. n, i # p PROVE loc'[heap'[i]] = i
    OBVIOUS
  <2>1. CASE i = q
    BY <2>1, <1>2, <1>3, <1>5, <1>7
  <2>2. CASE i # q
    <3>1. heap'[i] = heap[i] /\ heap[i] \in Sock /\ loc[heap[i]] = i /\ loc[heap[p]] = p
      BY <2>2, <1>1, <1>2, <1>5, <1>9, ElementOfSeq
    <3> QED
      BY <3>1, <1>7
  <2> QED
    BY <2>1, <2>2
<1>11. ASSUME NEW s \in Sock, loc'[s] > 0
       PROVE  loc'[s] <= n /\ heap'[loc'[s]] = s
  <2>1. CASE s = heap[p]
    BY <2>1, <1>2, <1>5, <1>7
  <2>2. CASE s # heap[p]
    <3>1. loc'[s] = loc[s] /\ loc[s] \in 1 .. n /\ heap[loc[s]] = s
      BY <2>2, <1>6, <1>7, <1>11 DEF Places, Last, TypeOK
    <3>2. loc[s] # p /\ loc[s] # q
      BY <3>1, <2>2, <1>2, <1>11
    <3> QED
      BY <3>1, <3>2, <1>5
  <2> QED
    BY <2>1, <2>2
<1>12. loc'[op.sock] = 0 /\ heap'[p] = op.sock
  <2>1. loc[heap[p]] = p
    BY <1>2, <1>9
  <2> QED
    BY <2>1, <1>1, <1>2, <1>5, <1>7
<1>13. /\ op'.pc = "up" /\ op'.at = p /\ op'.sock = op.sock
  BY <1>6 DEF TypeOK
<1>14. Places'
  BY <1>2, <1>5, <1>10, <1>11, <1>12, <1>13 DEF Places, Last
<1> QED
  BY <1>8, <1>14

LEMMA SinkStep ==
    ASSUME TypeOK, Places, Sink
    PROVE  TypeOK' /\ Places'
<1> DEFINE n == Len(heap)
           q == op.at
           p == Below(op.at)
<1>1. heap \in Seq(Sock) /\ n \in Nat /\ op.sock \in Sock /\ op.pc = "down"
  BY LenProperties DEF TypeOK, Sink
<1>2. q \in 1 .. n /\ p \in 1 .. n /\ q < p
  <2>1. q \in 1 .. n + 1 /\ 2 * q <= n
    BY <1>1 DEF Sink, Sinks, Places, Last
  <2>2. p = 2 * q \/ (p = 2 * q + 1 /\ 2 * q + 1 <= n)
    BY DEF Below, Last
  <2> QED
    BY <1>1, <2>1, <2>2
<1>3. heap[p] \in Sock /\ heap[q] \in Sock
  BY <1>1, <1>2, ElementOfSeq
<1>4. heap' = [heap EXCEPT ![q] = heap[p], ![p] = heap[q]]
  BY DEF Sink, Swap
<1>5. /\ heap' \in Seq(Sock) /\ Len(heap') = n
      /\ \A i \in 1 .. n : heap'[i] = IF i = p THEN heap[q] ELSE IF i = q THEN heap[p] ELSE heap[i]
  BY <1>1, <1>2, <1>3, <1>4
<1>6. op' = [op EXCEPT !.at = p]
  BY DEF Sink
<1>7. op'.pc = "down" /\ op'.at = p /\ op'.sock = op.sock
  BY <1>1, <1>6 DEF TypeOK
<1>8. \A i \in 1 .. n : heap[i] \in Sock /\ loc[heap[i]] = i /\ heap[i] # op.sock
  BY <1>1, ElementOfSeq DEF Places, Last
<1>9. \A s \in Sock : loc'[s] = IF s = heap[p] THEN q ELSE IF s = heap[q] THEN p ELSE loc[s]
  BY <1>3 DEF Sink, TypeOK
<1>10. TypeOK'
  <2>1. loc' = [loc EXCEPT ![heap[q]] = p, ![heap[p]] = q] /\ ts' = ts
    BY DEF Sink
  <2>4. p \in Nat /\ q \in Nat
    BY <1>1, <1>2
  <2> HIDE DEF p, q
  <2>2. loc' \in [Sock -> Nat] /\ ts' \in [Sock -> Int]
    BY <2>1, <2>4, <1>3 DEF TypeOK
  <2>3. op' \in [pc : {"free", "up", "down", "insert", "pack"}, sock : Sock \cup {NoSock},
                 at : Nat, then : {"free", "insert", "pack"}]
    BY <2>4, <1>6 DEF TypeOK
  <2> QED
    BY <2>2, <2>3, <1>1, <1>5, <1>7 DEF TypeOK
<1>11. \A i \in 1 .. n : loc'[heap'[i]] = i /\ heap'[i] # op.sock
  <2> SUFFICES ASSUME NEW i \in 1 .. n PROVE loc'[heap'[i]] = i /\ heap'[i] # op.sock
    OBVIOUS
  <2>1. CASE i = p
    BY <2>1, <1>2, <1>5, <1>8, <1>9
  <2>2. CASE i = q
    BY <2>2, <1>2, <1>5, <1>8, <1>9
  <2>3. CASE i # p /\ i # q
    BY <2>3, <1>2, <1>5, <1>8, <1>9
  <2> QED
    BY <2>1, <2>2, <2>3
<1>12. ASSUME NEW s \in Sock, loc'[s] > 0, s # op.sock
       PROVE  loc'[s] <= n /\ heap'[loc'[s]] = s
  <2>1. CASE s = heap[p]
    BY <2>1, <1>2, <1>5, <1>9
  <2>2. CASE s = heap[q]
    BY <2>2, <1>2, <1>5, <1>8, <1>9
  <2>3. CASE s # heap[p] /\ s # heap[q]
    <3>1. loc'[s] = loc[s] /\ loc[s] \in 1 .. n /\ heap[loc[s]] = s
      BY <2>3, <1>1, <1>9, <1>12 DEF Places, Last, TypeOK
    <3>2. loc[s] # p /\ loc[s] # q
      BY <3>1, <2>3
    <3> QED
      BY <3>1, <3>2, <1>5
  <2> QED
    BY <2>1, <2>2, <2>3
<1>13. loc'[op.sock] > 0
  BY <1>1, <1>2, <1>8, <1>9 DEF Places
<1>14. Places'
  BY <1>1, <1>2, <1>5, <1>7, <1>11, <1>12, <1>13 DEF Places, Last
<1> QED
  BY <1>10, <1>14
-----------------------------------------------------------------------------
\* A time stays a time when the clock ticks.
LEMMA SoonerType == \A t \in Int : Sooner(t) \in Int
<1> SUFFICES ASSUME NEW t \in Int PROVE Sooner(t) \in Int
  OBVIOUS
<1> DEFINE T == {ts[heap[i]] : i \in 1 .. Last} \cap (t .. 0)
<1>1. T \in SUBSET (t .. 0) /\ IsFiniteSet(t .. 0)
  BY FS_Interval
<1>2. Cardinality(T) \in Nat
  BY <1>1, FS_Subset, FS_CardinalityType
<1> HIDE DEF T
<1>3. -Cardinality(T) \in Int
  BY <1>2
<1> QED
  BY <1>3 DEF Sooner, T

LEMMA InitInv == Init => SchedulerInv
<1> SUFFICES ASSUME Init PROVE SchedulerInv
  OBVIOUS
<1>1. AtOnce \in Int
  BY SchedulerAssumption, FS_CardinalityType DEF AtOnce
<1>2. heap = <<>> /\ Len(heap) = 0 /\ heap \in Seq(Sock)
  BY DEF Init
<1>3. TypeOK
  BY <1>1, <1>2 DEF Init, TypeOK, Free
<1>4. Places
  BY <1>2 DEF Init, Places, Free, Last
<1>5. TakenOff /\ NobodyStranded
  BY DEF Init, TakenOff, NobodyStranded, Free
<1> QED
  BY <1>3, <1>4, <1>5 DEF SchedulerInv

\* What leaves the heap, its lock, and the sockets' flags alone.
LEMMA HeapUntouched ==
    ASSUME TypeOK, Places, UNCHANGED <<heap, loc, op>>, ts' \in [Sock -> Int]
    PROVE  TypeOK' /\ Places'
BY DEF TypeOK, Places, Last

\* Nobody is stranded by a step that leaves heap, lock and flags alone.
LEMMA NobodyTouched ==
    ASSUME TakenOff, NobodyStranded, UNCHANGED <<loc, op, broken, closing, closed, ready, callVars>>
    PROVE  TakenOff' /\ NobodyStranded'
BY DEF TakenOff, NobodyStranded, Connected, callVars

\* The steps on the heap under m_ListLock.
LEMMA StepList ==
    ASSUME SchedulerInv, InList
    PROVE  SchedulerInv'
<1> USE DEF SchedulerInv, socketVars, flagVars, callVars
<1>1. CASE Rise
  <2>1. TypeOK' /\ Places'
    BY <1>1, RiseStep
  <2>2. op' = [op EXCEPT !.at = @ \div 2] /\ op.pc = "up"
    BY <1>1 DEF Rise
  <2>3. op'.pc = "up" /\ op'.sock = op.sock
    BY <2>2 DEF TypeOK
  <2>4. \A s \in Sock : loc[s] > 0 => loc'[s] > 0
    BY <1>1 DEF Rise, Places, TypeOK, Last
  <2>5. TakenOff' /\ NobodyStranded'
    BY <1>1, <2>3, <2>4 DEF Rise, TakenOff, NobodyStranded, Connected
  <2> QED
    BY <2>1, <2>5
<1>2. CASE EndInsert
  <2>1. op.pc = "up" /\ op.sock \in Sock /\ op.at \in 1 .. Last /\ heap[op.at] = op.sock /\ loc[op.sock] = 0
    BY <1>2 DEF EndInsert, Places, TypeOK
  <2>2. UNCHANGED <<heap, ts>> /\ op' = Free /\ loc' = [loc EXCEPT ![op.sock] = op.at]
    BY <1>2 DEF EndInsert
  <2>3. heap \in Seq(Sock) /\ Len(heap) \in Nat
    BY LenProperties DEF TypeOK
  <2>4. TypeOK'
    BY <2>1, <2>2, <2>3 DEF TypeOK, Free, Last
  <2>5. Places'
    <3>1. \A i \in 1 .. Len(heap) : heap[i] \in Sock
      BY <2>3, ElementOfSeq
    <3>2. \A i \in 1 .. Len(heap) : loc'[heap[i]] = i
      BY <2>1, <2>2, <3>1 DEF Places, TypeOK, Last
    <3>3. \A s \in Sock : loc'[s] > 0 => loc'[s] <= Len(heap) /\ heap[loc'[s]] = s
      BY <2>1, <2>2 DEF Places, TypeOK, Last
    <3> QED
      BY <2>2, <3>2, <3>3 DEF Places, Last, Free
  <2>6. \A s \in Sock : loc[s] > 0 \/ s = op.sock => loc'[s] > 0
    BY <2>1, <2>2, <2>3 DEF TypeOK, Last
  <2>7. TakenOff' /\ NobodyStranded'
    BY <1>2, <2>2, <2>6 DEF EndInsert, TakenOff, NobodyStranded, Connected, Free
  <2> QED
    BY <2>4, <2>5, <2>7
<1>3. CASE Sink
  <2>1. TypeOK' /\ Places'
    BY <1>3, SinkStep
  <2>2. op.pc = "down" /\ op' = [op EXCEPT !.at = Below(op.at)]
    BY <1>3 DEF Sink
  <2>3. op'.pc = op.pc /\ op'.sock = op.sock /\ op'.then = op.then
    BY <2>2 DEF TypeOK
  <2>4. \A s \in Sock : loc[s] > 0 => loc'[s] > 0
    <3> DEFINE p == Below(op.at)
    <3>1. op.at > 0 /\ op.at \in Nat
      BY <2>2 DEF Places, TypeOK
    <3>3. p \in Nat /\ p > 0
      BY <3>1 DEF Below
    <3>2. loc' = [loc EXCEPT ![heap[op.at]] = p, ![heap[p]] = op.at]
      BY <1>3 DEF Sink
    <3> HIDE DEF p
    <3> QED
      BY <3>1, <3>2, <3>3 DEF TypeOK
  <2>5. TakenOff' /\ NobodyStranded'
    BY <1>3, <2>2, <2>3, <2>4 DEF Sink, TakenOff, NobodyStranded, Connected
  <2> QED
    BY <2>1, <2>5
<1>4. CASE EndRemove
  <2>1. op.pc = "down" /\ op.sock \in Sock /\ \A i \in 1 .. Last : heap[i] # op.sock
    BY <1>4 DEF EndRemove, Places, TypeOK
  <2>2. /\ UNCHANGED <<heap, ts>> /\ loc' = [loc EXCEPT ![op.sock] = 0]
        /\ op' = IF op.then = "free" THEN Free ELSE [op EXCEPT !.pc = op.then]
    BY <1>4 DEF EndRemove
  <2>3. \/ op.then = "free" /\ op' = Free
        \/ /\ op.then \in {"insert", "pack"}
           /\ op'.pc = op.then /\ op'.sock = op.sock
    BY <2>2 DEF TypeOK
  <2>4. TypeOK'
    BY <2>1, <2>2 DEF TypeOK, Free
  <2>5. Places'
    <3>1. \A i \in 1 .. Len(heap) : heap[i] \in Sock
      BY ElementOfSeq DEF TypeOK
    <3>2. \A i \in 1 .. Len(heap) : loc'[heap[i]] = i
      BY <2>1, <2>2, <3>1 DEF Places, TypeOK, Last
    <3>3. \A s \in Sock : loc'[s] > 0 => loc'[s] <= Len(heap) /\ heap[loc'[s]] = s
      BY <2>1, <2>2 DEF Places, TypeOK, Last
    <3>4. loc'[op.sock] = 0
      BY <2>1, <2>2 DEF TypeOK
    <3> QED
      BY <2>2, <2>3, <3>2, <3>3, <3>4 DEF Places, Last, Free
  <2>6. \A s \in Sock : loc[s] > 0 /\ s # op.sock => loc'[s] > 0
    BY <2>1, <2>2 DEF TypeOK
  <2>7. TakenOff' /\ NobodyStranded'
    BY <1>4, <2>1, <2>3, <2>6 DEF EndRemove, TakenOff, NobodyStranded, Connected, Free
  <2> QED
    BY <2>4, <2>5, <2>7
<1>5. CASE InsertAgain
  <2>1. op.pc = "insert" /\ op.sock \in Sock /\ loc[op.sock] = 0 /\ StartInsert(op.sock, AtOnce)
    BY <1>5 DEF InsertAgain, Places, TypeOK
  <2>2. AtOnce \in Int
    BY SchedulerAssumption, FS_CardinalityType DEF AtOnce
  <2>3. TypeOK' /\ Places'
    BY <2>1, <2>2, InsertStep
  <2>4. TakenOff' /\ NobodyStranded'
    BY <1>5, <2>1 DEF InsertAgain, StartInsert, TakenOff, NobodyStranded, Connected
  <2> QED
    BY <2>3, <2>4
<1> QED
  BY <1>1, <1>2, <1>3, <1>4, <1>5 DEF InList

\* The calls of the other threads.
LEMMA StepCaller ==
    ASSUME SchedulerInv, NEW u \in Sock, Caller(u)
    PROVE  SchedulerInv'
<1> USE DEF SchedulerInv, socketVars, flagVars, callVars, heapVars
<1>1. AtOnce \in Int
  BY SchedulerAssumption, FS_CardinalityType DEF AtOnce
<1>2. CASE MakeReady(u) \/ CallInVain(u) \/ Lost(u) \/ Break(u) \/ Disconnect(u)
  <2>1. UNCHANGED <<heap, loc, ts, op>>
    BY <1>2 DEF MakeReady, CallInVain, Lost, Break, Disconnect
  <2>2. ts' \in [Sock -> Int]
    BY <2>1 DEF TypeOK
  <2>3. TypeOK' /\ Places'
    BY <2>1, <2>2, HeapUntouched
  <2>4. TakenOff' /\ NobodyStranded'
    <3>1. CASE MakeReady(u)
      BY <3>1 DEF MakeReady, TakenOff, NobodyStranded, Connected
    <3>2. CASE CallInVain(u)
      BY <3>2 DEF CallInVain, TakenOff, NobodyStranded, Connected
    <3>3. CASE Lost(u)
      BY <3>3 DEF Lost, TakenOff, NobodyStranded, Connected
    <3>4. CASE Break(u)
      BY <3>4 DEF Break, TakenOff, NobodyStranded, Connected
    <3>5. CASE Disconnect(u)
      BY <3>5 DEF Disconnect, TakenOff, NobodyStranded, Connected
    <3> QED
      BY <1>2, <3>1, <3>2, <3>3, <3>4, <3>5
  <2> QED
    BY <2>3, <2>4
<1>3. CASE Update(u) \/ Reschedule(u) \/ Remove(u)
  <2>1. op = Free /\ op.pc = "free" /\ op.sock = NoSock /\ op.sock \notin Sock /\ loc[u] \in Nat
    BY <1>3, SchedulerAssumption DEF Update, Reschedule, Remove, Free, TypeOK
  <2>2. CASE UNCHANGED <<heap, loc, op>> /\ ts' \in [Sock -> Int]
    <3>1. TypeOK' /\ Places'
      BY <2>2, HeapUntouched
    <3>2. TakenOff'
      BY <2>1, <2>2 DEF TakenOff
    <3>3. NobodyStranded'
      <4>1. CASE Update(u)
        BY <4>1, <2>1, <2>2 DEF Update, NobodyStranded, Connected, StartInsert
      <4>2. CASE Reschedule(u)
        BY <4>2, <2>1, <2>2 DEF Reschedule, NobodyStranded, Connected, StartInsert, StartRemove
      <4>3. CASE Remove(u)
        BY <4>3, <2>1, <2>2 DEF Remove, NobodyStranded, Connected
      <4> QED
        BY <1>3, <4>1, <4>2, <4>3
    <3> QED
      BY <3>1, <3>2, <3>3
  <2>3. CASE loc[u] = 0 /\ StartInsert(u, AtOnce)
    <3>1. TypeOK' /\ Places'
      BY <1>1, <2>1, <2>3, InsertStep
    <3>2. op'.pc = "up" /\ op'.sock = u /\ loc' = loc /\ dropped' = dropped \ {u}
      BY <2>3 DEF StartInsert
    <3>3. /\ pending \ {u} \subseteq pending' /\ rushed \ {u} \subseteq rushed'
          /\ closing' = closing /\ UNCHANGED <<broken, closed, ready>>
      BY <1>3, <2>3, <3>2 DEF Update, Reschedule, Remove, StartInsert
    <3>4. TakenOff' /\ NobodyStranded'
      BY <2>1, <3>2, <3>3 DEF TakenOff, NobodyStranded, Connected
    <3> QED
      BY <3>1, <3>4
  <2>4. CASE loc[u] > 1 /\ Reschedule(u) /\ StartRemove(u, "insert")
    <3>1. TypeOK' /\ Places'
      BY <2>1, <2>4, RemoveStep
    <3>2. op'.pc = "down" /\ op'.sock = u /\ op'.then = "insert"
      BY <2>4 DEF StartRemove
    <3>3. \A s \in Sock : loc[s] > 0 => loc'[s] > 0
      BY <2>4 DEF StartRemove, TypeOK
    <3>4. rushed \ {u} \subseteq rushed' /\ UNCHANGED <<closing, broken, closed, ready, pending, dropped>>
      BY <2>1, <2>4 DEF Reschedule
    <3>5. TakenOff' /\ NobodyStranded'
      BY <2>1, <3>2, <3>3, <3>4 DEF TakenOff, NobodyStranded, Connected
    <3> QED
      BY <3>1, <3>5
  <2>5. CASE loc[u] > 0 /\ Remove(u) /\ StartRemove(u, "free")
    <3>1. TypeOK' /\ Places'
      BY <2>1, <2>5, RemoveStep
    <3>2. op'.pc = "down" /\ op'.sock = u
      BY <2>5 DEF StartRemove
    <3>3. \A s \in Sock : loc[s] > 0 => loc'[s] > 0
      BY <2>5 DEF StartRemove, TypeOK
    <3>4. closing' = closing \cup {u} /\ UNCHANGED <<broken, closed, ready, pending, rushed, dropped>>
      BY <2>5 DEF Remove
    <3>5. TakenOff' /\ NobodyStranded'
      BY <2>1, <3>2, <3>3, <3>4 DEF TakenOff, NobodyStranded, Connected
    <3> QED
      BY <3>1, <3>5
  <2>6. CASE Update(u)
    BY <2>1, <2>2, <2>3, <2>6 DEF Update, TypeOK
  <2>7. CASE Reschedule(u)
    <3>1. loc[u] = 1 => ts' \in [Sock -> Int] /\ UNCHANGED <<heap, loc, op>>
      BY <1>1, <2>7, <2>1 DEF Reschedule, TypeOK
    <3> QED
      BY <2>1, <2>2, <2>3, <2>4, <2>7, <3>1 DEF Reschedule
  <2>8. CASE Remove(u)
    BY <2>1, <2>2, <2>5, <2>8 DEF Remove, TypeOK
  <2> QED
    BY <1>3, <2>6, <2>7, <2>8
<1> QED
  BY <1>2, <1>3 DEF Caller

\* The worker, the clock, and steps that change nothing.
LEMMA StepWorker ==
    ASSUME SchedulerInv, InWorker \/ Tick \/ UNCHANGED vars
    PROVE  SchedulerInv'
<1> USE DEF SchedulerInv, socketVars, flagVars, heapVars
<1>1. CASE Pop /\ StartRemove(heap[1], "pack")
  <2> DEFINE u == heap[1]
  <2>1. op = Free /\ op.pc = "free" /\ op.sock \notin Sock /\ heap # <<>>
    <3>1. op = Free /\ op.pc = "free" /\ op.sock \notin Sock
      BY <1>1, SchedulerAssumption DEF Pop, Free
    <3>2. op'.pc = "down"
      BY <1>1 DEF StartRemove
    <3> QED
      BY <1>1, <3>1, <3>2 DEF Pop
  <2>2. heap \in Seq(Sock) /\ Len(heap) > 0 /\ Len(heap) \in Nat
    BY <2>1, LenProperties DEF TypeOK
  <2>3. u \in Sock /\ loc[u] = 1
    BY <2>1, <2>2, ElementOfSeq DEF Places, Last
  <2>4. TypeOK' /\ Places'
    BY <1>1, <2>1, <2>3, RemoveStep
  <2>5. op'.pc = "down" /\ op'.sock = u /\ op'.then = "pack"
    BY <1>1 DEF StartRemove
  <2>6. \A s \in Sock : loc[s] > 0 => loc'[s] > 0
    BY <1>1, <2>3 DEF StartRemove, TypeOK
  <2>7. UNCHANGED <<broken, closing, closed, ready, callVars>>
    BY <1>1 DEF Pop
  <2>8. TakenOff' /\ NobodyStranded'
    BY <2>1, <2>5, <2>6, <2>7 DEF TakenOff, NobodyStranded, Connected, callVars
  <2> QED
    BY <2>4, <2>8
<1>2. CASE UNCHANGED <<heap, loc, op, socketVars, callVars>> /\ ts' \in [Sock -> Int]
  BY <1>2, HeapUntouched, NobodyTouched
<1>3. CASE InWorker
  <2>1. ts \in [Sock -> Int]
    BY DEF TypeOK
  <2>2. CASE Pop
    BY <1>1, <1>2, <2>1, <2>2 DEF Pop
  <2> QED
    BY <1>2, <1>3, <2>1, <2>2 DEF InWorker, GetNextProcTime, WaitIfEmpty, SleepTo, Awake
<1>4. CASE Tick
  <2>1. ts' \in [Sock -> Int]
    BY <1>4, SoonerType DEF Tick, TypeOK
  <2> QED
    BY <1>2, <1>4, <2>1 DEF Tick
<1>5. CASE UNCHANGED vars
  BY <1>2, <1>5 DEF vars, TypeOK
<1> QED
  BY <1>3, <1>4, <1>5

\* The rest of pop().
LEMMA StepPop ==
    ASSUME SchedulerInv, InPop
    PROVE  SchedulerInv'
<1> USE DEF SchedulerInv, socketVars, flagVars, heapVars, callVars
<1>1. op.pc = "pack" /\ op.sock \in Sock /\ loc[op.sock] = 0
  BY DEF InPop, PackNothing, PackDrop, PackData, Places, TypeOK
<1>2. CASE PackNothing \/ PackDrop
  <2>1. UNCHANGED <<heap, loc, ts>> /\ op' = Free
    BY <1>2 DEF PackNothing, PackDrop
  <2>2. TypeOK'
    BY <2>1 DEF TypeOK, Free
  <2>3. Places'
    BY <2>1, <1>1 DEF Places, Free, Last
  <2>4. TakenOff' /\ NobodyStranded'
    <3>1. CASE PackNothing
      BY <3>1, <2>1, <1>1 DEF PackNothing, TakenOff, NobodyStranded, Connected, Free
    <3>2. CASE PackDrop
      BY <3>2, <2>1, <1>1 DEF PackDrop, TakenOff, NobodyStranded, Connected, Free
    <3> QED
      BY <1>2, <3>1, <3>2
  <2> QED
    BY <2>2, <2>3, <2>4
<1>3. CASE PackData
  <2>1. PICK t \in Int : StartInsert(op.sock, t)
    BY <1>3, SchedulerAssumption DEF PackData
  <2>2. TypeOK' /\ Places'
    BY <1>1, <2>1, InsertStep
  <2>3. TakenOff' /\ NobodyStranded'
    BY <1>1, <1>3, <2>1 DEF PackData, StartInsert, TakenOff, NobodyStranded, Connected
  <2> QED
    BY <2>2, <2>3
<1> QED
  BY <1>2, <1>3 DEF InPop

\* The invariant is inductive.
LEMMA StepInv == SchedulerInv /\ [Next]_vars => SchedulerInv'
BY StepList, StepCaller, StepWorker, StepPop DEF Next

\* The heap and the threads keep their types, for any number of sockets.
THEOREM TypeCorrect == Spec => []TypeOK
<1>1. SchedulerInv => TypeOK
  BY DEF SchedulerInv
<1> QED
  BY <1>1, InitInv, StepInv, PTL DEF Spec

\* insert_() and remove_() keep m_iHeapLoc the place of each socket, and each
\* socket on the heap once, through every turn of their loops (queue.cpp:355).
THEOREM LocExact == Spec => []HeapLocExact
<1>1. SchedulerInv => HeapLocExact
  BY DEF SchedulerInv, HeapLocExact, Places, Free
<1> QED
  BY <1>1, InitInv, StepInv, PTL DEF Spec

\* A socket with a packet to send is never left off the heap, whatever the
\* threads that send, acknowledge, time out and close do between their change
\* and their call of update() (core.cpp:1112, 1302, 2053, 2169, 2603, 2632).
THEOREM NoneStranded == Spec => []NobodyStranded
<1>1. SchedulerInv => NobodyStranded
  BY DEF SchedulerInv
<1> QED
  BY <1>1, InitInv, StepInv, PTL DEF Spec
=============================================================================
