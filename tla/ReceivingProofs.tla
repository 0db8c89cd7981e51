--------------------------- MODULE ReceivingProofs ---------------------------
(***************************************************************************)
(* Proofs about Receiving, for every set of pulls, items, hours, POs and   *)
(* lines and every bound on the calls, and, at the end, about the          *)
(* allocation loop of ReceiveWalk, the only part that looks at its         *)
(* variables and its constant.                                             *)
(***************************************************************************)
EXTENDS ReceiveWalk

(* The operations that only edit the plan or the purchase orders.          *)
Edit ==
    \/ \E p \in Pull : CreatePull(p) \/ ClosePull(p) \/ ReopenPull(p)
    \/ \E i \in Item : CreateItem(i) \/ UpdateItem(i) \/ DeleteItem(i)
    \/ \E w \in Window : AddWindow(w) \/ UpdateWindow(w) \/ DeleteWindow(w)
    \/ \E o \in PO : CreatePo(o) \/ ImportPo(o) \/ UpdatePo(o) \/ ClosePo(o)
    \/ \E l \in Line : AddLine(l) \/ DeleteLine(l)

Drawn(C, q) == {l \in C : Take(C, q, l) > 0}
Slice(C, q, w, l) ==
    [id |-> <<calls + 1, l>>, line |-> l, window |-> w,
     qty |-> Take(C, q, l), reverses |-> NoReceipt]

(* A window has an item and an hour, and its item a pull.                  *)
LEMMA WindowParts ==
  ASSUME NEW w \in Window
  PROVE  w[1] \in Item /\ w[2] \in Hour /\ PullOf(w) \in Pull
  BY ConstantsAssumption DEF Window, PullOf

-----------------------------------------------------------------------------
(* Types.                                                                  *)

(* The capacity ahead of a line is a count, and a line is never drawn      *)
(* beyond what it has left.                                                *)
LEMMA TakeBounds ==
  ASSUME TypeOK, NEW C \in SUBSET Line, NEW q \in Nat, NEW l \in Line
  PROVE  /\ IsFiniteSet(C)
         /\ \A m \in Line : Remaining[m] \in Int
         /\ Ahead(C, l) \in Nat
         /\ Take(C, q, l) \in Int
         /\ Take(C, q, l) =< Remaining[l]
         /\ Take(C, q, l) =< q
<1>1. \A m \in Line : Remaining[m] \in Int
  BY DEF TypeOK, Remaining
<1>2. IsFiniteSet(C)
  BY ConstantsAssumption, FS_Subset
<1>3. IsFiniteSet({m \in C : Precedes(m, l)})
  BY <1>2, FS_Subset
<1>4. Ahead(C, l) \in Nat
  BY <1>1, <1>3, SumType DEF Ahead
<1> QED
  BY <1>1, <1>2, <1>4 DEF Take, Least, Greatest

(* A slice that a receive draws is a receipt.                              *)
LEMMA SliceType ==
  ASSUME TypeOK, NEW w \in Window, NEW C \in SUBSET Line, NEW q \in Nat, NEW l \in C,
         calls < MaxCalls
  PROVE  Slice(C, q, w, l) \in Receipt
<1>1. <<calls + 1, l>> \in ReceiptId
  BY ConstantsAssumption DEF TypeOK, ReceiptId
<1>2. Take(C, q, l) \in Int
  BY TakeBounds
<1> QED
  BY <1>1, <1>2 DEF Slice, Receipt

(* So is a reversal, with an id no call has used.                          *)
LEMMA ReverseType ==
  ASSUME TypeOK, NEW r \in receipts, calls < MaxCalls
  PROVE  /\ <<calls + 1, r.line>> \in ReceiptId
         /\ Reversal(r, <<calls + 1, r.line>>) \in Receipt
<1>1. <<calls + 1, r.line>> \in ReceiptId
  BY ConstantsAssumption DEF TypeOK, ReceiptId, Receipt
<1>2. /\ r.line \in Line /\ r.window \in Window /\ r.qty \in Int /\ r.id \in ReceiptId
  BY DEF TypeOK, Receipt
<1> QED
  BY <1>1, <1>2 DEF Receipt, Reversal

(* The empty tables are well typed.                                        *)
LEMMA TypeInit == Init => TypeOK
  BY ConstantsAssumption DEF Init, TypeOK

(* Edits of the plan keep the types.                                       *)
LEMMA TypePlan ==
  ASSUME TypeOK,
         \/ \E p \in Pull : CreatePull(p) \/ ClosePull(p) \/ ReopenPull(p)
         \/ \E i \in Item : CreateItem(i) \/ UpdateItem(i) \/ DeleteItem(i)
         \/ \E w \in Window : AddWindow(w) \/ UpdateWindow(w) \/ DeleteWindow(w)
  PROVE  TypeOK'
<1>1. ASSUME NEW p \in Pull, CreatePull(p) \/ ClosePull(p) \/ ReopenPull(p)
      PROVE  TypeOK'
  BY <1>1 DEF CreatePull, ClosePull, ReopenPull, TypeOK, poVars, ledgerVars
<1>2. ASSUME NEW i \in Item, CreateItem(i)
      PROVE  TypeOK'
  <2>1. PICK H \in SUBSET Hour : \E q \in [H -> WindowQty] :
          expected' = [w \in Window |-> IF w \in {i} \X H THEN q[w[2]] ELSE expected[w]]
    BY <1>2 DEF CreateItem
  <2>2. PICK q \in [H -> WindowQty] :
          expected' = [w \in Window |-> IF w \in {i} \X H THEN q[w[2]] ELSE expected[w]]
    BY <2>1
  <2>3. expected' \in [Window -> Nat]
    BY <2>2, ConstantsAssumption DEF TypeOK
  <2> QED
    BY <1>2, <2>3 DEF CreateItem, TypeOK, poVars, ledgerVars
<1>3. ASSUME NEW i \in Item, UpdateItem(i) \/ DeleteItem(i)
      PROVE  TypeOK'
  BY <1>3 DEF UpdateItem, DeleteItem, TypeOK, poVars, ledgerVars
<1>4. ASSUME NEW w \in Window, AddWindow(w) \/ UpdateWindow(w) \/ DeleteWindow(w)
      PROVE  TypeOK'
  BY <1>4, ConstantsAssumption
  DEF AddWindow, UpdateWindow, DeleteWindow, TypeOK, poVars, ledgerVars
<1> QED
  BY <1>1, <1>2, <1>3, <1>4

(* Edits of the orders keep the types.                                     *)
LEMMA TypeOrders ==
  ASSUME TypeOK,
         \/ \E o \in PO : CreatePo(o) \/ ImportPo(o) \/ UpdatePo(o) \/ ClosePo(o)
         \/ \E l \in Line : AddLine(l) \/ DeleteLine(l)
  PROVE  TypeOK'
<1>1. ASSUME NEW o \in PO, NEW L, InsertPo(o, L)
      PROVE  TypeOK'
  <2>1. PICK q \in [L -> OrderQty] :
          ordered' = [l \in Line |-> IF l \in L THEN q[l] ELSE ordered[l]]
    BY <1>1 DEF InsertPo
  <2>2. ordered' \in [Line -> Nat]
    BY <2>1, ConstantsAssumption DEF TypeOK
  <2>3. poDate' \in [PO -> Nat]
    BY <1>1, ConstantsAssumption DEF InsertPo, TypeOK
  <2> QED
    BY <1>1, <2>2, <2>3 DEF InsertPo, TypeOK, pullVars, ledgerVars
<1>2. ASSUME NEW o \in PO, CreatePo(o) \/ ImportPo(o)
      PROVE  TypeOK'
  BY <1>1, <1>2 DEF CreatePo, ImportPo
<1>3. ASSUME NEW o \in PO, UpdatePo(o) \/ ClosePo(o)
      PROVE  TypeOK'
  BY <1>3, ConstantsAssumption DEF UpdatePo, ClosePo, TypeOK, pullVars, ledgerVars
<1>4. ASSUME NEW l \in Line, AddLine(l) \/ DeleteLine(l)
      PROVE  TypeOK'
  BY <1>4, ConstantsAssumption DEF AddLine, DeleteLine, TypeOK, pullVars
<1> QED
  BY <1>2, <1>3, <1>4

(* What a receive and a cancel do, in the vocabulary of this module.       *)
LEMMA ReceiveFacts ==
  ASSUME TypeOK, NEW w \in Window, NEW q \in ReceiveQty, Receive(w, q)
  PROVE  LET C == Candidates(w[1]) IN
         /\ C \in SUBSET Line /\ q \in Nat /\ q > 0 /\ calls < MaxCalls
         /\ receipts' = receipts \cup {Slice(C, q, w, l) : l \in Drawn(C, q)}
         /\ consumed' = [l \in Line |-> IF l \in Drawn(C, q) THEN consumed[l] + Take(C, q, l)
                                                             ELSE consumed[l]]
         /\ received' = [received EXCEPT ![w] = @ + q]
         /\ q =< SumOf(C, Remaining)
  BY ConstantsAssumption DEF Receive, Candidates, Drawn, Slice

(* A receive keeps the types.                                              *)
LEMMA TypeReceive ==
  ASSUME TypeOK, NEW w \in Window, NEW q \in ReceiveQty, Receive(w, q)
  PROVE  TypeOK'
<1> DEFINE C == Candidates(w[1])
<1>1. /\ C \in SUBSET Line /\ q \in Nat /\ calls < MaxCalls
      /\ receipts' = receipts \cup {Slice(C, q, w, l) : l \in Drawn(C, q)}
      /\ consumed' = [l \in Line |-> IF l \in Drawn(C, q) THEN consumed[l] + Take(C, q, l)
                                                          ELSE consumed[l]]
      /\ received' = [received EXCEPT ![w] = @ + q]
  BY ReceiveFacts
<1> HIDE DEF C
<1>2. receipts' \subseteq Receipt
  BY <1>1, SliceType DEF Drawn, TypeOK
<1>3. consumed' \in [Line -> Int]
  <2>1. \A l \in Line : Take(C, q, l) \in Int
    BY <1>1, TakeBounds
  <2> QED
    BY <1>1, <2>1 DEF TypeOK
<1>4. received' \in [Window -> Int]
  BY <1>1 DEF TypeOK
<1>5. po' \in [PO -> {"none", "open", "closed"}]
  BY DEF Receive, TypeOK
<1>6. pull' \in [Pull -> {"none", "pending", "in_progress", "fully_received", "closed"}]
  BY WindowParts DEF Receive, TypeOK, Advanced
<1>7. calls' \in 0..MaxCalls
  BY <1>1, ConstantsAssumption DEF Receive, TypeOK
<1>8. UNCHANGED <<item, expected, poDate, forfeited, ordered, voidedBy>>
  BY DEF Receive
<1> QED
  BY <1>2, <1>3, <1>4, <1>5, <1>6, <1>7, <1>8 DEF TypeOK

(* A cancel keeps the types.                                               *)
LEMMA TypeCancel ==
  ASSUME TypeOK, NEW r \in receipts, Cancel(r)
  PROVE  TypeOK'
<1>1. r.line \in Line /\ r.window \in Window /\ r.qty \in Int /\ r.id \in ReceiptId
  BY DEF TypeOK, Receipt
<1>2. calls < MaxCalls
  BY DEF Cancel
<1>3. receipts' \subseteq Receipt
  BY <1>2, ReverseType DEF Cancel, TypeOK
<1>4. voidedBy' \in [ReceiptId -> ReceiptId \cup {NoReceipt}]
  BY <1>1, <1>2, ReverseType DEF Cancel, TypeOK
<1>5. consumed' \in [Line -> Int] /\ received' \in [Window -> Int]
  BY <1>1 DEF Cancel, Restored, TypeOK
<1>6. po' \in [PO -> {"none", "open", "closed"}] /\ forfeited' \subseteq PO
  BY <1>1, ConstantsAssumption DEF Cancel, Reopened, TypeOK
<1>7. pull' \in [Pull -> {"none", "pending", "in_progress", "fully_received", "closed"}]
  BY DEF Cancel, TypeOK
<1>8. calls' \in 0..MaxCalls
  BY <1>2, ConstantsAssumption DEF Cancel, TypeOK
<1>9. UNCHANGED <<item, expected, poDate, ordered>>
  BY DEF Cancel
<1> QED
  BY <1>3, <1>4, <1>5, <1>6, <1>7, <1>8, <1>9 DEF TypeOK

(* Every variable keeps its type through every operation.                  *)
THEOREM TypeCorrect == Spec => []TypeOK
<1>1. TypeOK /\ [Next]_vars => TypeOK'
  <2> SUFFICES ASSUME TypeOK, [Next]_vars PROVE TypeOK'
    OBVIOUS
  <2>1. CASE UNCHANGED vars
    BY <2>1 DEF vars, pullVars, poVars, ledgerVars, TypeOK
  <2>2. CASE Next
    BY <2>2, TypePlan, TypeOrders, TypeReceive, TypeCancel DEF Next
  <2> QED
    BY <2>1, <2>2
<1> QED
  BY <1>1, TypeInit, PTL DEF Spec
-----------------------------------------------------------------------------
(* The FIFO walk.                                                          *)

(* OrderDate, PoNumber, LineNumber order the lines strictly and totally.   *)
LEMMA FifoOrder ==
  ASSUME TypeOK
  PROVE  /\ \A l \in Line : ~Precedes(l, l)
         /\ \A l, m, n \in Line : Precedes(l, m) /\ Precedes(m, n) => Precedes(l, n)
         /\ \A l, m \in Line : l # m => Precedes(l, m) \/ Precedes(m, l)
<1>1. \A l \in Line : /\ LinePo[l] \in PO
                     /\ LineNumber[l] \in Nat
                     /\ poDate[LinePo[l]] \in Nat
                     /\ PoNumber[LinePo[l]] \in Nat
  BY ConstantsAssumption DEF TypeOK
<1>2. \A l \in Line : ~Precedes(l, l)
  BY <1>1 DEF Precedes
<1>3. ASSUME NEW l \in Line, NEW m \in Line, NEW n \in Line, Precedes(l, m), Precedes(m, n)
      PROVE  Precedes(l, n)
  BY <1>1, <1>3 DEF Precedes
<1>4. ASSUME NEW l \in Line, NEW m \in Line, l # m
      PROVE  Precedes(l, m) \/ Precedes(m, l)
  <2>1. CASE LinePo[l] = LinePo[m]
    <3>1. LineNumber[l] # LineNumber[m]
      BY <1>4, <2>1, ConstantsAssumption
    <3> QED
      BY <1>1, <2>1, <3>1 DEF Precedes
  <2>2. CASE LinePo[l] # LinePo[m]
    <3>1. PoNumber[LinePo[l]] # PoNumber[LinePo[m]]
      BY <1>1, <2>2, ConstantsAssumption
    <3> QED
      BY <1>1, <3>1 DEF Precedes
  <2> QED
    BY <2>1, <2>2
<1> QED
  BY <1>2, <1>3, <1>4

(* The pieces of a line start where those of the lines before it end.      *)
LEMMA AheadGrows ==
  ASSUME TypeOK, NEW C \in SUBSET Line, \A l \in C : Remaining[l] > 0
  PROVE  /\ \A l, m \in C : Precedes(m, l) => Ahead(C, m) + Remaining[m] =< Ahead(C, l)
         /\ \A m \in C : Ahead(C, m) + Remaining[m] =< SumOf(C, Remaining)
<1>1. /\ IsFiniteSet(C)
      /\ \A l \in Line : Remaining[l] \in Int
  BY TakeBounds, ConstantsAssumption, FS_Subset DEF TypeOK, Remaining
<1> DEFINE S(l) == {x \in C : Precedes(x, l)}
<1>2. ASSUME NEW m \in C
      PROVE  /\ IsFiniteSet(S(m))
             /\ SumOf(S(m) \cup {m}, Remaining) = Ahead(C, m) + Remaining[m]
  <2>1. IsFiniteSet(S(m))
    BY <1>1, FS_Subset
  <2>2. m \notin S(m)
    BY FifoOrder
  <2>3. SumOf(S(m) \cup {m}, Remaining) = SumOf(S(m), Remaining) + Greatest(0, Remaining[m])
    BY <1>1, <2>1, <2>2, SumAdd
  <2>4. Greatest(0, Remaining[m]) = Remaining[m]
    BY <1>1 DEF Greatest
  <2> QED
    BY <2>1, <2>3, <2>4 DEF Ahead
<1>3. ASSUME NEW l \in C, NEW m \in C, Precedes(m, l)
      PROVE  Ahead(C, m) + Remaining[m] =< Ahead(C, l)
  <2>1. S(m) \cup {m} \in SUBSET S(l)
    BY <1>3, FifoOrder
  <2>2. IsFiniteSet(S(l)) /\ \A x \in S(l) : Remaining[x] \in Int
    BY <1>1, <1>2
  <2>3. SumOf(S(m) \cup {m}, Remaining) =< SumOf(S(l), Remaining)
    BY <2>1, <2>2, SumSubset
  <2> QED
    BY <1>2, <2>3 DEF Ahead
<1>4. ASSUME NEW m \in C
      PROVE  Ahead(C, m) + Remaining[m] =< SumOf(C, Remaining)
  <2>1. S(m) \cup {m} \in SUBSET C
    OBVIOUS
  <2>2. \A x \in C : Remaining[x] \in Int
    BY <1>1
  <2>3. SumOf(S(m) \cup {m}, Remaining) =< SumOf(C, Remaining)
    BY <1>1, <2>1, <2>2, SumSubset
  <2> QED
    BY <1>2, <2>3
<1> QED
  BY <1>3, <1>4

(* Laid end to end in FIFO order, the pieces of the lines fill 1..n: each  *)
(* position belongs to one piece of one line.                              *)
LEMMA FifoPositions ==
  ASSUME TypeOK, NEW C \in SUBSET Line, \A l \in C : Remaining[l] > 0
  PROVE  \A n \in 1..SumOf(C, Remaining) :
            \E l \in C : \E k \in 1..Remaining[l] : Ahead(C, l) + k = n
<1> DEFINE P == Pieces(C, Remaining)
           N == SumOf(C, Remaining)
           f == [x \in P |-> Ahead(C, x[1]) + x[2]]
<1>1. /\ IsFiniteSet(C)
      /\ \A l \in Line : Remaining[l] \in Int /\ Ahead(C, l) \in Nat
  <2>1. \A l \in Line : Ahead(C, l) \in Nat
    BY TakeBounds
  <2> QED
    BY <2>1, ConstantsAssumption, FS_Subset DEF TypeOK, Remaining
<1>2. IsFiniteSet(P) /\ N \in Nat /\ Cardinality(P) = N
  BY <1>1, SumType DEF SumOf
<1>3. \A x \in P : x[1] \in C /\ x[2] \in 1..Remaining[x[1]] /\ x = <<x[1], x[2]>>
  BY DEF Pieces
<1>4. f \in [P -> 1..N]
  <2> SUFFICES ASSUME NEW x \in P PROVE Ahead(C, x[1]) + x[2] \in 1..N
    OBVIOUS
  <2>1. x[1] \in C /\ x[2] \in 1..Remaining[x[1]] /\ Remaining[x[1]] \in Int
    BY <1>1, <1>3
  <2>2. Ahead(C, x[1]) + Remaining[x[1]] =< N /\ Ahead(C, x[1]) \in Nat
    BY <1>1, <2>1, AheadGrows
  <2> HIDE DEF N, P
  <2> QED
    BY <1>2, <2>1, <2>2
<1>5. ASSUME NEW x \in P, NEW y \in P, f[x] = f[y]
      PROVE  x = y
  <2>1. /\ x[1] \in C /\ x[2] \in 1..Remaining[x[1]] /\ x = <<x[1], x[2]>>
        /\ y[1] \in C /\ y[2] \in 1..Remaining[y[1]] /\ y = <<y[1], y[2]>>
    BY <1>3
  <2>2. /\ Ahead(C, x[1]) \in Nat /\ Remaining[x[1]] \in Int
        /\ Ahead(C, y[1]) \in Nat /\ Remaining[y[1]] \in Int
    BY <1>1, <2>1
  <2>3. Ahead(C, x[1]) + x[2] = Ahead(C, y[1]) + y[2]
    BY <1>5
  <2>4. ~Precedes(x[1], y[1])
    <3>1. Precedes(x[1], y[1]) => Ahead(C, x[1]) + Remaining[x[1]] =< Ahead(C, y[1])
      BY <2>1, AheadGrows
    <3> QED
      BY <2>1, <2>2, <2>3, <3>1
  <2>5. ~Precedes(y[1], x[1])
    <3>1. Precedes(y[1], x[1]) => Ahead(C, y[1]) + Remaining[y[1]] =< Ahead(C, x[1])
      BY <2>1, AheadGrows
    <3> QED
      BY <2>1, <2>2, <2>3, <3>1
  <2>6. x[1] = y[1]
    BY <2>1, <2>4, <2>5, FifoOrder
  <2>7. x[2] = y[2]
    BY <2>1, <2>2, <2>3, <2>6
  <2> QED
    BY <2>1, <2>6, <2>7
<1>6. f \in Injection(P, 1..N)
  BY <1>4, <1>5 DEF Injection, IsInjective
<1>7. IsFiniteSet(1..N) /\ Cardinality(1..N) = N
  BY <1>2, FS_Interval
<1>8. f \in Surjection(P, 1..N)
  <2> HIDE DEF f, P, N
  <2> QED
    BY <1>2, <1>6, <1>7, FS_Injection
<1>9. ASSUME NEW n \in 1..N
      PROVE  \E l \in C : \E k \in 1..Remaining[l] : Ahead(C, l) + k = n
  <2>1. PICK x \in P : f[x] = n
    BY <1>8 DEF Surjection
  <2> QED
    BY <1>3, <2>1
<1> QED
  BY <1>9

(* A receive that the capacity check lets through draws exactly the pieces *)
(* asked for.                                                              *)
THEOREM FifoDrawsAll ==
  ASSUME TypeOK, NEW C \in SUBSET Line, \A l \in C : Remaining[l] > 0,
         NEW q \in Nat, q =< SumOf(C, Remaining)
  PROVE  SumOf(Drawn(C, q), [l \in Line |-> Take(C, q, l)]) = q
<1> DEFINE t == [l \in Line |-> Take(C, q, l)]
           D == Drawn(C, q)
           P == Pieces(D, t)
           g == [x \in P |-> Ahead(C, x[1]) + x[2]]
<1>1. \A l \in Line : /\ Remaining[l] \in Int
                     /\ Ahead(C, l) \in Nat
                     /\ Take(C, q, l) \in Int
                     /\ t[l] = Take(C, q, l)
  <2>1. \A l \in Line : Ahead(C, l) \in Nat /\ Take(C, q, l) \in Int
    BY TakeBounds
  <2> QED
    BY <2>1 DEF TypeOK, Remaining
<1>2. IsFiniteSet(D) /\ D \subseteq C
  BY ConstantsAssumption, FS_Subset DEF Drawn
<1>3. IsFiniteSet(P)
  <2>1. \A l \in D : t[l] \in Int
    BY <1>1, <1>2
  <2> QED
    BY <1>2, <2>1, SumType
<1>4. \A x \in P : /\ x[1] \in D /\ x[2] \in 1..Take(C, q, x[1])
                  /\ x = <<x[1], x[2]>>
  <2> SUFFICES ASSUME NEW x \in P
               PROVE  x[1] \in D /\ x[2] \in 1..Take(C, q, x[1]) /\ x = <<x[1], x[2]>>
    OBVIOUS
  <2>1. PICK l \in D : x \in {l} \X (1..t[l])
    BY DEF Pieces
  <2>2. t[l] = Take(C, q, l)
    BY <1>1, <1>2
  <2> QED
    BY <2>1, <2>2
<1>5. g \in [P -> 1..q]
  <2> SUFFICES ASSUME NEW x \in P PROVE Ahead(C, x[1]) + x[2] \in 1..q
    OBVIOUS
  <2>1. x[1] \in Line /\ x[2] \in 1..Take(C, q, x[1])
    BY <1>2, <1>4
  <2>2. Ahead(C, x[1]) \in Nat /\ Remaining[x[1]] \in Int /\ Take(C, q, x[1]) \in Int
    BY <1>1, <2>1
  <2> QED
    BY <2>1, <2>2 DEF Take, Least, Greatest
<1>6. ASSUME NEW x \in P, NEW y \in P, g[x] = g[y]
      PROVE  x = y
  <2>1. /\ x[1] \in C /\ x[2] \in 1..Take(C, q, x[1]) /\ x = <<x[1], x[2]>>
        /\ y[1] \in C /\ y[2] \in 1..Take(C, q, y[1]) /\ y = <<y[1], y[2]>>
    BY <1>2, <1>4
  <2>2. /\ Ahead(C, x[1]) \in Nat /\ Remaining[x[1]] \in Int
        /\ Ahead(C, y[1]) \in Nat /\ Remaining[y[1]] \in Int
        /\ Take(C, q, x[1]) =< Remaining[x[1]] /\ Take(C, q, x[1]) \in Int
        /\ Take(C, q, y[1]) =< Remaining[y[1]] /\ Take(C, q, y[1]) \in Int
    BY <2>1, TakeBounds
  <2>3. Ahead(C, x[1]) + x[2] = Ahead(C, y[1]) + y[2]
    BY <1>6
  <2>4. ~Precedes(x[1], y[1])
    <3>1. Precedes(x[1], y[1]) => Ahead(C, x[1]) + Remaining[x[1]] =< Ahead(C, y[1])
      BY <2>1, AheadGrows
    <3> QED
      BY <2>1, <2>2, <2>3, <3>1
  <2>5. ~Precedes(y[1], x[1])
    <3>1. Precedes(y[1], x[1]) => Ahead(C, y[1]) + Remaining[y[1]] =< Ahead(C, x[1])
      BY <2>1, AheadGrows
    <3> QED
      BY <2>1, <2>2, <2>3, <3>1
  <2>6. x[1] = y[1]
    BY <2>1, <2>4, <2>5, FifoOrder
  <2>7. x[2] = y[2]
    BY <2>1, <2>2, <2>3, <2>6
  <2> QED
    BY <2>1, <2>6, <2>7
<1>7. ASSUME NEW n \in 1..q
      PROVE  \E x \in P : g[x] = n
  <2>1. SumOf(C, Remaining) \in Nat
    <3>1. IsFiniteSet(C) /\ \A l \in C : Remaining[l] \in Int
      BY <1>1, ConstantsAssumption, FS_Subset
    <3> QED
      BY <3>1, SumType
  <2>2. PICK l \in C : \E k \in 1..Remaining[l] : Ahead(C, l) + k = n
    BY <2>1, FifoPositions
  <2>3. PICK k \in 1..Remaining[l] : Ahead(C, l) + k = n
    BY <2>2
  <2>4. Ahead(C, l) \in Nat /\ Remaining[l] \in Int /\ Take(C, q, l) \in Int
    BY <1>1
  <2>5. k \in 1..Take(C, q, l)
    BY <2>3, <2>4 DEF Take, Least, Greatest
  <2>6. l \in D
    BY <2>4, <2>5 DEF Drawn
  <2>7. <<l, k>> \in P
    BY <1>1, <2>5, <2>6 DEF Pieces
  <2> QED
    BY <2>3, <2>7
<1>8. g \in Bijection(P, 1..q)
  BY <1>5, <1>6, <1>7 DEF Bijection, Injection, Surjection, IsInjective
<1>9. Cardinality(P) = Cardinality(1..q)
  <2> HIDE DEF g, P
  <2>1. ExistsBijection(P, 1..q)
    BY <1>8 DEF ExistsBijection
  <2> QED
    BY <1>3, <2>1, FS_Bijection
<1>10. Cardinality(1..q) = q
  BY FS_Interval
<1> QED
  BY <1>9, <1>10 DEF SumOf

-----------------------------------------------------------------------------
(* The ledger and its caches: reversals pair up with receipts, no receipt  *)
(* loses the rows it points at, and the quantities cached on lines and     *)
(* windows are the balance of the ledger.                                  *)

(* The ids of receipts come from past calls, one receipt per call and      *)
(* line, and only receipts are linked.                                     *)
IdsSpent ==
    /\ IsFiniteSet(receipts)
    /\ \A r \in receipts : r.id[1] =< calls /\ r.id[2] = r.line
    /\ \A id \in ReceiptId : id[1] > calls => voidedBy[id] = NoReceipt

LedgerInv == TypeOK /\ IdsSpent /\ ReversalsPair

(* The receipts that can still be cancelled, on a line and in a window.    *)
Qty == [r \in Receipt |-> r.qty]
LiveOn(l) == {r \in receipts : r.line = l /\ Cancellable(r)}
LiveIn(w) == {r \in receipts : r.window = w /\ Cancellable(r)}

(* What the caches count: the receipts nobody has cancelled.               *)
CachesLive ==
    /\ \A l \in Line : consumed[l] = SumOf(LiveOn(l), Qty)
    /\ \A w \in Window : received[w] = SumOf(LiveIn(w), Qty)

BookInv == LedgerInv /\ LiveReceiptsHaveRows /\ CachesLive
-----------------------------------------------------------------------------
(* Reversals.                                                              *)

(* Edits of the plan and of the orders leave the ledger alone.             *)
LEMMA EditLeavesLedger ==
  ASSUME Edit
  PROVE  UNCHANGED <<receipts, voidedBy, calls>>
<1>1. ASSUME NEW p \in Pull, CreatePull(p) \/ ClosePull(p) \/ ReopenPull(p)
      PROVE  UNCHANGED <<receipts, voidedBy, calls>>
  BY <1>1 DEF CreatePull, ClosePull, ReopenPull, ledgerVars
<1>2. ASSUME NEW i \in Item, CreateItem(i) \/ UpdateItem(i) \/ DeleteItem(i)
      PROVE  UNCHANGED <<receipts, voidedBy, calls>>
  BY <1>2 DEF CreateItem, UpdateItem, DeleteItem, ledgerVars
<1>3. ASSUME NEW w \in Window, AddWindow(w) \/ UpdateWindow(w) \/ DeleteWindow(w)
      PROVE  UNCHANGED <<receipts, voidedBy, calls>>
  BY <1>3 DEF AddWindow, UpdateWindow, DeleteWindow, ledgerVars
<1>4. ASSUME NEW o \in PO, CreatePo(o) \/ ImportPo(o) \/ UpdatePo(o) \/ ClosePo(o)
      PROVE  UNCHANGED <<receipts, voidedBy, calls>>
  BY <1>4 DEF CreatePo, ImportPo, InsertPo, UpdatePo, ClosePo, ledgerVars
<1>5. ASSUME NEW l \in Line, AddLine(l) \/ DeleteLine(l)
      PROVE  UNCHANGED <<receipts, voidedBy, calls>>
  BY <1>5 DEF AddLine, DeleteLine
<1> QED
  BY <1>1, <1>2, <1>3, <1>4, <1>5 DEF Edit

(* The rows a receive adds: new ids, positive quantities, nothing linked.  *)
LEMMA ReceiveAdds ==
  ASSUME TypeOK, NEW w \in Window, NEW q \in ReceiveQty, Receive(w, q)
  PROVE  \E N : /\ receipts' = receipts \cup N
                /\ IsFiniteSet(N)
                /\ \A s \in N : /\ s \in Receipt
                                /\ s.id = <<calls + 1, s.line>>
                                /\ s.qty > 0
                                /\ s.window = w
                                /\ s.reverses = NoReceipt
                /\ \A s, t \in N : s.line = t.line => s = t
<1> DEFINE C == Candidates(w[1])
           N == {Slice(C, q, w, l) : l \in Drawn(C, q)}
<1>1. /\ C \in SUBSET Line /\ q \in Nat /\ calls < MaxCalls
      /\ receipts' = receipts \cup N
  BY ReceiveFacts
<1>2. IsFiniteSet(Drawn(C, q))
  BY <1>1, ConstantsAssumption, FS_Subset DEF Drawn
<1>3. IsFiniteSet(N)
  <2> DEFINE f == [l \in Drawn(C, q) |-> Slice(C, q, w, l)]
  <2>1. f \in Surjection(Drawn(C, q), N)
    BY DEF Surjection
  <2> HIDE DEF f, N
  <2> QED
    BY <1>2, <2>1, FS_Surjection
<1>4. \A s \in N : /\ s \in Receipt
                  /\ s.id = <<calls + 1, s.line>>
                  /\ s.qty > 0
                  /\ s.window = w
                  /\ s.reverses = NoReceipt
  BY <1>1, SliceType DEF Drawn, Slice
<1>5. \A s, t \in N : s.line = t.line => s = t
  BY DEF Slice
<1> HIDE DEF N
<1> QED
  BY <1>1, <1>3, <1>4, <1>5

(* A receive adds unlinked receipts with new ids.                          *)
LEMMA LedgerReceive ==
  ASSUME LedgerInv, NEW w \in Window, NEW q \in ReceiveQty, Receive(w, q)
  PROVE  LedgerInv'
<1>1. TypeOK' /\ TypeOK
  BY TypeReceive DEF LedgerInv
<1>2. PICK N : /\ receipts' = receipts \cup N
               /\ IsFiniteSet(N)
               /\ \A s \in N : /\ s \in Receipt
                               /\ s.id = <<calls + 1, s.line>>
                               /\ s.qty > 0
                               /\ s.window = w
                               /\ s.reverses = NoReceipt
               /\ \A s, t \in N : s.line = t.line => s = t
  BY <1>1, ReceiveAdds
<1>3. calls' = calls + 1 /\ voidedBy' = voidedBy /\ calls \in Nat
  BY <1>1, ConstantsAssumption DEF Receive, TypeOK
<1>4. \A r \in receipts : r \in Receipt /\ r.id[1] =< calls /\ r.id[2] = r.line /\ r.id[1] \in Nat
  BY <1>1, ConstantsAssumption DEF LedgerInv, IdsSpent, TypeOK, Receipt, ReceiptId
<1>5. IdsSpent'
  <2>1. IsFiniteSet(receipts')
    BY <1>2, FS_Union DEF LedgerInv, IdsSpent
  <2>2. \A r \in receipts' : r.id[1] =< calls' /\ r.id[2] = r.line
    BY <1>2, <1>3, <1>4
  <2>3. \A id \in ReceiptId : id[1] > calls' => voidedBy'[id] = NoReceipt
    BY <1>3, ConstantsAssumption DEF LedgerInv, IdsSpent, ReceiptId
  <2> QED
    BY <2>1, <2>2, <2>3 DEF IdsSpent
<1>6. ReversalsPair'
  <2>1. \A r, s \in receipts' : r.id = s.id => r = s
    BY <1>2, <1>3, <1>4 DEF LedgerInv, ReversalsPair
  <2>2. \A r \in receipts' :
          \/ r.qty > 0 /\ r.reverses = NoReceipt
          \/ \E s \in receipts' : /\ s.id = r.reverses
                                  /\ s.qty > 0
                                  /\ r = Reversal(s, r.id)
                                  /\ voidedBy'[s.id] = r.id
    BY <1>2, <1>3 DEF LedgerInv, ReversalsPair
  <2>3. \A s \in N : voidedBy[s.id] = NoReceipt
    BY <1>2, <1>3 DEF LedgerInv, IdsSpent, Receipt
  <2>4. \A s \in receipts' : voidedBy'[s.id] # NoReceipt =>
          \E r \in receipts' : r.id = voidedBy'[s.id] /\ r.reverses = s.id
    BY <1>2, <1>3, <2>3 DEF LedgerInv, ReversalsPair
  <2> QED
    BY <2>1, <2>2, <2>4 DEF ReversalsPair, Reversal
<1> QED
  BY <1>1, <1>5, <1>6 DEF LedgerInv

(* What a cancel does to the ledger.                                       *)
LEMMA CancelFacts ==
  ASSUME LedgerInv, NEW r \in receipts, Cancel(r)
  PROVE  LET rev == <<calls + 1, r.line>> IN
         /\ TypeOK'
         /\ r \in Receipt /\ r.line \in Line /\ r.window \in Window /\ r.id \in ReceiptId
         /\ r.qty \in Int /\ r.qty > 0 /\ voidedBy[r.id] = NoReceipt
         /\ rev \in ReceiptId /\ rev # NoReceipt
         /\ voidedBy[rev] = NoReceipt
         /\ \A s \in receipts : s \in Receipt /\ s.id \in ReceiptId /\ s.id # rev
         /\ Reversal(r, rev) \in Receipt
         /\ Reversal(r, rev).id = rev /\ Reversal(r, rev).qty = -r.qty
         /\ Reversal(r, rev).line = r.line /\ Reversal(r, rev).window = r.window
         /\ Reversal(r, rev).reverses = r.id
         /\ receipts' = receipts \cup {Reversal(r, rev)}
         /\ voidedBy' = [voidedBy EXCEPT ![r.id] = rev]
         /\ calls' = calls + 1 /\ calls \in Nat
<1> DEFINE rev == <<calls + 1, r.line>>
<1>1. TypeOK' /\ TypeOK
  BY TypeCancel DEF LedgerInv
<1>2. /\ r \in Receipt /\ r.line \in Line /\ r.window \in Window /\ r.id \in ReceiptId
      /\ r.qty \in Int /\ calls \in Nat /\ calls < MaxCalls
  BY <1>1, ConstantsAssumption DEF TypeOK, Receipt, Cancel
<1>3. /\ r.qty > 0 /\ voidedBy[r.id] = NoReceipt
      /\ receipts' = receipts \cup {Reversal(r, rev)}
      /\ voidedBy' = [voidedBy EXCEPT ![r.id] = rev]
      /\ calls' = calls + 1
  BY DEF Cancel, Cancellable
<1>4. rev \in ReceiptId /\ rev # NoReceipt /\ Reversal(r, rev) \in Receipt
  <2>1. rev \in ReceiptId /\ Reversal(r, rev) \in Receipt
    BY <1>1, <1>2, ReverseType
  <2>2. NoReceipt \notin ReceiptId
    BY ConstantsAssumption
  <2> QED
    BY <2>1, <2>2
<1>5. voidedBy[rev] = NoReceipt
  BY <1>2, <1>4 DEF LedgerInv, IdsSpent
<1>6. \A s \in receipts : s \in Receipt /\ s.id \in ReceiptId /\ s.id # rev
  BY <1>1, <1>2 DEF LedgerInv, IdsSpent, TypeOK, Receipt
<1>7. /\ Reversal(r, rev).id = rev /\ Reversal(r, rev).qty = -r.qty
      /\ Reversal(r, rev).line = r.line /\ Reversal(r, rev).window = r.window
      /\ Reversal(r, rev).reverses = r.id
  BY DEF Reversal
<1> QED
  BY <1>1, <1>2, <1>3, <1>4, <1>5, <1>6, <1>7

(* A cancel adds one reversal and links it both ways.                      *)
LEMMA LedgerCancel ==
  ASSUME LedgerInv, NEW r \in receipts, Cancel(r)
  PROVE  LedgerInv'
<1> DEFINE rev == <<calls + 1, r.line>>
           x == Reversal(r, rev)
<1>1. /\ TypeOK /\ TypeOK'
      /\ r.line \in Line /\ r.id \in ReceiptId /\ r.qty \in Int
      /\ r.qty > 0 /\ voidedBy[r.id] = NoReceipt
      /\ rev \in ReceiptId /\ rev # NoReceipt
      /\ voidedBy[rev] = NoReceipt
      /\ \A s \in receipts : s.id \in ReceiptId /\ s.id # rev
      /\ x.id = rev /\ x.line = r.line /\ x.reverses = r.id
      /\ receipts' = receipts \cup {x}
      /\ voidedBy' = [voidedBy EXCEPT ![r.id] = rev]
      /\ calls' = calls + 1 /\ calls \in Nat
  BY CancelFacts DEF LedgerInv
<1>2. x = Reversal(r, x.id)
  BY <1>1
<1>3. \A id \in ReceiptId : voidedBy'[id] = IF id = r.id THEN rev ELSE voidedBy[id]
  BY <1>1 DEF TypeOK
<1> HIDE DEF x
<1>4. IdsSpent'
  <2>1. IsFiniteSet(receipts')
    BY <1>1, FS_AddElement DEF LedgerInv, IdsSpent
  <2>2. \A s \in receipts' : s.id[1] =< calls' /\ s.id[2] = s.line
    BY <1>1, ConstantsAssumption DEF LedgerInv, IdsSpent, ReceiptId
  <2>3. ASSUME NEW id \in ReceiptId, id[1] > calls'
        PROVE  voidedBy'[id] = NoReceipt
    <3>1. id[1] \in Int /\ id[1] > calls
      BY <1>1, <2>3, ConstantsAssumption DEF ReceiptId
    <3>2. id # r.id
      BY <1>1, <3>1 DEF LedgerInv, IdsSpent
    <3> QED
      BY <1>3, <3>1, <3>2 DEF LedgerInv, IdsSpent
  <2> QED
    BY <2>1, <2>2, <2>3 DEF IdsSpent
<1>5. ReversalsPair'
  <2>1. \A s, t \in receipts' : s.id = t.id => s = t
    BY <1>1 DEF LedgerInv, ReversalsPair
  <2>2. ASSUME NEW s \in receipts'
        PROVE  \/ s.qty > 0 /\ s.reverses = NoReceipt
               \/ \E t \in receipts' : /\ t.id = s.reverses
                                       /\ t.qty > 0
                                       /\ s = Reversal(t, s.id)
                                       /\ voidedBy'[t.id] = s.id
    <3>1. CASE s = x
      BY <1>1, <1>2, <1>3, <3>1
    <3>2. CASE s \in receipts /\ ~(s.qty > 0 /\ s.reverses = NoReceipt)
      <4>1. PICK t \in receipts : /\ t.id = s.reverses
                                  /\ t.qty > 0
                                  /\ s = Reversal(t, s.id)
                                  /\ voidedBy[t.id] = s.id
        BY <3>2 DEF LedgerInv, ReversalsPair
      <4>2. t.id # r.id
        BY <1>1, <3>2, <4>1, ConstantsAssumption
      <4> QED
        BY <1>1, <1>3, <4>1, <4>2
    <3> QED
      BY <1>1, <3>1, <3>2
  <2>3. \A s \in receipts' : voidedBy'[s.id] # NoReceipt =>
          \E t \in receipts' : t.id = voidedBy'[s.id] /\ t.reverses = s.id
    BY <1>1, <1>3 DEF LedgerInv, ReversalsPair
  <2> QED
    BY <2>1, <2>2, <2>3 DEF ReversalsPair, Reversal
<1> QED
  BY <1>1, <1>4, <1>5 DEF LedgerInv

(* The empty ledger pairs up.                                              *)
LEMMA LedgerInit == Init => LedgerInv
<1> SUFFICES ASSUME Init PROVE LedgerInv
  OBVIOUS
<1>1. TypeOK
  BY TypeInit
<1>2. IdsSpent
  BY FS_EmptySet DEF Init, IdsSpent
<1>3. ReversalsPair
  BY DEF Init, ReversalsPair
<1> QED
  BY <1>1, <1>2, <1>3 DEF LedgerInv

(* LedgerInv is inductive.                                                 *)
LEMMA LedgerStep == LedgerInv /\ [Next]_vars => LedgerInv'
<1> SUFFICES ASSUME LedgerInv, [Next]_vars PROVE LedgerInv'
  OBVIOUS
<1>1. ASSUME UNCHANGED <<receipts, voidedBy, calls>>, TypeOK'
      PROVE  LedgerInv'
  BY <1>1 DEF LedgerInv, IdsSpent, ReversalsPair, Reversal
<1>2. CASE UNCHANGED vars
  BY <1>1, <1>2 DEF vars, pullVars, poVars, ledgerVars, LedgerInv, TypeOK
<1>3. CASE Edit
  <2>1. TypeOK'
    BY <1>3, TypePlan, TypeOrders DEF Edit, LedgerInv
  <2> QED
    BY <1>1, <1>3, <2>1, EditLeavesLedger
<1>4. ASSUME NEW w \in Window, NEW q \in ReceiveQty, Receive(w, q)
      PROVE  LedgerInv'
  BY <1>4, LedgerReceive
<1>5. ASSUME NEW r \in receipts, Cancel(r)
      PROVE  LedgerInv'
  BY <1>5, LedgerCancel
<1> QED
  BY <1>2, <1>3, <1>4, <1>5 DEF Next, Edit

(* Receipts and reversals pair up in every reachable state: no receipt is  *)
(* ever reversed twice and no reversal is reversed (CancelAsync).          *)
THEOREM ReversalsCorrect == Spec => []ReversalsPair
<1>1. LedgerInv => ReversalsPair
  BY DEF LedgerInv
<1> QED
  BY <1>1, LedgerInit, LedgerStep, PTL DEF Spec

(* No row of the ledger is dropped, and a back link is written once        *)
(* (CancelAsync).                                                          *)
THEOREM AppendOnlyCorrect == Spec => AppendOnly
<1> DEFINE A == /\ receipts \subseteq receipts'
                /\ \A r \in ReceiptId : voidedBy[r] # NoReceipt => voidedBy'[r] = voidedBy[r]
<1>1. LedgerInv /\ [Next]_vars => [A]_vars
  <2> SUFFICES ASSUME LedgerInv, Next PROVE A
    BY DEF Next
  <2>1. CASE Edit
    BY <2>1, EditLeavesLedger
  <2>2. ASSUME NEW w \in Window, NEW q \in ReceiveQty, Receive(w, q)
        PROVE  A
    BY <2>2 DEF Receive
  <2>3. ASSUME NEW r \in receipts, Cancel(r)
        PROVE  A
    <3>1. /\ voidedBy[r.id] = NoReceipt
          /\ voidedBy' = [voidedBy EXCEPT ![r.id] = <<calls + 1, r.line>>]
          /\ receipts \subseteq receipts'
      BY <2>3 DEF Cancel, Cancellable
    <3> QED
      BY <3>1 DEF LedgerInv, TypeOK
  <2> QED
    BY <2>1, <2>2, <2>3 DEF Next, Edit
<1>2. AppendOnly <=> [][A]_vars
  BY DEF AppendOnly
<1> HIDE DEF A
<1> QED
  BY <1>1, <1>2, LedgerInit, LedgerStep, PTL DEF Spec
-----------------------------------------------------------------------------
(* The caches.                                                             *)

(* Live receipts are finitely many and have quantities.                    *)
LEMMA LiveTypes ==
  ASSUME LedgerInv
  PROVE  /\ \A l : IsFiniteSet(LiveOn(l)) /\ \A r \in LiveOn(l) : Qty[r] = r.qty /\ Qty[r] \in Int
         /\ \A w : IsFiniteSet(LiveIn(w)) /\ \A r \in LiveIn(w) : Qty[r] = r.qty /\ Qty[r] \in Int
<1>1. \A r \in receipts : Qty[r] = r.qty /\ Qty[r] \in Int
  BY DEF LedgerInv, TypeOK, Receipt, Qty
<1>2. IsFiniteSet(receipts)
  BY DEF LedgerInv, IdsSpent
<1>3. \A l : LiveOn(l) \in SUBSET receipts
  BY DEF LiveOn
<1>4. \A w : LiveIn(w) \in SUBSET receipts
  BY DEF LiveIn
<1>5. (\A l : IsFiniteSet(LiveOn(l))) /\ (\A w : IsFiniteSet(LiveIn(w)))
  BY <1>2, <1>3, <1>4, FS_Subset
<1> QED
  BY <1>1, <1>3, <1>4, <1>5

(* A cache is a count, and is 0 exactly when nothing is live.              *)
LEMMA CacheFacts ==
  ASSUME LedgerInv, CachesLive
  PROVE  /\ \A l \in Line : consumed[l] \in Nat /\ (LiveOn(l) = {} => consumed[l] = 0)
         /\ \A w \in Window : received[w] \in Nat /\ (LiveIn(w) = {} <=> received[w] = 0)
<1>1. ASSUME NEW l \in Line
      PROVE  consumed[l] \in Nat /\ (LiveOn(l) = {} => consumed[l] = 0)
  <2>1. IsFiniteSet(LiveOn(l)) /\ \A r \in LiveOn(l) : Qty[r] \in Int
    BY LiveTypes
  <2>2. SumOf(LiveOn(l), Qty) \in Nat
    BY <2>1, SumType
  <2> QED
    BY <2>2, SumEmpty DEF CachesLive
<1>2. ASSUME NEW w \in Window
      PROVE  received[w] \in Nat /\ (LiveIn(w) = {} <=> received[w] = 0)
  <2>1. IsFiniteSet(LiveIn(w)) /\ \A r \in LiveIn(w) : Qty[r] \in Int
    BY LiveTypes
  <2>2. SumOf(LiveIn(w), Qty) \in Nat
    BY <2>1, SumType
  <2>3. ASSUME NEW r \in LiveIn(w)
        PROVE  SumOf(LiveIn(w), Qty) > 0
    <3>1. Qty[r] > 0
      BY LiveTypes DEF LiveIn, Cancellable
    <3> QED
      BY <2>1, <3>1, SumRemove
  <2> QED
    BY <2>2, <2>3, SumEmpty DEF CachesLive
<1> QED
  BY <1>1, <1>2

(* An edit that keeps the rows receipts need and the caches keeps BookInv. *)
LEMMA BookFrame ==
  ASSUME BookInv, TypeOK', UNCHANGED <<receipts, voidedBy, calls>>,
         \A r \in receipts : /\ item'[r.window[1]] # "none"
                             /\ ordered'[r.line] > 0
                             /\ po'[LinePo[r.line]] # "none"
                             /\ Cancellable(r) => expected'[r.window] > 0,
         \A l \in Line : consumed'[l] = consumed[l],
         \A w \in Window : received'[w] = received[w]
  PROVE  BookInv'
<1>1. LedgerInv'
  BY DEF BookInv, LedgerInv, IdsSpent, ReversalsPair, Reversal
<1>2. LiveReceiptsHaveRows'
  BY DEF LiveReceiptsHaveRows, Cancellable
<1>3. \A l, w : LiveOn(l)' = LiveOn(l) /\ LiveIn(w)' = LiveIn(w)
  BY DEF LiveOn, LiveIn, Cancellable
<1>4. CachesLive'
  BY <1>3 DEF BookInv, CachesLive
<1> QED
  BY <1>1, <1>2, <1>4 DEF BookInv

(* What BookInv says of receipts, spelled out for the edits.               *)
LEMMA BookRows ==
  ASSUME BookInv
  PROVE  /\ TypeOK
         /\ \A r \in receipts : /\ r \in Receipt /\ r.window \in Window /\ r.line \in Line
                                /\ item[r.window[1]] # "none"
                                /\ ordered[r.line] > 0
                                /\ po[LinePo[r.line]] # "none"
                                /\ Cancellable(r) => expected[r.window] > 0
         /\ \A l \in Line : consumed[l] \in Nat /\ (LiveOn(l) = {} => consumed[l] = 0)
         /\ \A w \in Window : received[w] \in Nat /\ (LiveIn(w) = {} <=> received[w] = 0)
<1>1. /\ \A l \in Line : consumed[l] \in Nat /\ (LiveOn(l) = {} => consumed[l] = 0)
      /\ \A w \in Window : received[w] \in Nat /\ (LiveIn(w) = {} <=> received[w] = 0)
  BY CacheFacts DEF BookInv
<1>2. \A r \in receipts : r \in Receipt /\ r.window \in Window /\ r.line \in Line
  BY DEF BookInv, LedgerInv, TypeOK, Receipt
<1> QED
  BY <1>1, <1>2 DEF BookInv, LedgerInv, LiveReceiptsHaveRows

(* Edits of the plan keep every row a live receipt points at.              *)
LEMMA BookPlan ==
  ASSUME BookInv,
         \/ \E p \in Pull : CreatePull(p) \/ ClosePull(p) \/ ReopenPull(p)
         \/ \E i \in Item : CreateItem(i) \/ UpdateItem(i) \/ DeleteItem(i)
         \/ \E w \in Window : AddWindow(w) \/ UpdateWindow(w) \/ DeleteWindow(w)
  PROVE  BookInv'
<1>1. TypeOK /\ TypeOK'
  BY TypePlan DEF BookInv, LedgerInv
<1>2. UNCHANGED <<receipts, voidedBy, calls>>
  BY EditLeavesLedger DEF Edit
<1>3. ASSUME NEW p \in Pull, CreatePull(p) \/ ClosePull(p) \/ ReopenPull(p)
      PROVE  BookInv'
  <2>1. UNCHANGED <<item, expected, po, ordered, consumed, received>>
    BY <1>3 DEF CreatePull, ClosePull, ReopenPull, poVars, ledgerVars
  <2> QED
    BY <1>1, <1>2, <2>1, BookRows, BookFrame
<1>4. ASSUME NEW i \in Item, CreateItem(i)
      PROVE  BookInv'
  <2>1. /\ item[i] = "none" /\ item' = [item EXCEPT ![i] = "normal"]
        /\ UNCHANGED <<po, ordered, consumed, received>>
    BY <1>4 DEF CreateItem, poVars, ledgerVars
  <2>2. PICK H \in SUBSET Hour : \E q \in [H -> WindowQty] :
          expected' = [w \in Window |-> IF w \in {i} \X H THEN q[w[2]] ELSE expected[w]]
    BY <1>4 DEF CreateItem
  <2>3. PICK q \in [H -> WindowQty] :
          expected' = [w \in Window |-> IF w \in {i} \X H THEN q[w[2]] ELSE expected[w]]
    BY <2>2
  <2>4. \A r \in receipts : r.window \in Window /\ r.window[1] # i
    BY <2>1, BookRows
  <2>5. \A r \in receipts : expected'[r.window] = expected[r.window]
    BY <2>3, <2>4
  <2>6. \A r \in receipts : item'[r.window[1]] = item[r.window[1]]
    BY <1>1, <2>1, <2>4, WindowParts DEF TypeOK
  <2> QED
    BY <1>1, <1>2, <2>1, <2>5, <2>6, BookRows, BookFrame
<1>5. ASSUME NEW i \in Item, UpdateItem(i)
      PROVE  BookInv'
  <2>1. UNCHANGED <<expected, po, ordered, consumed, received>>
    BY <1>5 DEF UpdateItem, poVars, ledgerVars
  <2>2. \A j \in Item : item[j] # "none" => item'[j] # "none"
    BY <1>1, <1>5 DEF UpdateItem, TypeOK
  <2>3. \A r \in receipts : item'[r.window[1]] # "none"
    BY <2>2, BookRows, WindowParts
  <2> QED
    BY <1>1, <1>2, <2>1, <2>3, BookRows, BookFrame
<1>6. ASSUME NEW i \in Item, DeleteItem(i)
      PROVE  BookInv'
  <2>1. /\ item' = [item EXCEPT ![i] = "none"]
        /\ expected' = [w \in Window |-> IF w \in WindowsOf(i) THEN 0 ELSE expected[w]]
        /\ received' = [w \in Window |-> IF w \in WindowsOf(i) THEN 0 ELSE received[w]]
        /\ UNCHANGED <<po, ordered, consumed>>
    BY <1>6 DEF DeleteItem, poVars
  <2>2. \A r \in receipts : r.window[1] # i
    BY <1>6 DEF DeleteItem, ItemUnreferenced, ReceiptsOf
  <2>3. \A r \in receipts : /\ item'[r.window[1]] = item[r.window[1]]
                            /\ expected'[r.window] = expected[r.window]
    BY <1>1, <2>1, <2>2, BookRows, WindowParts DEF TypeOK, WindowsOf
  <2>4. \A w \in WindowsOf(i) : LiveIn(w) = {}
    BY <2>2 DEF LiveIn, WindowsOf
  <2>5. \A w \in Window : received'[w] = received[w]
    BY <2>1, <2>4, BookRows
  <2> QED
    BY <1>1, <1>2, <2>1, <2>3, <2>5, BookRows, BookFrame
<1>7. ASSUME NEW v \in Window, AddWindow(v)
      PROVE  BookInv'
  <2>1. PICK q \in WindowQty : expected' = [expected EXCEPT ![v] = q]
    BY <1>7 DEF AddWindow
  <2>2. /\ expected[v] = 0 /\ received' = [received EXCEPT ![v] = 0]
        /\ UNCHANGED <<item, po, ordered, consumed>>
    BY <1>7 DEF AddWindow, poVars
  <2>3. LiveIn(v) = {}
    BY <2>2, BookRows DEF LiveIn
  <2>4. \A w \in Window : received'[w] = received[w]
    BY <1>1, <2>2, <2>3, BookRows DEF TypeOK
  <2>5. \A r \in receipts : Cancellable(r) => expected'[r.window] > 0
    BY <1>1, <2>1, <2>2, BookRows DEF TypeOK
  <2> QED
    BY <1>1, <1>2, <2>2, <2>4, <2>5, BookRows, BookFrame
<1>8. ASSUME NEW v \in Window, UpdateWindow(v)
      PROVE  BookInv'
  <2>1. PICK q \in WindowQty : expected' = [expected EXCEPT ![v] = q]
    BY <1>8 DEF UpdateWindow
  <2>2. q > 0
    BY ConstantsAssumption
  <2>3. UNCHANGED <<item, po, ordered, consumed, received>>
    BY <1>8 DEF UpdateWindow, poVars, ledgerVars
  <2>4. \A r \in receipts : Cancellable(r) => expected'[r.window] > 0
    BY <1>1, <2>1, <2>2, BookRows DEF TypeOK
  <2> QED
    BY <1>1, <1>2, <2>3, <2>4, BookRows, BookFrame
<1>9. ASSUME NEW v \in Window, DeleteWindow(v)
      PROVE  BookInv'
  <2>1. /\ received[v] =< 0
        /\ expected' = [expected EXCEPT ![v] = 0]
        /\ received' = [received EXCEPT ![v] = 0]
        /\ UNCHANGED <<item, po, ordered, consumed>>
    BY <1>9 DEF DeleteWindow, poVars
  <2>2. received[v] = 0 /\ LiveIn(v) = {}
    BY <2>1, BookRows
  <2>3. \A w \in Window : received'[w] = received[w]
    BY <1>1, <2>1, <2>2 DEF TypeOK
  <2>4. \A r \in receipts : Cancellable(r) => r.window # v
    BY <2>2 DEF LiveIn
  <2>5. \A r \in receipts : Cancellable(r) => expected'[r.window] > 0
    BY <1>1, <2>1, <2>4, BookRows DEF TypeOK
  <2> QED
    BY <1>1, <1>2, <2>1, <2>3, <2>5, BookRows, BookFrame
<1> QED
  BY <1>3, <1>4, <1>5, <1>6, <1>7, <1>8, <1>9

-----------------------------------------------------------------------------
(* BookInv is inductive: through edits of the orders, receives and cancels *)
(* the caches count the live receipts, and so balance the ledger.          *)

(* Edits of the orders keep every line a receipt points at.                *)
LEMMA BookOrders ==
  ASSUME BookInv,
         \/ \E o \in PO : CreatePo(o) \/ ImportPo(o) \/ UpdatePo(o) \/ ClosePo(o)
         \/ \E l \in Line : AddLine(l) \/ DeleteLine(l)
  PROVE  BookInv'
<1>1. TypeOK /\ TypeOK'
  BY TypeOrders DEF BookInv, LedgerInv
<1>2. UNCHANGED <<receipts, voidedBy, calls>>
  BY EditLeavesLedger DEF Edit
<1>3. \A l \in Line : LinePo[l] \in PO
  BY ConstantsAssumption
<1>4. ASSUME NEW o \in PO, NEW L \in SUBSET LinesOf(o), InsertPo(o, L)
      PROVE  BookInv'
  <2>1. PICK q \in [L -> OrderQty] :
          ordered' = [l \in Line |-> IF l \in L THEN q[l] ELSE ordered[l]]
    BY <1>4 DEF InsertPo
  <2>2. /\ po[o] = "none" /\ po' = [po EXCEPT ![o] = "open"]
        /\ UNCHANGED <<item, expected, consumed, received>>
    BY <1>4 DEF InsertPo, pullVars, ledgerVars
  <2>3. \A r \in receipts : LinePo[r.line] # o /\ r.line \in Line
    BY <2>2, BookRows
  <2>4. \A r \in receipts : ordered'[r.line] = ordered[r.line]
    BY <2>1, <2>3 DEF LinesOf
  <2>5. \A r \in receipts : po'[LinePo[r.line]] = po[LinePo[r.line]]
    BY <1>1, <1>3, <2>2, <2>3 DEF TypeOK
  <2> QED
    BY <1>1, <1>2, <2>2, <2>4, <2>5, BookRows, BookFrame
<1>5. ASSUME NEW o \in PO, CreatePo(o) \/ ImportPo(o)
      PROVE  BookInv'
  BY <1>4, <1>5 DEF CreatePo, ImportPo
<1>6. ASSUME NEW o \in PO, UpdatePo(o) \/ ClosePo(o)
      PROVE  BookInv'
  <2>1. UNCHANGED <<item, expected, ordered, consumed, received>>
    BY <1>6 DEF UpdatePo, ClosePo, pullVars, ledgerVars
  <2>2. \A x \in PO : po[x] # "none" => po'[x] # "none"
    BY <1>1, <1>6 DEF UpdatePo, ClosePo, TypeOK
  <2>3. \A r \in receipts : po'[LinePo[r.line]] # "none"
    BY <1>3, <2>2, BookRows
  <2> QED
    BY <1>1, <1>2, <2>1, <2>3, BookRows, BookFrame
<1>7. ASSUME NEW l \in Line, AddLine(l)
      PROVE  BookInv'
  <2>1. PICK q \in OrderQty : ordered' = [ordered EXCEPT ![l] = q]
    BY <1>7 DEF AddLine
  <2>2. /\ ordered[l] = 0 /\ consumed' = [consumed EXCEPT ![l] = 0]
        /\ UNCHANGED <<item, expected, po, received>>
    BY <1>7 DEF AddLine, pullVars
  <2>3. \A r \in receipts : r.line # l
    BY <2>2, BookRows
  <2>4. consumed[l] = 0
    BY <2>3, BookRows DEF LiveOn
  <2>5. \A m \in Line : consumed'[m] = consumed[m]
    BY <1>1, <2>2, <2>4 DEF TypeOK
  <2>6. \A r \in receipts : ordered'[r.line] = ordered[r.line]
    BY <1>1, <2>1, <2>3, BookRows DEF TypeOK
  <2> QED
    BY <1>1, <1>2, <2>2, <2>5, <2>6, BookRows, BookFrame
<1>8. ASSUME NEW l \in Line, DeleteLine(l)
      PROVE  BookInv'
  <2>1. /\ ordered' = [ordered EXCEPT ![l] = 0] /\ consumed' = [consumed EXCEPT ![l] = 0]
        /\ UNCHANGED <<item, expected, po, received>>
    BY <1>8 DEF DeleteLine, pullVars
  <2>2. \A r \in receipts : r.line # l
    BY <1>8 DEF DeleteLine, LineUnreferenced, ReceiptsOn
  <2>3. consumed[l] = 0
    BY <2>2, BookRows DEF LiveOn
  <2>4. \A m \in Line : consumed'[m] = consumed[m]
    BY <1>1, <2>1, <2>3 DEF TypeOK
  <2>5. \A r \in receipts : ordered'[r.line] = ordered[r.line]
    BY <1>1, <2>1, <2>2, BookRows DEF TypeOK
  <2> QED
    BY <1>1, <1>2, <2>1, <2>4, <2>5, BookRows, BookFrame
<1> QED
  BY <1>5, <1>6, <1>7, <1>8
-----------------------------------------------------------------------------
(* Receives and cancels.                                                   *)

(* A cancel takes its receipt, and only it, off the live receipts.         *)
LEMMA BookCancel ==
  ASSUME BookInv, NEW r \in receipts, Cancel(r)
  PROVE  BookInv'
<1> DEFINE rev == <<calls + 1, r.line>>
<1>1. LedgerInv /\ LedgerInv' /\ TypeOK
  BY LedgerCancel DEF BookInv, LedgerInv
<1>2. /\ r.line \in Line /\ r.window \in Window /\ r.id \in ReceiptId
      /\ r.qty \in Int /\ r.qty > 0 /\ voidedBy[r.id] = NoReceipt
      /\ rev # NoReceipt
      /\ \A s \in receipts : s.id \in ReceiptId
      /\ voidedBy' = [voidedBy EXCEPT ![r.id] = rev]
  BY <1>1, CancelFacts
<1>0. PICK x : /\ x.qty = -r.qty /\ x.line = r.line /\ x.window = r.window
               /\ receipts' = receipts \cup {x}
  BY <1>1, CancelFacts
<1>3. \A s \in receipts' : Cancellable(s)' <=> s \in receipts /\ Cancellable(s) /\ s # r
  <2>1. ASSUME NEW s \in receipts
        PROVE  Cancellable(s)' <=> Cancellable(s) /\ s # r
    <3>1. CASE s = r
      BY <1>1, <1>2, <3>1 DEF Cancellable, TypeOK
    <3>2. CASE s # r
      <4>1. s.id # r.id
        BY <1>1, <3>2 DEF LedgerInv, ReversalsPair
      <4>2. voidedBy'[s.id] = voidedBy[s.id]
        BY <1>1, <1>2, <4>1 DEF TypeOK
      <4> QED
        BY <3>2, <4>2 DEF Cancellable
    <3> QED
      BY <3>1, <3>2
  <2>2. ~Cancellable(x)' /\ ~Cancellable(x)
    BY <1>2, <1>0 DEF Cancellable
  <2> QED
    BY <1>0, <2>1, <2>2
<1>4. LiveReceiptsHaveRows'
  <2>1. UNCHANGED <<item, expected, ordered>>
    BY DEF Cancel
  <2>2. \A o \in PO : po[o] # "none" => po'[o] # "none"
    BY <1>1 DEF Cancel, Reopened, TypeOK
  <2>3. \A l \in Line : LinePo[l] \in PO
    BY ConstantsAssumption
  <2>4. \A s \in receipts' : \E t \in receipts : s.line = t.line /\ s.window = t.window
    BY <1>0
  <2> QED
    BY <1>2, <1>3, <2>1, <2>2, <2>3, <2>4, BookRows DEF LiveReceiptsHaveRows
<1>5. ASSUME NEW l \in Line
      PROVE  consumed'[l] = SumOf(LiveOn(l)', Qty)
  <2>1. LiveOn(l)' = LiveOn(l) \ {r}
    BY <1>0, <1>3 DEF LiveOn
  <2>2. IsFiniteSet(LiveOn(l)) /\ \A s \in LiveOn(l) : Qty[s] = s.qty /\ Qty[s] \in Int
    BY <1>1, LiveTypes
  <2>3. consumed' = [consumed EXCEPT ![r.line] = consumed[r.line] - r.qty]
    BY DEF Cancel, Restored
  <2>4. CASE l = r.line
    <3>1. r \in LiveOn(l)
      BY <1>2, <2>4 DEF LiveOn, Cancellable
    <3>2. SumOf(LiveOn(l) \ {r}, Qty) = SumOf(LiveOn(l), Qty) - Greatest(0, Qty[r])
      BY <2>2, <3>1, SumRemove
    <3>3. Greatest(0, Qty[r]) = r.qty
      BY <1>2, <2>2, <3>1 DEF Greatest
    <3>4. consumed'[l] = consumed[l] - r.qty
      BY <1>1, <2>3, <2>4 DEF TypeOK
    <3> QED
      BY <2>1, <3>2, <3>3, <3>4 DEF BookInv, CachesLive
  <2>5. CASE l # r.line
    <3>1. LiveOn(l) \ {r} = LiveOn(l)
      BY <2>5 DEF LiveOn
    <3>2. consumed'[l] = consumed[l]
      BY <1>1, <2>3, <2>5 DEF TypeOK
    <3> QED
      BY <2>1, <3>1, <3>2 DEF BookInv, CachesLive
  <2> QED
    BY <2>4, <2>5
<1>6. ASSUME NEW w \in Window
      PROVE  received'[w] = SumOf(LiveIn(w)', Qty)
  <2>1. LiveIn(w)' = LiveIn(w) \ {r}
    BY <1>0, <1>3 DEF LiveIn
  <2>2. IsFiniteSet(LiveIn(w)) /\ \A s \in LiveIn(w) : Qty[s] = s.qty /\ Qty[s] \in Int
    BY <1>1, LiveTypes
  <2>3. received' = [received EXCEPT ![r.window] = received[r.window] - r.qty]
    BY DEF Cancel
  <2>4. CASE w = r.window
    <3>1. r \in LiveIn(w)
      BY <1>2, <2>4 DEF LiveIn, Cancellable
    <3>2. SumOf(LiveIn(w) \ {r}, Qty) = SumOf(LiveIn(w), Qty) - Greatest(0, Qty[r])
      BY <2>2, <3>1, SumRemove
    <3>3. Greatest(0, Qty[r]) = r.qty
      BY <1>2, <2>2, <3>1 DEF Greatest
    <3>4. received'[w] = received[w] - r.qty
      BY <1>1, <2>3, <2>4 DEF TypeOK
    <3> QED
      BY <2>1, <3>2, <3>3, <3>4 DEF BookInv, CachesLive
  <2>5. CASE w # r.window
    <3>1. LiveIn(w) \ {r} = LiveIn(w)
      BY <2>5 DEF LiveIn
    <3>2. received'[w] = received[w]
      BY <1>1, <2>3, <2>5 DEF TypeOK
    <3> QED
      BY <2>1, <3>1, <3>2 DEF BookInv, CachesLive
  <2> QED
    BY <2>4, <2>5
<1> QED
  BY <1>1, <1>4, <1>5, <1>6 DEF BookInv, CachesLive, Qty

(* The slices of a receive are fresh, live and worth the quantity asked    *)
(* for.                                                                    *)
LEMMA ReceiveSlices ==
  ASSUME BookInv, NEW w \in Window, NEW q \in ReceiveQty, Receive(w, q)
  PROVE  LET C == Candidates(w[1])
             N == {Slice(C, q, w, l) : l \in Drawn(C, q)}
         IN  /\ receipts' = receipts \cup N
             /\ N \cap receipts = {}
             /\ IsFiniteSet(N)
             /\ \A s \in N : Qty[s] = s.qty /\ Qty[s] \in Int
             /\ \A s \in N : s.qty > 0 /\ voidedBy[s.id] = NoReceipt
             /\ SumOf(N, Qty) = q
<1> DEFINE C == Candidates(w[1])
           D == Drawn(C, q)
           N == {Slice(C, q, w, l) : l \in D}
           f == [l \in D |-> Slice(C, q, w, l)]
           t == [l \in Line |-> Take(C, q, l)]
<1>1. TypeOK /\ IdsSpent
  BY DEF BookInv, LedgerInv
<1>2. /\ C \in SUBSET Line /\ q \in Nat /\ calls < MaxCalls
      /\ receipts' = receipts \cup N
      /\ q =< SumOf(C, Remaining)
  BY <1>1, ReceiveFacts
<1>3. \A l \in C : Remaining[l] > 0
  BY DEF Candidates
<1>4. D \in SUBSET Line /\ IsFiniteSet(D)
  BY <1>2, ConstantsAssumption, FS_Subset DEF Drawn
<1>5. f \in Bijection(D, N)
  BY DEF Slice, Bijection, Injection, Surjection, IsInjective
<1>6. IsFiniteSet(N)
  <2>1. f \in Surjection(D, N)
    BY <1>5 DEF Bijection
  <2> HIDE DEF f, N, D
  <2> QED
    BY <1>4, <2>1, FS_Surjection
<1>7. \A l \in D : f[l] \in Receipt /\ f[l] = Slice(C, q, w, l)
  BY <1>1, <1>2, SliceType DEF Drawn
<1>8. ASSUME NEW s \in N
      PROVE  /\ s \notin receipts
             /\ Qty[s] = s.qty /\ Qty[s] \in Int
             /\ s.qty > 0 /\ voidedBy[s.id] = NoReceipt
  <2>1. PICK l \in D : s = Slice(C, q, w, l)
    OBVIOUS
  <2>2. s \in Receipt /\ s.id = <<calls + 1, l>> /\ s.qty > 0
    BY <1>7, <2>1 DEF Slice, Drawn
  <2>3. s.id \in ReceiptId /\ s.qty \in Int /\ Qty[s] = s.qty
    BY <2>2 DEF Receipt, Qty
  <2>4. s.id[1] > calls /\ \A r \in receipts : r.id[1] =< calls /\ r.id[1] \in Int
    <3>1. calls \in Nat /\ \A r \in receipts : r.id \in (1..MaxCalls) \X Line
      BY <1>1, ConstantsAssumption DEF TypeOK, Receipt, ReceiptId
    <3> QED
      BY <1>1, <2>2, <3>1, ConstantsAssumption DEF IdsSpent
  <2>5. s \notin receipts
    BY <2>4, <1>1 DEF TypeOK
  <2> QED
    BY <1>1, <2>2, <2>3, <2>4, <2>5 DEF IdsSpent
<1>9. SumOf(N, Qty) = q
  <2>1. SumOf(D, t) = q
    BY <1>1, <1>2, <1>3, FifoDrawsAll
  <2>2. \A l \in D : t[l] \in Int /\ Qty[f[l]] = t[l]
    <3>1. \A l \in D : Take(C, q, l) \in Int /\ t[l] = Take(C, q, l)
      BY <1>1, <1>2, <1>4, TakeBounds
    <3>2. \A l \in D : f[l].qty = Take(C, q, l)
      BY <1>7 DEF Slice
    <3>3. \A l \in D : Qty[f[l]] = f[l].qty
      BY <1>7 DEF Qty
    <3> QED
      BY <3>1, <3>2, <3>3
  <2> HIDE DEF f, t, N, D
  <2>3. SumOf(N, Qty) = SumOf(D, t)
    BY <1>4, <1>5, <2>2, SumRenamed
  <2> QED
    BY <2>1, <2>3
<1> QED
  BY <1>2, <1>6, <1>8, <1>9

(* A receive adds its slices to the live receipts of their lines and of    *)
(* the window, and the caches follow.                                      *)
LEMMA BookReceive ==
  ASSUME BookInv, NEW w \in Window, NEW q \in ReceiveQty, Receive(w, q)
  PROVE  BookInv'
<1> DEFINE C == Candidates(w[1])
           N == {Slice(C, q, w, l) : l \in Drawn(C, q)}
<1>1. LedgerInv /\ LedgerInv' /\ TypeOK
  BY LedgerReceive DEF BookInv, LedgerInv
<1>2. /\ receipts' = receipts \cup N
      /\ N \cap receipts = {}
      /\ IsFiniteSet(N)
      /\ \A s \in N : Qty[s] = s.qty /\ Qty[s] \in Int
      /\ \A s \in N : s.qty > 0 /\ voidedBy[s.id] = NoReceipt
      /\ SumOf(N, Qty) = q
  BY ReceiveSlices
<1>3. \A s \in N : s.window = w /\ s.line \in Drawn(C, q) /\ s = Slice(C, q, w, s.line)
  BY DEF Slice
<1>4. \A l \in Drawn(C, q) : Slice(C, q, w, l) \in N /\ Slice(C, q, w, l).line = l
                             /\ Slice(C, q, w, l).qty = Take(C, q, l)
  BY DEF Slice
<1>5. /\ C \in SUBSET Line /\ q \in Nat
      /\ consumed' = [l \in Line |-> IF l \in Drawn(C, q) THEN consumed[l] + Take(C, q, l)
                                                          ELSE consumed[l]]
      /\ received' = [received EXCEPT ![w] = received[w] + q]
  BY <1>1, ReceiveFacts
<1>6. \A l \in Drawn(C, q) : l \in Line /\ po[LinePo[l]] = "open" /\ ordered[l] - consumed[l] > 0
  BY DEF Drawn, Candidates, Remaining
<1> HIDE DEF N, C
<1>7. \A s : Cancellable(s)' <=> Cancellable(s)
  BY DEF Receive, Cancellable
<1>8. \A s \in N : Cancellable(s)
  BY <1>2 DEF Cancellable
<1>9. LiveReceiptsHaveRows'
  <2>1. item[w[1]] # "none" /\ expected[w] > 0 /\ UNCHANGED <<item, expected, ordered>>
    BY DEF Receive
  <2>2. \A o \in PO : po[o] # "none" => po'[o] # "none"
    BY <1>1 DEF Receive, TypeOK
  <2>3. \A l \in Line : LinePo[l] \in PO
    BY ConstantsAssumption
  <2>4. \A l \in Drawn(C, q) : ordered[l] > 0
    BY <1>1, <1>6, BookRows DEF TypeOK
  <2>5. \A s \in N : /\ item'[s.window[1]] # "none" /\ ordered'[s.line] > 0
                     /\ po'[LinePo[s.line]] # "none" /\ expected'[s.window] > 0
    BY <1>3, <1>6, <2>1, <2>2, <2>3, <2>4
  <2>6. \A s \in receipts : /\ item'[s.window[1]] # "none" /\ ordered'[s.line] > 0
                            /\ po'[LinePo[s.line]] # "none"
                            /\ Cancellable(s)' => expected'[s.window] > 0
    BY <1>7, <2>1, <2>2, <2>3, BookRows
  <2> QED
    BY <1>2, <2>5, <2>6 DEF LiveReceiptsHaveRows
<1>10. ASSUME NEW l \in Line
       PROVE  consumed'[l] = SumOf(LiveOn(l)', Qty)
  <2>1. LiveOn(l)' = LiveOn(l) \cup {s \in N : s.line = l}
    BY <1>2, <1>7, <1>8 DEF LiveOn
  <2>2. IsFiniteSet(LiveOn(l)) /\ \A s \in LiveOn(l) : Qty[s] \in Int
    BY <1>1, LiveTypes
  <2>3. CASE l \in Drawn(C, q)
    <3>1. PICK x \in N : {s \in N : s.line = l} = {x} /\ x.qty = Take(C, q, l)
      BY <1>3, <1>4, <2>3
    <3>2. x \notin LiveOn(l) /\ Qty[x] = x.qty /\ x.qty > 0 /\ Qty[x] \in Int
      BY <1>2 DEF LiveOn
    <3>3. SumOf(LiveOn(l) \cup {x}, Qty) = SumOf(LiveOn(l), Qty) + Greatest(0, Qty[x])
      BY <2>2, <3>2, SumAdd
    <3>4. Greatest(0, Qty[x]) = Take(C, q, l)
      BY <3>1, <3>2 DEF Greatest
    <3>5. consumed'[l] = consumed[l] + Take(C, q, l)
      BY <1>5, <2>3
    <3> QED
      BY <2>1, <3>1, <3>3, <3>4, <3>5 DEF BookInv, CachesLive
  <2>4. CASE l \notin Drawn(C, q)
    <3>1. LiveOn(l)' = LiveOn(l)
      BY <1>3, <2>1, <2>4
    <3>2. consumed'[l] = consumed[l]
      BY <1>5, <2>4
    <3> QED
      BY <3>1, <3>2 DEF BookInv, CachesLive
  <2> QED
    BY <2>3, <2>4
<1>11. ASSUME NEW v \in Window
       PROVE  received'[v] = SumOf(LiveIn(v)', Qty)
  <2>1. LiveIn(v)' = LiveIn(v) \cup {s \in N : s.window = v}
    BY <1>2, <1>7, <1>8 DEF LiveIn
  <2>2. IsFiniteSet(LiveIn(v)) /\ \A s \in LiveIn(v) : Qty[s] \in Int
    BY <1>1, LiveTypes
  <2>3. CASE v = w
    <3>1. LiveIn(v)' = LiveIn(v) \cup N /\ LiveIn(v) \cap N = {}
      BY <1>2, <1>3, <2>1, <2>3 DEF LiveIn
    <3>2. \A s \in LiveIn(v) \cup N : Qty[s] \in Int
      BY <1>2, <2>2
    <3>3. SumOf(LiveIn(v) \cup N, Qty) = SumOf(LiveIn(v), Qty) + SumOf(N, Qty)
      BY <1>2, <2>2, <3>1, <3>2, SumDisjoint
    <3>4. received'[v] = received[v] + q
      BY <1>1, <1>5, <2>3 DEF TypeOK
    <3> QED
      BY <1>2, <3>1, <3>3, <3>4 DEF BookInv, CachesLive
  <2>4. CASE v # w
    <3>1. LiveIn(v)' = LiveIn(v)
      BY <1>3, <2>1, <2>4
    <3>2. received'[v] = received[v]
      BY <1>1, <1>5, <2>4 DEF TypeOK
    <3> QED
      BY <3>1, <3>2 DEF BookInv, CachesLive
  <2> QED
    BY <2>3, <2>4
<1> QED
  BY <1>1, <1>9, <1>10, <1>11 DEF BookInv, CachesLive, Qty

(* Nothing is live in the empty store.                                     *)
LEMMA BookInit == Init => BookInv
<1> SUFFICES ASSUME Init PROVE BookInv
  OBVIOUS
<1>1. LedgerInv
  BY LedgerInit
<1>2. receipts = {}
  BY DEF Init
<1>3. LiveReceiptsHaveRows
  BY <1>2 DEF LiveReceiptsHaveRows
<1>4. \A l, w : LiveOn(l) = {} /\ LiveIn(w) = {}
  BY <1>2 DEF LiveOn, LiveIn
<1>5. CachesLive
  BY <1>4, SumEmpty DEF Init, CachesLive
<1> QED
  BY <1>1, <1>3, <1>5 DEF BookInv

(* BookInv is inductive.                                                   *)
LEMMA BookStep == BookInv /\ [Next]_vars => BookInv'
<1> SUFFICES ASSUME BookInv, [Next]_vars PROVE BookInv'
  OBVIOUS
<1>1. CASE UNCHANGED vars
  <2>1. UNCHANGED <<receipts, voidedBy, calls, item, expected, po, ordered, consumed, received>>
    BY <1>1 DEF vars, pullVars, poVars, ledgerVars
  <2>2. LedgerInv'
    BY LedgerStep DEF BookInv
  <2> QED
    BY <2>1, <2>2, BookRows, BookFrame DEF LedgerInv
<1>2. CASE Next
  BY <1>2, BookPlan, BookOrders, BookReceive, BookCancel DEF Next
<1> QED
  BY <1>1, <1>2

(* The rows a cancel reads are there: no edit of the plan or of an order   *)
(* takes away what a live receipt points at (CancelAsync, DeleteAsync).    *)
THEOREM RowsCorrect == Spec => []LiveReceiptsHaveRows
<1>1. BookInv => LiveReceiptsHaveRows
  BY DEF BookInv
<1> QED
  BY <1>1, BookInit, BookStep, PTL DEF Spec
-----------------------------------------------------------------------------
(* What follows from BookInv.                                              *)

(* A set of receipts that holds a reversal with its receipt balances to    *)
(* what is live in it: the reversed pieces cancel out.                     *)
LEMMA NetIsLive ==
  ASSUME LedgerInv, NEW S \in SUBSET receipts,
         \A r, s \in receipts : r.line = s.line /\ r.window = s.window => (r \in S <=> s \in S)
  PROVE  Net(S) = SumOf({r \in S : Cancellable(r)}, Qty)
<1> DEFINE L == {r \in S : Cancellable(r)}
           V == {r \in S : r.qty > 0 /\ voidedBy[r.id] # NoReceipt}
           M == {r \in S : r.qty =< 0}
           q == [r \in S |-> r.qty]
           n == [r \in S |-> -r.qty]
           f == [s \in V |-> Reversal(s, voidedBy[s.id])]
<1>1. \A r \in receipts : r.qty \in Int /\ r.id \in ReceiptId /\ r.id # NoReceipt
  BY ConstantsAssumption DEF LedgerInv, TypeOK, Receipt
<1>2. /\ IsFiniteSet(S) /\ IsFiniteSet(L) /\ IsFiniteSet(V) /\ IsFiniteSet(M)
      /\ IsFiniteSet(L \cup V)
  <2>1. IsFiniteSet(S)
    BY FS_Subset DEF LedgerInv, IdsSpent
  <2> QED
    BY <2>1, FS_Subset
<1>3. S = (L \cup V) \cup M /\ (L \cup V) \cap M = {} /\ L \cap V = {}
  BY <1>1 DEF Cancellable
<1>4. \A r \in S : q[r] \in Int /\ n[r] \in Int /\ q[r] = r.qty /\ n[r] = -r.qty
  BY <1>1
<1>5. SumOf(S, q) = SumOf(L, q) + SumOf(V, q)
  <2>1. SumOf(S, q) = SumOf(L \cup V, q) + SumOf(M, q)
    <3>1. \A r \in (L \cup V) \cup M : q[r] \in Int
      BY <1>3, <1>4
    <3>2. (L \cup V) \cap M = {} /\ S = (L \cup V) \cup M
      BY <1>3
    <3> HIDE DEF L, V, M, q
    <3>3. SumOf((L \cup V) \cup M, q) = SumOf(L \cup V, q) + SumOf(M, q)
      BY <1>2, <3>1, <3>2, SumDisjoint
    <3> QED
      BY <3>2, <3>3
  <2>2. SumOf(L \cup V, q) = SumOf(L, q) + SumOf(V, q)
    <3>1. \A r \in L \cup V : q[r] \in Int
      BY <1>3, <1>4
    <3> HIDE DEF L, V, q
    <3> QED
      BY <1>2, <1>3, <3>1, SumDisjoint
  <2>3. SumOf(M, q) = 0
    <3>1. \A r \in M : q[r] \in Int /\ q[r] =< 0
      BY <1>4
    <3> QED
      BY <3>1, SumZero
  <2>4. SumOf(L, q) \in Nat /\ SumOf(V, q) \in Nat
    <3>1. (\A r \in L : q[r] \in Int) /\ (\A r \in V : q[r] \in Int)
      BY <1>4
    <3> QED
      BY <1>2, <3>1, SumType
  <2> HIDE DEF L, V, M, q
  <2> QED
    BY <2>1, <2>2, <2>3, <2>4
<1>6. SumOf(S, n) = SumOf(M, n)
  <2>1. SumOf(S, n) = SumOf(L \cup V, n) + SumOf(M, n)
    <3>1. \A r \in (L \cup V) \cup M : n[r] \in Int
      BY <1>3, <1>4
    <3>2. (L \cup V) \cap M = {} /\ S = (L \cup V) \cup M
      BY <1>3
    <3> HIDE DEF L, V, M, n
    <3>3. SumOf((L \cup V) \cup M, n) = SumOf(L \cup V, n) + SumOf(M, n)
      BY <1>2, <3>1, <3>2, SumDisjoint
    <3> QED
      BY <3>2, <3>3
  <2>2. SumOf(L \cup V, n) = 0
    <3>1. \A r \in L \cup V : n[r] \in Int /\ n[r] =< 0
      BY <1>1, <1>4 DEF Cancellable
    <3> QED
      BY <3>1, SumZero
  <2>3. SumOf(M, n) \in Nat
    <3>1. \A r \in M : n[r] \in Int
      BY <1>4
    <3> QED
      BY <1>2, <3>1, SumType
  <2> HIDE DEF L, V, M, n
  <2> QED
    BY <2>1, <2>2, <2>3
<1>7. \A s \in V : f[s] \in M
  <2> SUFFICES ASSUME NEW s \in V PROVE Reversal(s, voidedBy[s.id]) \in M
    OBVIOUS
  <2>1. PICK r \in receipts : r.id = voidedBy[s.id] /\ r.reverses = s.id
    BY DEF LedgerInv, ReversalsPair
  <2>2. PICK t \in receipts : t.id = r.reverses /\ t.qty > 0 /\ r = Reversal(t, r.id)
    BY <1>1, <2>1 DEF LedgerInv, ReversalsPair
  <2>3. t = s
    BY <2>1, <2>2 DEF LedgerInv, ReversalsPair
  <2>4. r = Reversal(s, voidedBy[s.id])
    BY <2>1, <2>2, <2>3
  <2>5. r.line = s.line /\ r.window = s.window /\ r.qty = -s.qty
    BY <2>4 DEF Reversal
  <2> QED
    BY <1>1, <2>4, <2>5
<1>8. \A s, t \in V : f[s] = f[t] => s = t
  BY DEF Reversal, LedgerInv, ReversalsPair
<1>9. \A r \in M : \E s \in V : f[s] = r
  <2> SUFFICES ASSUME NEW r \in M PROVE \E s \in V : f[s] = r
    OBVIOUS
  <2>1. PICK s \in receipts : s.qty > 0 /\ r = Reversal(s, r.id) /\ voidedBy[s.id] = r.id
    BY <1>1 DEF LedgerInv, ReversalsPair
  <2>2. r.line = s.line /\ r.window = s.window
    BY <2>1 DEF Reversal
  <2>3. s \in V
    BY <1>1, <2>1, <2>2
  <2> QED
    BY <2>1, <2>3
<1>10. SumOf(M, n) = SumOf(V, q)
  <2>1. f \in Bijection(V, M)
    <3>1. f \in [V -> M]
      BY <1>7
    <3> HIDE DEF f, V, M
    <3> QED
      BY <1>8, <1>9, <3>1 DEF Bijection, Injection, Surjection, IsInjective
  <2>2. \A s \in V : q[s] \in Int /\ n[f[s]] = q[s]
    <3>1. \A s \in V : f[s].qty = -s.qty /\ f[s] \in S
      BY <1>7 DEF Reversal
    <3>2. \A s \in V : n[f[s]] = -f[s].qty /\ s \in S
      BY <1>4, <3>1
    <3> HIDE DEF f, q, n
    <3>3. ASSUME NEW s \in V
          PROVE  q[s] \in Int /\ n[f[s]] = q[s]
      <4>1. f[s].qty = -s.qty /\ n[f[s]] = -f[s].qty /\ s \in S
        BY <3>1, <3>2
      <4>2. q[s] = s.qty /\ s.qty \in Int
        BY <1>1, <1>4, <4>1
      <4> QED
        BY <4>1, <4>2
    <3> QED
      BY <3>3
  <2> HIDE DEF f, V, M, q, n
  <2> QED
    BY <1>2, <2>1, <2>2, SumRenamed
<1>11. SumOf(L, q) = SumOf(L, Qty) /\ SumOf(L, q) \in Nat /\ SumOf(V, q) \in Nat
  <2>1. \A r \in L : q[r] = Qty[r] /\ q[r] \in Int
    BY <1>4 DEF LedgerInv, TypeOK, Qty
  <2>2. \A r \in V : q[r] \in Int
    BY <1>4
  <2> HIDE DEF L, V, q
  <2> QED
    BY <1>2, <2>1, <2>2, SumCongruent, SumType
<1> HIDE DEF L, V, M, q, n
<1>12. SumOf(S, q) - SumOf(S, n) = SumOf(L, Qty)
  BY <1>5, <1>6, <1>10, <1>11
<1> QED
  BY <1>12 DEF Net, L, q, n

(* The cached quantities balance the ledger.                               *)
LEMMA Balanced == BookInv => LinesBalance /\ WindowsBalance
<1> SUFFICES ASSUME BookInv PROVE LinesBalance /\ WindowsBalance
  OBVIOUS
<1>1. LedgerInv /\ CachesLive
  BY DEF BookInv
<1>2. ASSUME NEW l \in Line
      PROVE  consumed[l] = Net(ReceiptsOn(l))
  <2>1. Net(ReceiptsOn(l)) = SumOf({r \in ReceiptsOn(l) : Cancellable(r)}, Qty)
    BY <1>1, NetIsLive DEF ReceiptsOn
  <2>2. {r \in ReceiptsOn(l) : Cancellable(r)} = LiveOn(l)
    BY DEF ReceiptsOn, LiveOn
  <2> QED
    BY <1>1, <2>1, <2>2 DEF CachesLive
<1>3. ASSUME NEW w \in Window
      PROVE  /\ received[w] = Net({r \in receipts : r.window = w})
             /\ expected[w] = 0 => received[w] = 0
  <2> DEFINE S == {r \in receipts : r.window = w}
  <2>1. Net(S) = SumOf({r \in S : Cancellable(r)}, Qty)
    BY <1>1, NetIsLive
  <2>2. {r \in S : Cancellable(r)} = LiveIn(w)
    BY DEF LiveIn
  <2>3. expected[w] = 0 => LiveIn(w) = {}
    BY BookRows DEF LiveIn
  <2> QED
    BY <1>1, <2>1, <2>2, <2>3, BookRows DEF CachesLive
<1> QED
  BY <1>2, <1>3 DEF LinesBalance, WindowsBalance

(* A PO line's cache is the balance of the ledger on it, in every          *)
(* reachable state (ReceiveAsync, CancelAsync, DeleteLineAsync).           *)
THEOREM LinesCorrect == Spec => []LinesBalance
<1>1. BookInv => LinesBalance
  BY Balanced
<1> QED
  BY <1>1, BookInit, BookStep, PTL DEF Spec

(* So is a window's, and a window that is not there holds nothing          *)
(* (ReceiveAsync, CancelAsync, DeleteWindowAsync, DeleteItemAsync).        *)
THEOREM WindowsCorrect == Spec => []WindowsBalance
<1>1. BookInv => WindowsBalance
  BY Balanced
<1> QED
  BY <1>1, BookInit, BookStep, PTL DEF Spec

-----------------------------------------------------------------------------
(* The rules of the receiving core that rest on the balanced ledger:       *)
(* capacities, the lifecycle of pulls and POs, and the FIFO discipline.    *)

-----------------------------------------------------------------------------
(* Capacities.                                                             *)

(* What a line may hold; that it holds no less than nothing is BookInv's.  *)
WithinOrder == \A l \in Line : consumed[l] =< ordered[l]

(* No step pushes a line beyond its order.                                 *)
LEMMA CapacityStep ==
  ASSUME BookInv, WithinOrder, [Next]_vars
  PROVE  WithinOrder'
<1>1. /\ TypeOK
      /\ \A l \in Line : consumed[l] \in Nat /\ ordered[l] \in Nat /\ consumed[l] =< ordered[l]
  BY BookRows DEF WithinOrder, TypeOK
<1>2. SUFFICES \A l \in Line : consumed'[l] =< ordered'[l]
  BY DEF WithinOrder
<1>3. CASE UNCHANGED <<consumed, ordered>>
  BY <1>1, <1>3
<1>4. ASSUME NEW o \in PO, NEW L \in SUBSET LinesOf(o), InsertPo(o, L), NEW l \in Line
      PROVE  consumed'[l] =< ordered'[l]
  <2>1. PICK q \in [L -> OrderQty] :
          ordered' = [m \in Line |-> IF m \in L THEN q[m] ELSE ordered[m]]
    BY <1>4 DEF InsertPo
  <2>2. po[o] = "none" /\ consumed' = consumed
    BY <1>4 DEF InsertPo, ledgerVars
  <2>3. CASE l \in L
    <3>1. LiveOn(l) = {}
      BY <2>2, <2>3, BookRows DEF LinesOf, LiveOn
    <3>2. consumed[l] = 0
      BY <3>1, BookRows
    <3>3. ordered'[l] \in Nat
      BY <2>1, <2>3, ConstantsAssumption
    <3> QED
      BY <2>2, <3>2, <3>3
  <2>4. CASE l \notin L
    BY <1>1, <2>1, <2>2, <2>4
  <2> QED
    BY <2>3, <2>4
<1>5. ASSUME NEW m \in Line, AddLine(m) \/ DeleteLine(m), NEW l \in Line
      PROVE  consumed'[l] =< ordered'[l]
  <2>1. \E q \in Nat : ordered' = [ordered EXCEPT ![m] = q]
    BY <1>5, ConstantsAssumption DEF AddLine, DeleteLine
  <2>2. consumed' = [consumed EXCEPT ![m] = 0]
    BY <1>5 DEF AddLine, DeleteLine
  <2> QED
    BY <1>1, <2>1, <2>2 DEF TypeOK
<1>6. ASSUME NEW w \in Window, NEW q \in ReceiveQty, Receive(w, q), NEW l \in Line
      PROVE  consumed'[l] =< ordered'[l]
  <2> DEFINE C == Candidates(w[1])
  <2>1. /\ C \in SUBSET Line /\ q \in Nat
        /\ consumed' = [m \in Line |-> IF m \in Drawn(C, q) THEN consumed[m] + Take(C, q, m)
                                                            ELSE consumed[m]]
    BY <1>1, <1>6, ReceiveFacts
  <2>2. ordered' = ordered
    BY <1>6 DEF Receive
  <2> HIDE DEF C
  <2>3. Take(C, q, l) \in Int /\ Take(C, q, l) =< ordered[l] - consumed[l]
    BY <1>1, <2>1, TakeBounds DEF Remaining
  <2> QED
    BY <1>1, <2>1, <2>2, <2>3
<1>7. ASSUME NEW r \in receipts, Cancel(r), NEW l \in Line
      PROVE  consumed'[l] =< ordered'[l]
  <2>1. /\ consumed' = [consumed EXCEPT ![r.line] = consumed[r.line] - r.qty]
        /\ ordered' = ordered /\ r.qty > 0
    BY <1>7 DEF Cancel, Restored, Cancellable
  <2>2. r.line \in Line /\ r.qty \in Int
    BY <1>1 DEF TypeOK, Receipt
  <2> QED
    BY <1>1, <2>1, <2>2 DEF TypeOK
<1>8. ASSUME NEW p \in Pull, CreatePull(p) \/ ClosePull(p) \/ ReopenPull(p)
      PROVE  UNCHANGED <<consumed, ordered>>
  BY <1>8 DEF CreatePull, ClosePull, ReopenPull, poVars, ledgerVars
<1>9. ASSUME NEW i \in Item, CreateItem(i) \/ UpdateItem(i) \/ DeleteItem(i)
      PROVE  UNCHANGED <<consumed, ordered>>
  BY <1>9 DEF CreateItem, UpdateItem, DeleteItem, poVars, ledgerVars
<1>10. ASSUME NEW w \in Window, AddWindow(w) \/ UpdateWindow(w) \/ DeleteWindow(w)
       PROVE  UNCHANGED <<consumed, ordered>>
  BY <1>10 DEF AddWindow, UpdateWindow, DeleteWindow, poVars, ledgerVars
<1>11. ASSUME NEW o \in PO, UpdatePo(o) \/ ClosePo(o)
       PROVE  UNCHANGED <<consumed, ordered>>
  BY <1>11 DEF UpdatePo, ClosePo, ledgerVars
<1>12. ASSUME NEW o \in PO, CreatePo(o) \/ ImportPo(o), NEW l \in Line
       PROVE  consumed'[l] =< ordered'[l]
  BY <1>4, <1>12 DEF CreatePo, ImportPo
<1>13. CASE UNCHANGED vars
  BY <1>3, <1>13 DEF vars, poVars, ledgerVars
<1> QED
  BY <1>3, <1>5, <1>6, <1>7, <1>8, <1>9, <1>10, <1>11, <1>12, <1>13 DEF Next

(* CK_POL_Caps never has to refuse: receives, cancels and line edits keep  *)
(* every line between 0 and its order (ReceiveAsync, CancelAsync).         *)
THEOREM CapacityCorrect == Spec => []CapacityRespected
<1>1. Init => WithinOrder
  BY DEF Init, WithinOrder
<1>2. BookInv /\ WithinOrder /\ [Next]_vars => WithinOrder'
  BY CapacityStep
<1>3. BookInv /\ WithinOrder => CapacityRespected
  BY BookRows DEF WithinOrder, CapacityRespected
<1> QED
  BY <1>1, <1>2, <1>3, BookInit, BookStep, PTL DEF Spec

(* No step takes a window of a capped pull beyond its plan.                *)
LEMMA HourCapStep ==
  ASSUME BookInv, HourCapRespected, [Next]_vars
  PROVE  HourCapRespected'
<1>1. /\ TypeOK
      /\ \A w \in Window : received[w] \in Nat /\ expected[w] \in Nat
  BY BookRows DEF TypeOK
<1>2. SUFFICES ASSUME NEW v \in Window, PullOf(v) \in LockHourCap
               PROVE  received'[v] =< expected'[v]
  BY DEF HourCapRespected, PullOf
<1>3. received[v] =< expected[v]
  BY <1>2 DEF HourCapRespected
<1>4. ASSUME UNCHANGED <<received, expected>>
      PROVE  received'[v] =< expected'[v]
  BY <1>3, <1>4
<1>5. ASSUME NEW i \in Item, CreateItem(i)
      PROVE  received'[v] =< expected'[v]
  <2>1. PICK H \in SUBSET Hour : \E q \in [H -> WindowQty] :
          expected' = [w \in Window |-> IF w \in {i} \X H THEN q[w[2]] ELSE expected[w]]
    BY <1>5 DEF CreateItem
  <2>2. PICK q \in [H -> WindowQty] :
          expected' = [w \in Window |-> IF w \in {i} \X H THEN q[w[2]] ELSE expected[w]]
    BY <2>1
  <2>3. item[i] = "none" /\ received' = received
    BY <1>5 DEF CreateItem, ledgerVars
  <2>4. CASE v \in {i} \X H
    <3>1. LiveIn(v) = {}
      BY <2>3, <2>4, BookRows DEF LiveIn
    <3>2. received[v] = 0
      BY <3>1, BookRows
    <3>3. expected'[v] \in Nat
      BY <2>2, <2>4, ConstantsAssumption
    <3> QED
      BY <2>3, <3>2, <3>3
  <2>5. CASE v \notin {i} \X H
    BY <1>3, <2>2, <2>3, <2>5
  <2> QED
    BY <2>4, <2>5
<1>6. ASSUME NEW i \in Item, DeleteItem(i)
      PROVE  received'[v] =< expected'[v]
  BY <1>3, <1>6 DEF DeleteItem
<1>7. ASSUME NEW w \in Window, AddWindow(w) \/ UpdateWindow(w) \/ DeleteWindow(w)
      PROVE  received'[v] =< expected'[v]
  <2>1. /\ \/ \E q \in Nat : expected' = [expected EXCEPT ![w] = q]
              /\ received' = [received EXCEPT ![w] = 0]
        \/ \E q \in Nat : q >= received[w] /\ expected' = [expected EXCEPT ![w] = q]
              /\ received' = received
    BY <1>7, ConstantsAssumption
    DEF AddWindow, UpdateWindow, DeleteWindow, PlanCovers, ledgerVars
  <2> QED
    BY <1>1, <1>3, <2>1 DEF TypeOK
<1>8. ASSUME NEW w \in Window, NEW q \in ReceiveQty, Receive(w, q)
      PROVE  received'[v] =< expected'[v]
  <2>1. /\ expected' = expected /\ received' = [received EXCEPT ![w] = received[w] + q]
        /\ PullOf(w) \in LockHourCap => q =< expected[w] - received[w]
        /\ q \in Nat
    BY <1>8, ConstantsAssumption DEF Receive
  <2> QED
    BY <1>1, <1>2, <1>3, <2>1 DEF TypeOK
<1>9. ASSUME NEW r \in receipts, Cancel(r)
      PROVE  received'[v] =< expected'[v]
  <2>1. /\ received' = [received EXCEPT ![r.window] = received[r.window] - r.qty]
        /\ expected' = expected /\ r.qty > 0
    BY <1>9 DEF Cancel, Cancellable
  <2>2. r.window \in Window /\ r.qty \in Int
    BY <1>1 DEF TypeOK, Receipt
  <2> QED
    BY <1>1, <1>3, <2>1, <2>2 DEF TypeOK
<1>10. ASSUME NEW p \in Pull, CreatePull(p) \/ ClosePull(p) \/ ReopenPull(p)
       PROVE  UNCHANGED <<received, expected>>
  BY <1>10 DEF CreatePull, ClosePull, ReopenPull, ledgerVars
<1>11. ASSUME NEW i \in Item, UpdateItem(i)
       PROVE  UNCHANGED <<received, expected>>
  BY <1>11 DEF UpdateItem, ledgerVars
<1>12. ASSUME NEW o \in PO, CreatePo(o) \/ ImportPo(o) \/ UpdatePo(o) \/ ClosePo(o)
       PROVE  UNCHANGED <<received, expected>>
  BY <1>12 DEF CreatePo, ImportPo, InsertPo, UpdatePo, ClosePo, pullVars, ledgerVars
<1>13. ASSUME NEW l \in Line, AddLine(l) \/ DeleteLine(l)
       PROVE  UNCHANGED <<received, expected>>
  BY <1>13 DEF AddLine, DeleteLine, pullVars
<1>14. CASE UNCHANGED vars
  BY <1>4, <1>14 DEF vars, pullVars, ledgerVars
<1> QED
  BY <1>4, <1>5, <1>6, <1>7, <1>8, <1>9, <1>10, <1>11, <1>12, <1>13, <1>14 DEF Next

(* With LockHourCap the received count of a window never passes its plan   *)
(* (ReceiveAsync, UpdateWindowAsync).                                      *)
THEOREM HourCapCorrect == Spec => []HourCapRespected
<1>1. Init => HourCapRespected
  BY DEF Init, HourCapRespected
<1>2. BookInv /\ HourCapRespected /\ [Next]_vars => HourCapRespected'
  BY HourCapStep
<1> QED
  BY <1>1, <1>2, BookInit, BookStep, PTL DEF Spec
-----------------------------------------------------------------------------
(* Purchase orders.                                                        *)

(* Only a manual close shuts a PO that has capacity left.                  *)
LEMMA AutoCloseStep ==
  ASSUME BookInv, WithinOrder, AutoClosedIsFull, [Next]_vars
  PROVE  AutoClosedIsFull'
<1>1. TypeOK /\ LedgerInv /\ LedgerInv' /\ TypeOK'
  BY LedgerStep DEF BookInv, LedgerInv
<1>2. SUFFICES ASSUME NEW o \in PO, po'[o] = "closed", o \notin forfeited',
                      NEW l \in LinesOf(o)
               PROVE  consumed'[l] = ordered'[l]
  BY DEF AutoClosedIsFull, LinesOf
<1>3. l \in Line /\ LinePo[l] = o
  BY DEF LinesOf
<1>4. po[o] = "closed" /\ o \notin forfeited => consumed[l] = ordered[l]
  BY DEF AutoClosedIsFull
<1>5. ASSUME UNCHANGED <<po, forfeited, consumed, ordered>>
      PROVE  consumed'[l] = ordered'[l]
  BY <1>2, <1>4, <1>5
<1>6. ASSUME NEW x \in PO, NEW L \in SUBSET LinesOf(x), InsertPo(x, L)
      PROVE  consumed'[l] = ordered'[l]
  <2>1. PICK q \in [L -> OrderQty] :
          ordered' = [m \in Line |-> IF m \in L THEN q[m] ELSE ordered[m]]
    BY <1>6 DEF InsertPo
  <2>2. po' = [po EXCEPT ![x] = "open"] /\ consumed' = consumed /\ forfeited' = forfeited
    BY <1>6 DEF InsertPo, ledgerVars
  <2>3. x # o
    BY <1>1, <1>2, <2>2 DEF TypeOK
  <2>4. po[o] = "closed" /\ o \notin forfeited /\ l \notin L
    BY <1>1, <1>2, <1>3, <2>2, <2>3 DEF TypeOK, LinesOf
  <2> QED
    BY <1>3, <1>4, <2>1, <2>2, <2>4
<1>7. ASSUME NEW x \in PO, ClosePo(x)
      PROVE  consumed'[l] = ordered'[l]
  <2>1. /\ po' = [po EXCEPT ![x] = "closed"] /\ forfeited' = forfeited \cup {x}
        /\ UNCHANGED <<ordered, consumed>>
    BY <1>7 DEF ClosePo, ledgerVars
  <2> QED
    BY <1>1, <1>2, <1>4, <2>1 DEF TypeOK
<1>8. ASSUME NEW m \in Line, AddLine(m)
      PROVE  consumed'[l] = ordered'[l]
  <2>1. PICK q \in OrderQty : ordered' = [ordered EXCEPT ![m] = q]
    BY <1>8 DEF AddLine
  <2>2. /\ po[LinePo[m]] = "open" /\ consumed' = [consumed EXCEPT ![m] = 0]
        /\ UNCHANGED <<po, forfeited>>
    BY <1>8 DEF AddLine
  <2>3. m # l
    BY <1>2, <1>3, <2>2
  <2> QED
    BY <1>1, <1>2, <1>3, <1>4, <2>1, <2>2, <2>3 DEF TypeOK
<1>9. ASSUME NEW m \in Line, DeleteLine(m)
      PROVE  consumed'[l] = ordered'[l]
  <2>1. /\ ordered' = [ordered EXCEPT ![m] = 0] /\ consumed' = [consumed EXCEPT ![m] = 0]
        /\ UNCHANGED <<po, forfeited>>
    BY <1>9 DEF DeleteLine
  <2> QED
    BY <1>1, <1>2, <1>3, <1>4, <2>1 DEF TypeOK
<1>10. ASSUME NEW w \in Window, NEW q \in ReceiveQty, Receive(w, q)
       PROVE  consumed'[l] = ordered'[l]
  <2> DEFINE C == Candidates(w[1])
  <2>1. /\ consumed' = [m \in Line |-> IF m \in Drawn(C, q) THEN consumed[m] + Take(C, q, m)
                                                            ELSE consumed[m]]
        /\ UNCHANGED <<ordered, forfeited>>
    BY <1>1, <1>10, ReceiveFacts DEF Receive
  <2>2. po' = [x \in PO |-> IF /\ \E m \in Drawn(C, q) : LinePo[m] = x
                              /\ Filled(x, consumed')
                           THEN "closed" ELSE po[x]]
    BY <1>10 DEF Receive, Drawn
  <2>3. \A m \in Drawn(C, q) : po[LinePo[m]] = "open"
    BY DEF Drawn, Candidates
  <2>4. CASE Filled(o, consumed')
    <3>1. ordered[l] =< consumed'[l]
      BY <2>4 DEF Filled
    <3>2. consumed'[l] =< ordered'[l]
      BY <1>3, <1>10, CapacityStep DEF WithinOrder, Next
    <3> QED
      BY <1>1, <1>3, <2>1, <3>1, <3>2 DEF TypeOK
  <2>5. CASE ~Filled(o, consumed')
    <3>1. po[o] = "closed" /\ o \notin forfeited
      BY <1>2, <2>1, <2>2, <2>5
    <3>2. l \notin Drawn(C, q)
      BY <1>3, <2>3, <3>1
    <3> QED
      BY <1>3, <1>4, <2>1, <3>1, <3>2
  <2> QED
    BY <2>4, <2>5
<1>11. ASSUME NEW r \in receipts, Cancel(r)
       PROVE  consumed'[l] = ordered'[l]
  <2>1. /\ po' = [po EXCEPT ![LinePo[r.line]] = IF po[LinePo[r.line]] = "closed" THEN "open"
                                               ELSE po[LinePo[r.line]]]
        /\ forfeited' = forfeited \ {LinePo[r.line]}
        /\ consumed' = [consumed EXCEPT ![r.line] = consumed[r.line] - r.qty]
        /\ ordered' = ordered
    BY <1>11 DEF Cancel, Restored, Reopened
  <2>2. LinePo[r.line] # o
    BY <1>1, <1>2, <2>1 DEF TypeOK
  <2>3. l # r.line /\ po'[o] = po[o]
    BY <1>1, <1>3, <2>1, <2>2 DEF TypeOK
  <2> QED
    BY <1>1, <1>2, <1>3, <1>4, <2>1, <2>2, <2>3 DEF TypeOK
<1>12. ASSUME NEW p \in Pull, CreatePull(p) \/ ClosePull(p) \/ ReopenPull(p)
       PROVE  UNCHANGED <<po, forfeited, consumed, ordered>>
  BY <1>12 DEF CreatePull, ClosePull, ReopenPull, poVars, ledgerVars
<1>13. ASSUME NEW i \in Item, CreateItem(i) \/ UpdateItem(i) \/ DeleteItem(i)
       PROVE  UNCHANGED <<po, forfeited, consumed, ordered>>
  BY <1>13 DEF CreateItem, UpdateItem, DeleteItem, poVars, ledgerVars
<1>14. ASSUME NEW w \in Window, AddWindow(w) \/ UpdateWindow(w) \/ DeleteWindow(w)
       PROVE  UNCHANGED <<po, forfeited, consumed, ordered>>
  BY <1>14 DEF AddWindow, UpdateWindow, DeleteWindow, poVars, ledgerVars
<1>15. ASSUME NEW x \in PO, CreatePo(x) \/ ImportPo(x)
       PROVE  consumed'[l] = ordered'[l]
  BY <1>6, <1>15 DEF CreatePo, ImportPo
<1>16. ASSUME NEW x \in PO, UpdatePo(x)
       PROVE  UNCHANGED <<po, forfeited, consumed, ordered>>
  BY <1>16 DEF UpdatePo, ledgerVars
<1>17. CASE UNCHANGED vars
  BY <1>5, <1>17 DEF vars, poVars, ledgerVars
<1> QED
  BY <1>5, <1>7, <1>8, <1>9, <1>10, <1>11, <1>12, <1>13, <1>14, <1>15, <1>16, <1>17 DEF Next

(* A PO that is closed but was not closed by hand is full (the autoclose   *)
(* of ReceiveAsync, the reopen of CancelAsync).                            *)
THEOREM AutoCloseCorrect == Spec => []AutoClosedIsFull
<1>1. Init => WithinOrder /\ AutoClosedIsFull
  BY DEF Init, WithinOrder, AutoClosedIsFull
<1>2. BookInv /\ WithinOrder /\ [Next]_vars => WithinOrder'
  BY CapacityStep
<1>3. BookInv /\ WithinOrder /\ AutoClosedIsFull /\ [Next]_vars => AutoClosedIsFull'
  BY AutoCloseStep
<1> QED
  BY <1>1, <1>2, <1>3, BookInit, BookStep, PTL DEF Spec
-----------------------------------------------------------------------------
(* Pulls.                                                                  *)

(* What a closed pull is not touched by: the edits and the receipts of     *)
(* every other pull leave its plan as it is.                               *)
LEMMA ClosedPullStep ==
  ASSUME TypeOK, Next, NEW p \in Pull, pull[p] = "closed"
  PROVE  /\ pull'[p] \in {"closed", "in_progress"}
         /\ \A w \in Window : PullOf(w) = p =>
               /\ item'[w[1]] = item[w[1]]
               /\ expected'[w] = expected[w]
               /\ received'[w] = received[w]
         /\ \A r \in receipts' \ receipts : PullOf(r.window) # p
<1> DEFINE Kept == \A w \in Window : PullOf(w) = p => /\ item'[w[1]] = item[w[1]]
                                                     /\ expected'[w] = expected[w]
                                                     /\ received'[w] = received[w]
           NoNew == \A r \in receipts' \ receipts : PullOf(r.window) # p
           Status == pull'[p] \in {"closed", "in_progress"}
<1>1. \A w \in Window : w[1] \in Item /\ PullOf(w) = ItemPull[w[1]]
  BY WindowParts DEF PullOf
<1>2. ASSUME NEW x \in Pull, CreatePull(x) \/ ClosePull(x) \/ ReopenPull(x)
      PROVE  Kept /\ NoNew /\ Status
  <2>1. UNCHANGED <<item, expected, received, receipts>>
    BY <1>2 DEF CreatePull, ClosePull, ReopenPull, ledgerVars
  <2>2. Status
    BY <1>2 DEF CreatePull, ClosePull, ReopenPull, TypeOK
  <2> QED
    BY <2>1, <2>2
<1>3. ASSUME NEW i \in Item, CreateItem(i)
      PROVE  Kept /\ NoNew /\ Status
  <2>1. PICK H \in SUBSET Hour : \E q \in [H -> WindowQty] :
          expected' = [w \in Window |-> IF w \in {i} \X H THEN q[w[2]] ELSE expected[w]]
    BY <1>3 DEF CreateItem
  <2>2. PICK q \in [H -> WindowQty] :
          expected' = [w \in Window |-> IF w \in {i} \X H THEN q[w[2]] ELSE expected[w]]
    BY <2>1
  <2>3. /\ ItemPull[i] # p /\ item' = [item EXCEPT ![i] = "normal"]
        /\ UNCHANGED <<pull, received, receipts>>
    BY <1>3 DEF CreateItem, Editable, ledgerVars
  <2>4. \A w \in Window : PullOf(w) = p => w[1] # i
    BY <1>1, <2>3
  <2>5. Kept
    BY <1>1, <2>2, <2>3, <2>4 DEF TypeOK
  <2> QED
    BY <2>3, <2>5
<1>4. ASSUME NEW i \in Item, UpdateItem(i)
      PROVE  Kept /\ NoNew /\ Status
  <2>1. /\ ItemPull[i] # p
        /\ \A j \in Item : j # i => item'[j] = item[j]
        /\ UNCHANGED <<pull, expected, received, receipts>>
    BY <1>4 DEF UpdateItem, Editable, ledgerVars, TypeOK
  <2> QED
    BY <1>1, <2>1
<1>5. ASSUME NEW i \in Item, DeleteItem(i)
      PROVE  Kept /\ NoNew /\ Status
  <2>1. /\ ItemPull[i] # p /\ item' = [item EXCEPT ![i] = "none"]
        /\ expected' = [w \in Window |-> IF w \in WindowsOf(i) THEN 0 ELSE expected[w]]
        /\ received' = [w \in Window |-> IF w \in WindowsOf(i) THEN 0 ELSE received[w]]
        /\ UNCHANGED <<pull, receipts>>
    BY <1>5 DEF DeleteItem, Editable
  <2>2. \A w \in Window : PullOf(w) = p => w[1] # i /\ w \notin WindowsOf(i)
    BY <1>1, <2>1 DEF WindowsOf
  <2>3. Kept
    BY <1>1, <2>1, <2>2 DEF TypeOK
  <2> QED
    BY <2>1, <2>3
<1>6. ASSUME NEW v \in Window, AddWindow(v) \/ UpdateWindow(v) \/ DeleteWindow(v)
      PROVE  Kept /\ NoNew /\ Status
  <2>1. /\ PullOf(v) # p
        /\ \A w \in Window : w # v => expected'[w] = expected[w] /\ received'[w] = received[w]
        /\ UNCHANGED <<pull, item, receipts>>
    BY <1>6 DEF AddWindow, UpdateWindow, DeleteWindow, Editable, ledgerVars, TypeOK
  <2> QED
    BY <2>1
<1>7. ASSUME NEW o \in PO, CreatePo(o) \/ ImportPo(o) \/ UpdatePo(o) \/ ClosePo(o)
      PROVE  Kept /\ NoNew /\ Status
  <2>1. UNCHANGED <<pull, item, expected, received, receipts>>
    BY <1>7 DEF CreatePo, ImportPo, InsertPo, UpdatePo, ClosePo, pullVars, ledgerVars
  <2> QED
    BY <2>1
<1>8. ASSUME NEW l \in Line, AddLine(l) \/ DeleteLine(l)
      PROVE  Kept /\ NoNew /\ Status
  <2>1. UNCHANGED <<pull, item, expected, received, receipts>>
    BY <1>8 DEF AddLine, DeleteLine, pullVars
  <2> QED
    BY <2>1
<1>9. ASSUME NEW v \in Window, NEW q \in ReceiveQty, Receive(v, q)
      PROVE  Kept /\ NoNew /\ Status
  <2>1. /\ PullOf(v) # p /\ received' = [received EXCEPT ![v] = received[v] + q]
        /\ pull' = [pull EXCEPT ![PullOf(v)] = Advanced(PullOf(v), received')]
        /\ UNCHANGED <<item, expected>>
    BY <1>9 DEF Receive
  <2>2. NoNew
    BY <1>9, <2>1, ReceiveFacts DEF Slice
  <2> QED
    BY <2>1, <2>2 DEF TypeOK
<1>10. ASSUME NEW r \in receipts, Cancel(r)
       PROVE  Kept /\ NoNew /\ Status
  <2>1. /\ PullOf(r.window) # p
        /\ received' = [received EXCEPT ![r.window] = received[r.window] - r.qty]
        /\ receipts' = receipts \cup {Reversal(r, <<calls + 1, r.line>>)}
        /\ \A x \in Pull : x # PullOf(r.window) => pull'[x] = pull[x]
        /\ UNCHANGED <<item, expected>>
    BY <1>10 DEF Cancel, TypeOK
  <2> QED
    BY <2>1 DEF TypeOK, Reversal
<1> QED
  BY <1>2, <1>3, <1>4, <1>5, <1>6, <1>7, <1>8, <1>9, <1>10 DEF Next

(* A closed pull stays as it was signed until it is reopened (RefuseClosed,*)
(* the closed check of ReceiveAsync and of CancelAsync).                   *)
THEOREM ClosedPullCorrect == Spec => ClosedPullFrozen
<1> DEFINE A == \A p \in Pull : pull[p] = "closed" =>
          /\ pull'[p] \in {"closed", "in_progress"}
          /\ \A w \in Window : PullOf(w) = p =>
                /\ item'[w[1]] = item[w[1]]
                /\ expected'[w] = expected[w]
                /\ received'[w] = received[w]
          /\ \A r \in receipts' \ receipts : PullOf(r.window) # p
<1>1. TypeOK /\ [Next]_vars => [A]_vars
  BY ClosedPullStep
<1>2. ClosedPullFrozen <=> [][A]_vars
  BY DEF ClosedPullFrozen
<1>3. BookInv => TypeOK
  BY DEF BookInv, LedgerInv
<1> HIDE DEF A
<1> QED
  BY <1>1, <1>2, <1>3, BookInit, BookStep, PTL DEF Spec

(* Closing is the only way to "closed", and it looks at the plan first.    *)
LEMMA ClosingChecks ==
  ASSUME TypeOK, Next, NEW p \in Pull, pull[p] # "closed", pull'[p] = "closed"
  PROVE  ~Outstanding(p, received) /\ UNCHANGED <<item, expected, received>>
<1>1. ASSUME NEW x \in Pull, CreatePull(x) \/ ReopenPull(x)
      PROVE  FALSE
  BY <1>1 DEF CreatePull, ReopenPull, TypeOK
<1>2. ASSUME NEW x \in Pull, ClosePull(x)
      PROVE  ~Outstanding(p, received) /\ UNCHANGED <<item, expected, received>>
  <2>1. x = p
    BY <1>2 DEF ClosePull, TypeOK
  <2> QED
    BY <1>2, <2>1 DEF ClosePull, ledgerVars
<1>3. ASSUME pull' = pull
      PROVE  FALSE
  BY <1>3
<1>4. ASSUME NEW w \in Window, NEW q \in ReceiveQty, Receive(w, q)
      PROVE  FALSE
  BY <1>4 DEF Receive, Advanced, TypeOK
<1>5. ASSUME NEW r \in receipts, Cancel(r)
      PROVE  FALSE
  BY <1>5 DEF Cancel, TypeOK
<1>6. ASSUME NEW i \in Item, CreateItem(i) \/ UpdateItem(i) \/ DeleteItem(i)
      PROVE  pull' = pull
  BY <1>6 DEF CreateItem, UpdateItem, DeleteItem
<1>7. ASSUME NEW w \in Window, AddWindow(w) \/ UpdateWindow(w) \/ DeleteWindow(w)
      PROVE  pull' = pull
  BY <1>7 DEF AddWindow, UpdateWindow, DeleteWindow
<1>8. ASSUME NEW o \in PO, CreatePo(o) \/ ImportPo(o) \/ UpdatePo(o) \/ ClosePo(o)
      PROVE  pull' = pull
  BY <1>8 DEF CreatePo, ImportPo, InsertPo, UpdatePo, ClosePo, pullVars
<1>9. ASSUME NEW l \in Line, AddLine(l) \/ DeleteLine(l)
      PROVE  pull' = pull
  BY <1>9 DEF AddLine, DeleteLine, pullVars
<1> QED
  BY <1>1, <1>2, <1>3, <1>4, <1>5, <1>6, <1>7, <1>8, <1>9 DEF Next

(* Every window of a closed pull is met, through receives, cancels and     *)
(* edits in any order (CloseAsync).                                        *)
THEOREM CompletenessCorrect == Spec => []ClosedPullComplete
<1>1. Init => ClosedPullComplete
  BY DEF Init, ClosedPullComplete
<1>2. TypeOK /\ ClosedPullComplete /\ [Next]_vars => ClosedPullComplete'
  <2> SUFFICES ASSUME TypeOK, ClosedPullComplete, [Next]_vars,
                      NEW p \in Pull, pull'[p] = "closed"
               PROVE  ~Outstanding(p, received)'
    BY DEF ClosedPullComplete
  <2>1. CASE UNCHANGED vars
    BY <2>1 DEF vars, pullVars, ledgerVars, ClosedPullComplete, Outstanding, PullOf
  <2>2. CASE Next /\ pull[p] = "closed"
    <3>1. \A w \in Window : PullOf(w) = p => /\ item'[w[1]] = item[w[1]]
                                             /\ expected'[w] = expected[w]
                                             /\ received'[w] = received[w]
      BY <2>2, ClosedPullStep
    <3>2. ~Outstanding(p, received)
      BY <2>2 DEF ClosedPullComplete
    <3> QED
      BY <3>1, <3>2 DEF Outstanding, PullOf
  <2>3. CASE Next /\ pull[p] # "closed"
    BY <2>3, ClosingChecks DEF Outstanding, PullOf
  <2> QED
    BY <2>1, <2>2, <2>3
<1>3. BookInv => TypeOK
  BY DEF BookInv, LedgerInv
<1> QED
  BY <1>1, <1>2, <1>3, BookInit, BookStep, PTL DEF Spec

(* The plan of a pull does not outlive it: an item has its pull.           *)
ItemsHavePull == \A i \in Item : item[i] # "none" => pull[ItemPull[i]] # "none"

(* Once there, a pull stays, and once started it stays started.            *)
LEMMA PullsAdvance ==
  ASSUME TypeOK, [Next]_vars, NEW p \in Pull
  PROVE  /\ pull[p] # "none" => pull'[p] # "none"
         /\ pull[p] \in {"in_progress", "fully_received", "closed"}
              => pull'[p] \in {"in_progress", "fully_received", "closed"}
<1>1. CASE pull' = pull
  BY <1>1
<1>2. ASSUME NEW x \in Pull, CreatePull(x) \/ ClosePull(x) \/ ReopenPull(x)
      PROVE  /\ pull[p] # "none" => pull'[p] # "none"
             /\ pull[p] \in {"in_progress", "fully_received", "closed"}
                  => pull'[p] \in {"in_progress", "fully_received", "closed"}
  BY <1>2 DEF CreatePull, ClosePull, ReopenPull, TypeOK
<1>3. ASSUME NEW w \in Window, NEW q \in ReceiveQty, Receive(w, q)
      PROVE  /\ pull[p] # "none" => pull'[p] # "none"
             /\ pull[p] \in {"in_progress", "fully_received", "closed"}
                  => pull'[p] \in {"in_progress", "fully_received", "closed"}
  BY <1>3 DEF Receive, Advanced, TypeOK
<1>4. ASSUME NEW r \in receipts, Cancel(r)
      PROVE  /\ pull[p] # "none" => pull'[p] # "none"
             /\ pull[p] \in {"in_progress", "fully_received", "closed"}
                  => pull'[p] \in {"in_progress", "fully_received", "closed"}
  BY <1>4 DEF Cancel, TypeOK
<1>5. ASSUME NEW i \in Item, CreateItem(i) \/ UpdateItem(i) \/ DeleteItem(i)
      PROVE  pull' = pull
  BY <1>5 DEF CreateItem, UpdateItem, DeleteItem
<1>6. ASSUME NEW w \in Window, AddWindow(w) \/ UpdateWindow(w) \/ DeleteWindow(w)
      PROVE  pull' = pull
  BY <1>6 DEF AddWindow, UpdateWindow, DeleteWindow
<1>7. ASSUME NEW o \in PO, CreatePo(o) \/ ImportPo(o) \/ UpdatePo(o) \/ ClosePo(o)
      PROVE  pull' = pull
  BY <1>7 DEF CreatePo, ImportPo, InsertPo, UpdatePo, ClosePo, pullVars
<1>8. ASSUME NEW l \in Line, AddLine(l) \/ DeleteLine(l)
      PROVE  pull' = pull
  BY <1>8 DEF AddLine, DeleteLine, pullVars
<1>9. CASE UNCHANGED vars
  BY <1>1, <1>9 DEF vars, pullVars
<1> QED
  BY <1>1, <1>2, <1>3, <1>4, <1>5, <1>6, <1>7, <1>8, <1>9 DEF Next

(* Items appear only in a pull that is there.                              *)
LEMMA ItemsStep ==
  ASSUME TypeOK, ItemsHavePull, [Next]_vars
  PROVE  ItemsHavePull'
<1>1. \A i \in Item : ItemPull[i] \in Pull
  BY ConstantsAssumption
<1>2. SUFFICES ASSUME NEW i \in Item, item'[i] # "none", item[i] = "none"
               PROVE  pull'[ItemPull[i]] # "none"
  BY <1>1, PullsAdvance DEF ItemsHavePull
<1>3. CASE CreateItem(i)
  BY <1>3 DEF CreateItem, Editable
<1>4. CASE item' = item
  BY <1>2, <1>4
<1>5. ASSUME NEW j \in Item, CreateItem(j)
      PROVE  j = i
  BY <1>2, <1>5 DEF CreateItem, TypeOK
<1>6. ASSUME NEW j \in Item, UpdateItem(j) \/ DeleteItem(j)
      PROVE  FALSE
  BY <1>2, <1>6 DEF UpdateItem, DeleteItem, TypeOK
<1>7. ASSUME NEW w \in Window, AddWindow(w) \/ UpdateWindow(w) \/ DeleteWindow(w)
      PROVE  item' = item
  BY <1>7 DEF AddWindow, UpdateWindow, DeleteWindow
<1>8. ASSUME NEW o \in PO, CreatePo(o) \/ ImportPo(o) \/ UpdatePo(o) \/ ClosePo(o)
      PROVE  item' = item
  BY <1>8 DEF CreatePo, ImportPo, InsertPo, UpdatePo, ClosePo, pullVars
<1>9. ASSUME NEW l \in Line, AddLine(l) \/ DeleteLine(l)
      PROVE  item' = item
  BY <1>9 DEF AddLine, DeleteLine, pullVars
<1>10. ASSUME NEW p \in Pull, CreatePull(p) \/ ClosePull(p) \/ ReopenPull(p)
       PROVE  item' = item
  BY <1>10 DEF CreatePull, ClosePull, ReopenPull
<1>11. ASSUME NEW w \in Window, NEW q \in ReceiveQty, Receive(w, q)
       PROVE  item' = item
  BY <1>11 DEF Receive
<1>12. ASSUME NEW r \in receipts, Cancel(r)
       PROVE  item' = item
  BY <1>12 DEF Cancel
<1>13. CASE UNCHANGED vars
  BY <1>4, <1>13 DEF vars, pullVars
<1> QED
  BY <1>3, <1>4, <1>5, <1>6, <1>7, <1>8, <1>9, <1>10, <1>11, <1>12, <1>13 DEF Next

(* A pending pull has never received a piece: the first receipt moves it   *)
(* on and nothing moves it back (ReceiveAsync, CancelAsync, ReopenAsync).  *)
THEOREM PendingCorrect == Spec => []PendingIsUntouched
<1> DEFINE Started == {"in_progress", "fully_received", "closed"}
<1>1. Init => ItemsHavePull /\ PendingIsUntouched
  BY DEF Init, ItemsHavePull, PendingIsUntouched
<1>2. TypeOK /\ ItemsHavePull /\ [Next]_vars => ItemsHavePull'
  BY ItemsStep
<1>3. TypeOK /\ ItemsHavePull /\ PendingIsUntouched /\ [Next]_vars => PendingIsUntouched'
  <2> SUFFICES ASSUME TypeOK, ItemsHavePull, PendingIsUntouched, [Next]_vars,
                      NEW r \in receipts'
               PROVE  pull'[PullOf(r.window)] \in Started
    BY DEF PendingIsUntouched, PullOf
  <2>1. CASE r \in receipts
    <3>1. PullOf(r.window) \in Pull
      BY <2>1, WindowParts DEF TypeOK, Receipt
    <3>2. pull[PullOf(r.window)] \in Started
      BY <2>1 DEF PendingIsUntouched
    <3> QED
      BY <3>1, <3>2, PullsAdvance
  <2>2. CASE r \notin receipts
    <3>1. ASSUME NEW w \in Window, NEW q \in ReceiveQty, Receive(w, q)
          PROVE  pull'[PullOf(r.window)] \in Started
      <4>1. PullOf(r.window) = PullOf(w) /\ PullOf(w) \in Pull
        BY <2>2, <3>1, ReceiveFacts, WindowParts DEF Slice
      <4>2. /\ item[w[1]] # "none" /\ pull[PullOf(w)] # "closed"
            /\ pull' = [pull EXCEPT ![PullOf(w)] = Advanced(PullOf(w), received')]
        BY <3>1 DEF Receive
      <4>3. pull[PullOf(w)] # "none"
        BY <4>2, WindowParts DEF ItemsHavePull, PullOf
      <4> QED
        BY <4>1, <4>2, <4>3 DEF TypeOK, Advanced
    <3>2. ASSUME NEW s \in receipts, Cancel(s)
          PROVE  pull'[PullOf(r.window)] \in Started
      <4>1. r.window = s.window
        BY <2>2, <3>2 DEF Cancel, Reversal
      <4>2. pull[PullOf(s.window)] \in Started /\ PullOf(s.window) \in Pull
        BY WindowParts DEF PendingIsUntouched, TypeOK, Receipt
      <4> QED
        BY <4>1, <4>2, PullsAdvance
    <3>3. ~Edit /\ ~UNCHANGED vars
      BY <2>2, EditLeavesLedger DEF vars, ledgerVars
    <3> QED
      BY <3>1, <3>2, <3>3 DEF Next, Edit
  <2> QED
    BY <2>1, <2>2
<1>4. BookInv => TypeOK
  BY DEF BookInv, LedgerInv
<1> QED
  BY <1>1, <1>2, <1>3, <1>4, BookInit, BookStep, PTL DEF Spec
-----------------------------------------------------------------------------
(* FIFO.                                                                   *)

(* The lines ahead of a line that a receive draws on are used up by it     *)
(* (the walk of ReceiveAsync).                                             *)
THEOREM OldestFirstCorrect == Spec => OldestFirst
<1> DEFINE A == \A r \in receipts' \ receipts : r.qty > 0 =>
          \A m \in Candidates(r.window[1]) :
              Precedes(m, r.line) => consumed'[m] = ordered[m]
<1>1. TypeOK /\ [Next]_vars => [A]_vars
  <2> SUFFICES ASSUME TypeOK, Next, NEW r \in receipts' \ receipts, r.qty > 0,
                      NEW m \in Candidates(r.window[1]), Precedes(m, r.line)
               PROVE  consumed'[m] = ordered[m]
    OBVIOUS
  <2>1. ASSUME NEW w \in Window, NEW q \in ReceiveQty, Receive(w, q)
        PROVE  consumed'[m] = ordered[m]
    <3> DEFINE C == Candidates(w[1])
    <3>1. /\ C \in SUBSET Line /\ q \in Nat
          /\ receipts' = receipts \cup {Slice(C, q, w, l) : l \in Drawn(C, q)}
          /\ consumed' = [l \in Line |-> IF l \in Drawn(C, q) THEN consumed[l] + Take(C, q, l)
                                                              ELSE consumed[l]]
      BY <2>1, ReceiveFacts
    <3>2. r.line \in C /\ Take(C, q, r.line) > 0 /\ r.window = w
      BY <3>1 DEF Slice, Drawn
    <3>3. \A l \in C : Remaining[l] > 0
      BY DEF Candidates
    <3>4. m \in C
      BY <3>2
    <3> HIDE DEF C
    <3>5. Ahead(C, m) + Remaining[m] =< Ahead(C, r.line)
      BY <3>1, <3>2, <3>3, <3>4, AheadGrows
    <3>6. /\ Remaining[m] \in Int /\ Remaining[r.line] \in Int
          /\ Ahead(C, m) \in Nat /\ Ahead(C, r.line) \in Nat
      BY <3>1, <3>2, <3>4, TakeBounds
    <3>7. Take(C, q, m) = Remaining[m] /\ m \in Drawn(C, q)
      BY <3>1, <3>2, <3>3, <3>4, <3>5, <3>6 DEF Take, Least, Greatest, Drawn
    <3>8. consumed'[m] = consumed[m] + (ordered[m] - consumed[m])
      BY <3>1, <3>4, <3>7 DEF Remaining
    <3> QED
      BY <3>1, <3>4, <3>8 DEF TypeOK
  <2>2. ASSUME NEW s \in receipts, Cancel(s)
        PROVE  FALSE
    <3>1. s.qty > 0 /\ s.qty \in Int
      BY <2>2 DEF Cancel, Cancellable, TypeOK, Receipt
    <3>2. r.qty = -s.qty
      BY <2>2 DEF Cancel, Reversal
    <3> QED
      BY <3>1, <3>2
  <2>3. ~Edit
    BY EditLeavesLedger
  <2> QED
    BY <2>1, <2>2, <2>3 DEF Next, Edit
<1>2. OldestFirst <=> [][A]_vars
  BY DEF OldestFirst
<1>3. BookInv => TypeOK
  BY DEF BookInv, LedgerInv
<1> HIDE DEF A
<1> QED
  BY <1>1, <1>2, <1>3, BookInit, BookStep, PTL DEF Spec

-----------------------------------------------------------------------------
(* The allocation loop computes the closed form of Receive, for any lines, *)
(* dates and quantities.                                                   *)

(* The lines the loop has passed are the first ones, and left is what they *)
(* could not give.                                                         *)
Passed == Rows \ lines
LoopInv ==
    /\ TypeOK /\ asked \in ReceiveQty /\ lines \subseteq Rows
    /\ \A m \in Passed, l \in lines : Precedes(m, l)
    /\ left = Greatest(0, asked - SumOf(Passed, Remaining))
    /\ plan = [l \in Line |-> IF l \in Passed THEN Take(Rows, asked, l) ELSE 0]

(* The rows are finitely many and have something left.                     *)
LEMMA LoopTypes ==
  ASSUME LoopInv
  PROVE  /\ Rows \in SUBSET Line /\ IsFiniteSet(Rows) /\ IsFiniteSet(Passed)
         /\ asked \in Nat /\ asked > 0
         /\ \A l \in Line : Remaining[l] \in Int
         /\ \A l \in Rows : Remaining[l] > 0
         /\ SumOf(Passed, Remaining) \in Nat
<1>1. Rows \in SUBSET Line /\ \A l \in Rows : Remaining[l] > 0
  BY DEF Rows, Candidates
<1>2. asked \in Nat /\ asked > 0
  BY ConstantsAssumption DEF LoopInv
<1>3. IsFiniteSet(Rows)
  BY <1>1, ConstantsAssumption, FS_Subset
<1>4. IsFiniteSet(Passed)
  BY <1>3, FS_Subset DEF Passed
<1>5. \A l \in Line : Remaining[l] \in Int
  BY DEF LoopInv, TypeOK, Remaining
<1>6. \A l \in Passed : Remaining[l] \in Int
  BY <1>1, <1>5 DEF Passed
<1>7. SumOf(Passed, Remaining) \in Nat
  BY <1>4, <1>6, SumType
<1> QED
  BY <1>1, <1>2, <1>3, <1>4, <1>5, <1>7

(* Before the first iteration nothing is passed and all is wanted.         *)
LEMMA LoopInit == WalkInit => LoopInv
<1> SUFFICES ASSUME WalkInit PROVE LoopInv
  OBVIOUS
<1>1. TypeOK
  <2>1. Dates \subseteq Nat /\ OrderQty \subseteq Nat /\ MaxCalls \in Nat
    BY ConstantsAssumption
  <2>2. poDate \in [PO -> Nat]
    BY <2>1 DEF WalkInit
  <2>3. ordered \in [Line -> Nat]
    BY <2>1 DEF WalkInit
  <2>4. consumed \in [Line -> Int]
    <3>1. OrderQty \cup {0} \subseteq Int
      BY <2>1
    <3> QED
      BY <3>1 DEF WalkInit
  <2> QED
    BY <2>1, <2>2, <2>3, <2>4 DEF WalkInit, TypeOK
<1>2. Passed = {} /\ lines \subseteq Rows /\ asked \in ReceiveQty /\ left = asked
  BY DEF WalkInit, Passed
<1>3. asked \in Nat /\ SumOf(Passed, Remaining) = 0
  BY <1>2, SumEmpty, ConstantsAssumption
<1>4. left = Greatest(0, asked - SumOf(Passed, Remaining))
  BY <1>2, <1>3 DEF Greatest
<1>5. plan = [l \in Line |-> IF l \in Passed THEN Take(Rows, asked, l) ELSE 0]
  BY <1>2 DEF WalkInit
<1> QED
  BY <1>1, <1>2, <1>4, <1>5 DEF LoopInv

(* The loop reads rows that do not change under it.                        *)
LEMMA LoopFrame ==
  ASSUME UNCHANGED <<vars, asked>>
  PROVE  /\ Rows' = Rows /\ Remaining' = Remaining /\ asked' = asked
         /\ \A l, m : Precedes(l, m)' <=> Precedes(l, m)
         /\ \A l : Take(Rows, asked, l)' = Take(Rows, asked, l)
         /\ TypeOK => TypeOK'
<1>1. UNCHANGED <<pull, item, expected, received, po, poDate, forfeited, ordered, consumed,
                  receipts, voidedBy, calls, asked>>
  BY DEF vars, pullVars, poVars, ledgerVars
<1>2. Rows' = Rows /\ Remaining' = Remaining /\ asked' = asked
  BY <1>1 DEF Rows, Candidates, Remaining
<1>3. \A l, m : Precedes(l, m)' <=> Precedes(l, m)
  BY <1>1 DEF Precedes
<1>4. \A l : Ahead(Rows, l)' = Ahead(Rows, l)
  BY <1>2, <1>3 DEF Ahead
<1>5. \A l : Take(Rows, asked, l)' = Take(Rows, asked, l)
  BY <1>2, <1>4 DEF Take
<1>6. TypeOK => TypeOK'
  BY <1>1 DEF TypeOK
<1> QED
  BY <1>2, <1>3, <1>5, <1>6

(* An iteration gives the next line its share.                             *)
LEMMA LoopStep ==
  ASSUME LoopInv, NEW l \in Line, Iterate(l)
  PROVE  LoopInv'
<1>1. /\ Rows \in SUBSET Line /\ IsFiniteSet(Rows) /\ IsFiniteSet(Passed)
      /\ asked \in Nat /\ SumOf(Passed, Remaining) \in Nat
      /\ \A m \in Line : Remaining[m] \in Int
      /\ \A m \in Rows : Remaining[m] > 0
  BY LoopTypes
<1>2. /\ l \in lines /\ \A m \in lines \ {l} : Precedes(l, m)
      /\ left > 0 /\ left' = left - Given(l) /\ plan' = [plan EXCEPT ![l] = Given(l)]
      /\ lines' = lines \ {l} /\ UNCHANGED <<vars, asked>>
  BY DEF Iterate, Reached
<1>3. /\ TypeOK /\ lines \subseteq Rows /\ l \in Rows /\ l \notin Passed
      /\ \A m \in Passed, x \in lines : Precedes(m, x)
      /\ left = Greatest(0, asked - SumOf(Passed, Remaining))
      /\ plan = [x \in Line |-> IF x \in Passed THEN Take(Rows, asked, x) ELSE 0]
  BY <1>2 DEF LoopInv, Passed
<1>4. {m \in Rows : Precedes(m, l)} = Passed
  <2>1. ~Precedes(l, l) /\ \A m \in lines \ {l} : ~Precedes(m, l)
    BY <1>1, <1>2, <1>3, FifoOrder
  <2> QED
    BY <1>2, <1>3, <2>1 DEF Passed
<1>5. Ahead(Rows, l) = SumOf(Passed, Remaining)
  BY <1>4 DEF Ahead
<1>6. Given(l) = Take(Rows, asked, l)
  BY <1>3, <1>5 DEF Given, Take
<1>7. Passed' = Passed \cup {l}
  BY <1>1, <1>2, <1>3, LoopFrame DEF Passed
<1>8. SumOf(Passed \cup {l}, Remaining) = SumOf(Passed, Remaining) + Remaining[l]
  <2>1. \A m \in Passed \cup {l} : Remaining[m] \in Int
    BY <1>1, <1>3 DEF Passed
  <2>2. SumOf(Passed \cup {l}, Remaining) = SumOf(Passed, Remaining) + Greatest(0, Remaining[l])
    BY <1>1, <1>3, <2>1, SumAdd
  <2>3. Greatest(0, Remaining[l]) = Remaining[l]
    BY <1>1, <1>3 DEF Greatest
  <2> QED
    BY <2>2, <2>3
<1>9. left' = Greatest(0, asked - (SumOf(Passed, Remaining) + Remaining[l]))
  <2>1. Remaining[l] \in Int /\ Remaining[l] > 0
    BY <1>1, <1>3
  <2> QED
    BY <1>1, <1>2, <1>3, <2>1 DEF Given, Least, Greatest
<1>10. plan' = [x \in Line |-> IF x \in Passed' THEN Take(Rows, asked, x) ELSE 0]
  BY <1>2, <1>3, <1>6, <1>7
<1>11. \A m \in Passed', x \in lines' : Precedes(m, x)
  BY <1>2, <1>3, <1>7
<1>12. /\ Rows' = Rows /\ Remaining' = Remaining /\ asked' = asked
       /\ \A x, m : Precedes(x, m)' <=> Precedes(x, m)
       /\ \A x : Take(Rows, asked, x)' = Take(Rows, asked, x)
       /\ TypeOK'
  BY <1>2, <1>3, LoopFrame
<1>13. left' = Greatest(0, asked' - SumOf(Passed', Remaining'))
  BY <1>7, <1>8, <1>9, <1>12
<1>14. asked' \in ReceiveQty /\ lines' \subseteq Rows'
  BY <1>2, <1>3, <1>12 DEF LoopInv
<1> QED
  BY <1>10, <1>11, <1>12, <1>13, <1>14 DEF LoopInv, Greatest

(* When nothing is left to give, the lines further on have no share.       *)
LEMMA LoopPlan == LoopInv => PlanIsTake
<1> SUFFICES ASSUME LoopInv PROVE PlanIsTake
  OBVIOUS
<1>1. \A l \in Line : plan[l] = IF l \in Rows \ lines THEN Take(Rows, asked, l) ELSE 0
  BY DEF LoopInv, Passed
<1>2. ASSUME left = 0, NEW l \in lines
      PROVE  Take(Rows, asked, l) =< 0
  <2>1. /\ Rows \in SUBSET Line /\ IsFiniteSet(Rows)
        /\ asked \in Nat /\ SumOf(Passed, Remaining) \in Nat
        /\ \A m \in Line : Remaining[m] \in Int
    BY LoopTypes
  <2>2. l \in Line /\ asked - SumOf(Passed, Remaining) =< 0
    BY <1>2, <2>1 DEF LoopInv, Greatest
  <2> DEFINE S == {m \in Rows : Precedes(m, l)}
  <2>3. Passed \in SUBSET S
    BY DEF LoopInv, Passed
  <2>4. IsFiniteSet(S)
    BY <2>1, FS_Subset
  <2>5. \A m \in S : Remaining[m] \in Int
    BY <2>1
  <2>6. SumOf(Passed, Remaining) =< SumOf(S, Remaining)
    <3> HIDE DEF S
    <3> QED
      BY <2>3, <2>4, <2>5, SumSubset
  <2>7. Ahead(Rows, l) \in Nat
    BY <2>1, <2>2, TakeBounds DEF LoopInv
  <2>8. asked - Ahead(Rows, l) =< 0
    BY <2>1, <2>2, <2>6, <2>7 DEF Ahead
  <2> QED
    BY <2>1, <2>2, <2>7, <2>8 DEF Take, Least, Greatest
<1> QED
  BY <1>1, <1>2 DEF PlanIsTake

(* The loop's plan is the closed form that Receive takes, however many     *)
(* lines there are and in whatever order their POs were dated              *)
(* (BuildAllocationPlan, ReceiveAsync).                                    *)
THEOREM WalkCorrect == WalkSpec => []PlanIsTake
<1>1. LoopInv /\ [WalkNext]_allVars => LoopInv'
  <2> SUFFICES ASSUME LoopInv, [WalkNext]_allVars PROVE LoopInv'
    OBVIOUS
  <2>1. CASE UNCHANGED allVars
    <3>1. UNCHANGED <<vars, asked, lines, left, plan>>
      BY <2>1 DEF allVars
    <3>2. /\ Rows' = Rows /\ Remaining' = Remaining /\ asked' = asked
          /\ \A x, m : Precedes(x, m)' <=> Precedes(x, m)
          /\ \A x : Take(Rows, asked, x)' = Take(Rows, asked, x)
          /\ TypeOK'
      BY <3>1, LoopFrame DEF LoopInv
    <3> QED
      BY <3>1, <3>2 DEF LoopInv, Passed, Greatest
  <2> QED
    BY <2>1, LoopStep DEF WalkNext
<1> QED
  BY <1>1, LoopInit, LoopPlan, PTL DEF WalkSpec
=============================================================================
