--------------------------- MODULE CommandPipeProofs ---------------------------
(***************************************************************************)
(* The command pipe's order and at-most-once promise, for every behaviour. *)
(***************************************************************************)
EXTENDS CommandPipe, TLAPS, SequenceTheorems

TypeOK ==
    /\ sent \in Nat
    /\ pipe \in Seq(Nat)
    /\ got \in Seq(Nat)
    /\ up \in BOOLEAN
    /\ broken \in BOOLEAN

IInv == TypeOK /\ InOrderAtMostOnce

USE DEF vars

\* Nothing sent, nothing taken.
LEMMA InitIInv == Init => IInv
  <1> SUFFICES ASSUME Init PROVE IInv
    OBVIOUS
  <1>1. TypeOK
    BY EmptySeq DEF Init, TypeOK
  <1>2. Len(got) = 0 /\ Len(pipe) = 0
    BY DEF Init
  <1>3. InOrderAtMostOnce
    BY <1>2 DEF InOrderAtMostOnce, Increasing
  <1> QED BY <1>1, <1>3 DEF IInv

\* A command put is the youngest of all.
LEMMA PutIInv == IInv /\ Put => IInv'
  <1> SUFFICES ASSUME IInv, Put PROVE IInv'
    OBVIOUS
  <1>1. TypeOK'
    BY DEF IInv, TypeOK, Put
  <1>2. /\ Len(pipe) \in Nat
        /\ Len(pipe') = Len(pipe) + 1
        /\ \A j \in 1 .. Len(pipe) : pipe'[j] = pipe[j]
        /\ pipe'[Len(pipe) + 1] = sent + 1
    BY DEF IInv, TypeOK, Put
  <1>3. sent \in Nat /\ sent' = sent + 1 /\ got' = got
    BY DEF IInv, TypeOK, Put
  <1>4. \A j \in 1 .. Len(pipe) : pipe[j] \in Nat /\ pipe[j] <= sent
    BY DEF IInv, TypeOK, InOrderAtMostOnce
  <1>5. \A i \in 1 .. Len(got) : got[i] \in Nat /\ got[i] <= sent
    BY DEF IInv, TypeOK, InOrderAtMostOnce
  <1>6. Increasing(pipe)'
    BY <1>2, <1>3, <1>4 DEF IInv, InOrderAtMostOnce, Increasing
  <1>7. ASSUME NEW i \in 1 .. Len(got), NEW j \in 1 .. Len(pipe')
        PROVE  got[i] < pipe'[j]
    BY <1>2, <1>3, <1>4, <1>5 DEF IInv, InOrderAtMostOnce
  <1>8. \A j \in 1 .. Len(pipe') : pipe'[j] <= sent'
    BY <1>2, <1>3, <1>4
  <1>9. \A i \in 1 .. Len(got) : got[i] <= sent'
    BY <1>3, <1>5
  <1> QED BY <1>1, <1>3, <1>6, <1>7, <1>8, <1>9
          DEF IInv, InOrderAtMostOnce, Increasing

\* A command taken was the oldest under way.
LEMMA TakeIInv == IInv /\ Take => IInv'
  <1> SUFFICES ASSUME IInv, Take PROVE IInv'
    OBVIOUS
  <1>1. TypeOK'
    BY DEF IInv, TypeOK, Take
  <1>2. /\ Len(got) \in Nat
        /\ Len(got') = Len(got) + 1
        /\ \A i \in 1 .. Len(got) : got'[i] = got[i]
        /\ got'[Len(got) + 1] = pipe[1]
    BY DEF IInv, TypeOK, Take
  <1>3. /\ Len(pipe) \in Nat \ {0}
        /\ Len(pipe') = Len(pipe) - 1
        /\ \A j \in 1 .. Len(pipe') : pipe'[j] = pipe[j + 1]
    BY DEF IInv, TypeOK, Take
  <1>4. sent' = sent
    BY DEF Take
  <1>5. /\ \A i \in 1 .. Len(got) : got[i] \in Nat
        /\ \A j \in 1 .. Len(pipe) : pipe[j] \in Nat
    BY DEF IInv, TypeOK
  <1>6. Increasing(got)'
    <2> SUFFICES ASSUME NEW i \in 1 .. Len(got'), NEW j \in 1 .. Len(got'), i < j
                 PROVE  got'[i] < got'[j]
      BY DEF Increasing
    <2>1. CASE j \in 1 .. Len(got)
      BY <2>1, <1>2 DEF IInv, InOrderAtMostOnce, Increasing
    <2>2. CASE j = Len(got) + 1
      BY <2>2, <1>2, <1>3 DEF IInv, InOrderAtMostOnce
    <2> QED BY <2>1, <2>2, <1>2
  <1>7. Increasing(pipe)'
    BY <1>3 DEF IInv, InOrderAtMostOnce, Increasing
  <1>8. ASSUME NEW i \in 1 .. Len(got'), NEW j \in 1 .. Len(pipe')
        PROVE  got'[i] < pipe'[j]
    <2>1. j + 1 \in 1 .. Len(pipe) /\ 1 \in 1 .. Len(pipe) /\ 1 < j + 1
      BY <1>3
    <2>2. CASE i \in 1 .. Len(got)
      BY <2>1, <2>2, <1>2, <1>3 DEF IInv, InOrderAtMostOnce
    <2>3. CASE i = Len(got) + 1
      BY <2>1, <2>3, <1>2, <1>3 DEF IInv, InOrderAtMostOnce, Increasing
    <2> QED BY <2>2, <2>3, <1>2
  <1>9. /\ \A i \in 1 .. Len(got') : got'[i] <= sent'
        /\ \A j \in 1 .. Len(pipe') : pipe'[j] <= sent'
    <2>1. /\ \A i \in 1 .. Len(got) : got[i] <= sent
          /\ \A j \in 1 .. Len(pipe) : pipe[j] <= sent
      BY DEF IInv, InOrderAtMostOnce
    <2>2. \A i \in 1 .. Len(got') : i \in 1 .. Len(got) \/ i = Len(got) + 1
      BY <1>2
    <2>3. /\ \A j \in 1 .. Len(pipe') : j + 1 \in 1 .. Len(pipe)
          /\ 1 \in 1 .. Len(pipe)
      BY <1>3
    <2> QED BY <1>2, <1>3, <1>4, <2>1, <2>2, <2>3
  <1> QED BY <1>1, <1>6, <1>7, <1>8, <1>9 DEF IInv, InOrderAtMostOnce

\* What is lost is the oldest under way.
LEMMA RelinkIInv == IInv /\ Relink => IInv'
  <1> SUFFICES ASSUME IInv, Relink PROVE IInv'
    OBVIOUS
  <1>1. PICK k \in 0 .. Len(pipe) : pipe' = SubSeq(pipe, k + 1, Len(pipe))
    BY DEF Relink
  <1>2. /\ Len(pipe) \in Nat
        /\ pipe' \in Seq(Nat)
        /\ Len(pipe') = Len(pipe) - k
        /\ \A j \in 1 .. Len(pipe') : pipe'[j] = pipe[j + k]
    <2>1. pipe \in Seq(Nat) /\ Len(pipe) \in Nat
      BY LenProperties DEF IInv, TypeOK
    <2>2. \A i \in k + 1 .. Len(pipe) : pipe[i] \in Nat
      BY <2>1, ElementOfSeq
    <2>3. /\ pipe' \in Seq(Nat)
          /\ Len(pipe') = IF k + 1 <= Len(pipe) THEN Len(pipe) - (k + 1) + 1 ELSE 0
          /\ \A j \in 1 .. Len(pipe) - (k + 1) + 1 : pipe'[j] = pipe[(k + 1) + j - 1]
      BY <1>1, <2>1, <2>2, SubSeqProperties
    <2> QED BY <2>1, <2>3
  <1>3. TypeOK'
    BY <1>2 DEF IInv, TypeOK, Relink
  <1>4. sent' = sent /\ got' = got
    BY DEF Relink
  <1>5. Increasing(pipe)'
    <2> SUFFICES ASSUME NEW i \in 1 .. Len(pipe'), NEW j \in 1 .. Len(pipe'), i < j
                 PROVE  pipe'[i] < pipe'[j]
      BY DEF Increasing
    <2>1. i + k \in 1 .. Len(pipe) /\ j + k \in 1 .. Len(pipe) /\ i + k < j + k
      BY <1>2
    <2> QED BY <2>1, <1>2 DEF IInv, InOrderAtMostOnce, Increasing
  <1>6. ASSUME NEW j \in 1 .. Len(pipe')
        PROVE  /\ pipe'[j] <= sent
               /\ \A i \in 1 .. Len(got) : got[i] < pipe'[j]
    <2>1. j + k \in 1 .. Len(pipe)
      BY <1>2
    <2> QED BY <2>1, <1>2 DEF IInv, InOrderAtMostOnce
  <1> QED BY <1>3, <1>4, <1>5, <1>6 DEF IInv, InOrderAtMostOnce, Increasing

\* What a pipe that breaks keeps is the oldest under way.
LEMMA BreakIInv == IInv /\ Break => IInv'
  <1> SUFFICES ASSUME IInv, Break PROVE IInv'
    OBVIOUS
  <1>1. PICK k \in 0 .. Len(pipe) : pipe' = SubSeq(pipe, 1, k)
    BY DEF Break
  <1>2. /\ Len(pipe) \in Nat
        /\ pipe' \in Seq(Nat)
        /\ Len(pipe') = k
        /\ \A j \in 1 .. k : pipe'[j] = pipe[j]
    <2>1. pipe \in Seq(Nat) /\ Len(pipe) \in Nat
      BY LenProperties DEF IInv, TypeOK
    <2>2. \A i \in 1 .. k : pipe[i] \in Nat
      BY <2>1, ElementOfSeq
    <2>3. /\ pipe' \in Seq(Nat)
          /\ Len(pipe') = IF 1 <= k THEN k - 1 + 1 ELSE 0
          /\ \A j \in 1 .. k - 1 + 1 : pipe'[j] = pipe[1 + j - 1]
      BY <1>1, <2>1, <2>2, SubSeqProperties
    <2> QED BY <2>1, <2>3
  <1>3. TypeOK'
    BY <1>2 DEF IInv, TypeOK, Break
  <1>4. sent' = sent /\ got' = got
    BY DEF Break
  <1>5. ASSUME NEW j \in 1 .. Len(pipe')
        PROVE  j \in 1 .. Len(pipe) /\ pipe'[j] = pipe[j]
    BY <1>2
  <1> QED BY <1>3, <1>4, <1>5 DEF IInv, InOrderAtMostOnce, Increasing

\* Every action keeps the invariant.
LEMMA NextIInv == IInv /\ [Next]_vars => IInv'
  <1>1. IInv /\ UNCHANGED vars => IInv'
    BY DEF IInv, TypeOK, InOrderAtMostOnce, Increasing
  <1> QED BY <1>1, PutIInv, TakeIInv, RelinkIInv, BreakIInv DEF Next

\* A hub reading from the pipe sees the commands in the order they were
\* accepted, none twice, however often the connection drops.
THEOREM PipeOrder == Spec => []InOrderAtMostOnce
  <1>1. IInv => InOrderAtMostOnce
    BY DEF IInv
  <1> QED BY InitIInv, NextIInv, <1>1, PTL DEF Spec
================================================================================
