--------------------------- MODULE QueuePtr_proofs ---------------------------
(***************************************************************************)
(* Theorems about QueuePtr, for any queues, messages and pipe capacity:    *)
(* types, the safety of the AIO helper, and the implementation of          *)
(* LossyFifo.                                                              *)
(***************************************************************************)
EXTENDS QueuePtr, FiniteSetTheorems, TLAPS

\* A message is on its way at most once, and its box is allocated meanwhile.
OnTheWay ==
    /\ \A q \in Queues : \A i \in DOMAIN todo[q] : box[todo[q][i]] = "used"
    /\ \A q \in Queues : \A i \in DOMAIN pipe[q] : box[pipe[q][i]] = "used"
    /\ \A q, r \in Queues : \A i \in DOMAIN todo[q], j \in DOMAIN todo[r] :
          todo[q][i] = todo[r][j] => q = r /\ i = j
    /\ \A q, r \in Queues : \A i \in DOMAIN pipe[q], j \in DOMAIN pipe[r] :
          pipe[q][i] = pipe[r][j] => q = r /\ i = j
    /\ \A q, r \in Queues : \A i \in DOMAIN todo[q], j \in DOMAIN pipe[r] :
          todo[q][i] # pipe[r][j]

\* The aiocb of a write that is not finished is allocated.
AiocbInUse ==
    /\ \A q \in Queues : writing[q] # NoMsg => aiocb[writing[q]] = "used"
    /\ \A q \in Queues : \A i \in DOMAIN todo[q] : aiocb[todo[q][i]] = "used"

IInv == TypeOK /\ OnTheWay /\ AiocbInUse

-----------------------------------------------------------------------------
(***************************************************************************)
(* Sequences                                                               *)
(***************************************************************************)

LEMMA AppendFacts ==
    ASSUME NEW S, NEW s \in Seq(S), NEW e \in S
    PROVE  /\ Append(s, e) \in Seq(S)
           /\ Len(Append(s, e)) = Len(s) + 1
           /\ DOMAIN Append(s, e) = 1..(Len(s) + 1)
           /\ \A i \in 1..Len(s) : Append(s, e)[i] = s[i]
           /\ Append(s, e)[Len(s) + 1] = e
OBVIOUS

LEMMA TailFacts ==
    ASSUME NEW S, NEW s \in Seq(S), s # <<>>
    PROVE  /\ Head(s) \in S /\ Head(s) = s[1]
           /\ Tail(s) \in Seq(S)
           /\ Len(s) \in Nat \ {0} /\ Len(Tail(s)) = Len(s) - 1
           /\ DOMAIN Tail(s) = 1..(Len(s) - 1)
           /\ \A i \in 1..(Len(s) - 1) : Tail(s)[i] = s[i + 1]
OBVIOUS

LEMMA ConcatFacts ==
    ASSUME NEW S, NEW s \in Seq(S), NEW t \in Seq(S)
    PROVE  /\ s \o t \in Seq(S)
           /\ Len(s \o t) = Len(s) + Len(t)
           /\ DOMAIN (s \o t) = 1..(Len(s) + Len(t))
           /\ \A i \in 1..Len(s) : (s \o t)[i] = s[i]
           /\ \A i \in 1..Len(t) : (s \o t)[Len(s) + i] = t[i]
OBVIOUS

LEMMA SameSeq ==
    ASSUME NEW S, NEW s \in Seq(S), NEW t \in Seq(S), Len(s) = Len(t),
           \A i \in 1..Len(s) : s[i] = t[i]
    PROVE  s = t
OBVIOUS

LEMMA DrainedCount ==
    ASSUME NEW g \in Seq(Msgs)
    PROVE  /\ Drained(g) \subseteq 1..Len(g)
           /\ Cardinality(Drained(g)) \in Nat
           /\ \A j \in Drained(g) : ~InProgress(g[j])
<1>1. Drained(g) \subseteq 1..Len(g)
    BY DEF Drained
<1>2. IsFiniteSet(1..Len(g))
    BY FS_Interval
<1>3. Cardinality(Drained(g)) \in Nat
    BY <1>1, <1>2, FS_Subset, FS_CardinalityType
<1>4. ASSUME NEW j \in Drained(g)
      PROVE  ~InProgress(g[j])
    <2>1. j \in 1..j
        BY <1>1
    <2> QED BY <2>1 DEF Drained
<1> QED BY <1>1, <1>3, <1>4

-----------------------------------------------------------------------------
(***************************************************************************)
(* The inductive invariant                                                 *)
(***************************************************************************)

LEMMA SendKeeps ==
    ASSUME IInv, NEW q \in Queues, NEW m \in Msgs, QueuePtrSend(q, m)
    PROVE  IInv'
<1> USE DEF IInv
<1>1. /\ todo \in [Queues -> Seq(Msgs)] /\ pipe' = pipe /\ writing' = writing
      /\ box[m] = "none" /\ box' = [box EXCEPT ![m] = "used"]
      /\ aiocb' = [aiocb EXCEPT ![m] = "used"]
      /\ box \in [Msgs -> Memory] /\ aiocb \in [Msgs -> Memory]
      /\ todo' = [todo EXCEPT ![q] = Append(@, m)]
    BY DEF QueuePtrSend, Allocate, TypeOK
<1>2. /\ \A r \in Queues \ {q} : todo'[r] = todo[r]
      /\ todo'[q] = Append(todo[q], m)
    BY <1>1
<1>3. /\ todo'[q] \in Seq(Msgs)
      /\ DOMAIN todo'[q] = 1..(Len(todo[q]) + 1)
      /\ \A i \in 1..Len(todo[q]) : todo'[q][i] = todo[q][i]
      /\ todo'[q][Len(todo[q]) + 1] = m
      /\ Len(todo[q]) \in Nat /\ DOMAIN todo[q] = 1..Len(todo[q])
    BY <1>1, <1>2, AppendFacts
<1>4. TypeOK'
    BY <1>1, <1>3 DEF TypeOK, QueuePtrSend, Memory
<1>5. ASSUME NEW r \in Queues, NEW i \in DOMAIN todo'[r]
      PROVE  \/ i \in DOMAIN todo[r] /\ todo'[r][i] = todo[r][i] /\ todo[r][i] # m
             \/ r = q /\ i = Len(todo[q]) + 1 /\ todo'[r][i] = m
    BY <1>1, <1>2, <1>3 DEF OnTheWay
<1>6. \A r \in Queues : \A i \in DOMAIN pipe[r] : pipe[r][i] # m
    BY <1>1 DEF OnTheWay
<1>7. /\ \A r \in Queues : \A i \in DOMAIN todo[r] : todo[r][i] \in Msgs
      /\ \A r \in Queues : \A i \in DOMAIN pipe[r] : pipe[r][i] \in Msgs
    BY DEF TypeOK
<1>8. OnTheWay'
    BY <1>1, <1>5, <1>6, <1>7 DEF OnTheWay
<1>9. AiocbInUse'
    <2>1. ASSUME NEW r \in Queues, writing[r] # NoMsg
          PROVE  aiocb'[writing[r]] = "used"
        BY <1>1, <2>1 DEF AiocbInUse, TypeOK
    <2> QED BY <1>1, <1>5, <1>7, <2>1 DEF AiocbInUse
<1> QED BY <1>4, <1>8, <1>9

LEMMA SendFailsKeeps ==
    ASSUME IInv, NEW m \in Msgs, QueuePtrSendFails(m)
    PROVE  IInv'
<1> USE DEF IInv
<1>1. /\ todo' = todo /\ pipe' = pipe /\ writing' = writing
      /\ box' = [box EXCEPT ![m] = "used"] /\ aiocb' = [aiocb EXCEPT ![m] = "used"]
      /\ box \in [Msgs -> Memory] /\ aiocb \in [Msgs -> Memory]
    BY DEF QueuePtrSendFails, Allocate, TypeOK, io
<1>2. TypeOK'
    BY <1>1 DEF TypeOK, QueuePtrSendFails, Memory
<1>3. \A d \in Msgs : (box[d] = "used" => box'[d] = "used")
                      /\ (aiocb[d] = "used" => aiocb'[d] = "used")
    BY <1>1
<1>4. /\ \A r \in Queues : \A i \in DOMAIN todo[r] : todo[r][i] \in Msgs
      /\ \A r \in Queues : \A i \in DOMAIN pipe[r] : pipe[r][i] \in Msgs
      /\ \A r \in Queues : writing[r] # NoMsg => writing[r] \in Msgs
    BY DEF TypeOK
<1>5. OnTheWay' /\ AiocbInUse'
    BY <1>1, <1>3, <1>4 DEF OnTheWay, AiocbInUse
<1> QED BY <1>2, <1>5

LEMMA FinishKeeps ==
    ASSUME IInv, NEW q \in Queues, Finish(q)
    PROVE  IInv'
BY DEF IInv, TypeOK, OnTheWay, AiocbInUse, Finish, mem

LEMMA WriteKeeps ==
    ASSUME IInv, NEW q \in Queues, Write(q)
    PROVE  IInv'
<1> USE DEF IInv
<1> DEFINE m == Head(todo[q])
<1>1. /\ todo[q] \in Seq(Msgs) /\ todo[q] # <<>> /\ pipe[q] \in Seq(Msgs)
      /\ todo' = [todo EXCEPT ![q] = Tail(@)]
      /\ todo \in [Queues -> Seq(Msgs)] /\ pipe \in [Queues -> Seq(Msgs)]
      /\ box' = box /\ aiocb' = aiocb /\ garbage' = garbage /\ got' = got
    BY DEF Write, TypeOK, mem
<1>2. /\ m \in Msgs /\ m = todo[q][1] /\ 1 \in DOMAIN todo[q]
      /\ todo'[q] \in Seq(Msgs)
      /\ \A i \in DOMAIN todo'[q] : i + 1 \in DOMAIN todo[q] /\ i + 1 # 1
                                     /\ todo'[q][i] = todo[q][i + 1]
      /\ DOMAIN todo'[q] \subseteq Int
    BY <1>1, TailFacts
<1>3. \A r \in Queues \ {q} : todo'[r] = todo[r]
    BY <1>1
<1>4. ASSUME NEW r \in Queues, NEW i \in DOMAIN todo'[r]
      PROVE  todo'[r][i] # m
    BY <1>1, <1>2, <1>3 DEF OnTheWay
<1>5. /\ \A r \in Queues : \A i \in DOMAIN todo'[r] : box[todo'[r][i]] = "used"
      /\ \A r \in Queues : \A i \in DOMAIN todo'[r] : aiocb[todo'[r][i]] = "used"
    BY <1>1, <1>2, <1>3 DEF OnTheWay, AiocbInUse
<1>6. \A r, v \in Queues : \A i \in DOMAIN todo'[r], j \in DOMAIN todo'[v] :
          todo'[r][i] = todo'[v][j] => r = v /\ i = j
    BY <1>2, <1>3 DEF OnTheWay
<1>7. \A r, v \in Queues : \A i \in DOMAIN todo'[r], j \in DOMAIN pipe[v] :
          todo'[r][i] # pipe[v][j]
    BY <1>2, <1>3 DEF OnTheWay
<1>8. CASE Len(pipe[q]) < PipeCap
    <2>1. pipe' = [pipe EXCEPT ![q] = Append(@, m)] /\ writing' = [writing EXCEPT ![q] = m]
          /\ lost' = lost
        BY <1>8 DEF Write
    <2>2. /\ pipe'[q] \in Seq(Msgs)
          /\ DOMAIN pipe'[q] = 1..(Len(pipe[q]) + 1) /\ DOMAIN pipe[q] = 1..Len(pipe[q])
          /\ \A i \in 1..Len(pipe[q]) : pipe'[q][i] = pipe[q][i]
          /\ pipe'[q][Len(pipe[q]) + 1] = m
          /\ Len(pipe[q]) \in Nat
        BY <1>1, <1>2, <2>1, AppendFacts
    <2>3. TypeOK'
        BY <1>1, <1>2, <2>1, <2>2 DEF TypeOK
    <2>4. ASSUME NEW r \in Queues, NEW i \in DOMAIN pipe'[r]
          PROVE  \/ i \in DOMAIN pipe[r] /\ pipe'[r][i] = pipe[r][i] /\ pipe[r][i] # m
                 \/ r = q /\ i = Len(pipe[q]) + 1 /\ pipe'[r][i] = m
        BY <1>1, <1>2, <2>1, <2>2 DEF OnTheWay
    <2>5. box[m] = "used" /\ aiocb[m] = "used"
        BY <1>2 DEF OnTheWay, AiocbInUse
    <2>6. OnTheWay'
        <3>1. \A r \in Queues : \A i \in DOMAIN todo'[r] : box'[todo'[r][i]] = "used"
            <4>1. box' = box
                BY <1>1
            <4> QED BY <4>1, <1>5, Zenon
        <3>2. \A r \in Queues : \A i \in DOMAIN pipe'[r] : box'[pipe'[r][i]] = "used"
            <4>1. box' = box
                BY <1>1
            <4>2. \A r \in Queues : \A i \in DOMAIN pipe'[r] : box[pipe'[r][i]] = "used"
                BY <2>4, <2>5 DEF OnTheWay
            <4> QED BY <4>1, <4>2, Zenon
        <3>3. \A r, v \in Queues : \A i \in DOMAIN pipe'[r], j \in DOMAIN pipe'[v] :
                  pipe'[r][i] = pipe'[v][j] => r = v /\ i = j
            BY <2>4 DEF OnTheWay
        <3>4. \A r, v \in Queues : \A i \in DOMAIN todo'[r], j \in DOMAIN pipe'[v] :
                  todo'[r][i] # pipe'[v][j]
            BY <1>4, <1>7, <2>4
        <3> QED BY <1>6, <3>1, <3>2, <3>3, <3>4 DEF OnTheWay
    <2>7. \A r \in Queues : writing'[r] # NoMsg => aiocb[writing'[r]] = "used"
        BY <2>1, <2>5 DEF AiocbInUse, TypeOK
    <2> QED BY <1>1, <1>5, <2>3, <2>6, <2>7 DEF AiocbInUse
<1>9. CASE ~(Len(pipe[q]) < PipeCap)
    <2>1. pipe' = pipe /\ writing' = writing /\ lost' = lost \cup {m}
        BY <1>9 DEF Write
    <2>2. TypeOK'
        BY <1>1, <1>2, <2>1 DEF TypeOK
    <2>3. OnTheWay' /\ AiocbInUse'
        BY <1>1, <1>5, <1>6, <1>7, <2>1 DEF OnTheWay, AiocbInUse
    <2> QED BY <2>2, <2>3
<1> QED BY <1>8, <1>9

LEMMA ReadKeeps ==
    ASSUME IInv, NEW q \in Queues, QueueProcInput(q)
    PROVE  IInv'
<1> USE DEF IInv
<1> DEFINE m == Head(pipe[q])
           list == ListWith(m)
           free == {list[j] : j \in Drained(list)} \cup {d \in {m} : ~Keep(d)}
<1>1. /\ pipe \in [Queues -> Seq(Msgs)] /\ pipe[q] \in Seq(Msgs) /\ pipe[q] # <<>>
      /\ pipe' = [pipe EXCEPT ![q] = Tail(@)]
      /\ todo' = todo /\ writing' = writing /\ lost' = lost
    BY DEF QueueProcInput, TypeOK
<1>2. /\ m \in Msgs /\ m = pipe[q][1] /\ 1 \in DOMAIN pipe[q]
      /\ pipe'[q] \in Seq(Msgs)
      /\ \A i \in DOMAIN pipe'[q] : i + 1 \in DOMAIN pipe[q] /\ i + 1 # 1
                                     /\ pipe'[q][i] = pipe[q][i + 1]
      /\ DOMAIN pipe'[q] \subseteq Int
    BY <1>1, TailFacts
<1>3. \A r \in Queues \ {q} : pipe'[r] = pipe[r]
    BY <1>1
<1>4. /\ got' = [got EXCEPT ![q] = Append(@, m)]
      /\ garbage' = SubSeq(list, Cardinality(Drained(list)) + 1, Len(list))
      /\ aiocb' = [d \in Msgs |-> IF d \in free THEN "freed" ELSE aiocb[d]]
      /\ box' = [box EXCEPT ![m] = "freed"]
    BY DEF QueueProcInput, HandOver
<1>5. list \in Seq(Msgs)
    BY <1>2, AppendFacts DEF ListWith, TypeOK
<1>6. /\ Cardinality(Drained(list)) \in Nat /\ Drained(list) \subseteq DOMAIN list
      /\ \A j \in Drained(list) : ~InProgress(list[j])
    BY <1>5, DrainedCount
<1>7. TypeOK'
    <2>1. garbage' \in Seq(Msgs)
        BY <1>4, <1>5, <1>6
    <2>2. got' \in [Queues -> Seq(Msgs)]
        BY <1>2, <1>4 DEF TypeOK
    <2>3. box' \in [Msgs -> Memory] /\ aiocb' \in [Msgs -> Memory]
        BY <1>4 DEF TypeOK, Memory
    <2> QED BY <1>1, <1>2, <2>1, <2>2, <2>3 DEF TypeOK
<1>8. \A d \in Msgs : InProgress(d) => d \notin free
    BY <1>6 DEF Keep
<1>9. OnTheWay'
    <2>1. /\ \A r \in Queues : \A i \in DOMAIN todo[r] : todo[r][i] # m /\ todo[r][i] \in Msgs
          /\ \A r \in Queues : \A i \in DOMAIN pipe[r] : pipe[r][i] \in Msgs
        BY <1>2 DEF OnTheWay, TypeOK
    <2>2. \A r \in Queues : \A i \in DOMAIN pipe'[r] : pipe'[r][i] # m
        BY <1>2, <1>3 DEF OnTheWay
    <2>3. \A d \in Msgs \ {m} : box'[d] = box[d]
        BY <1>4 DEF TypeOK
    <2>4. \A r \in Queues : \A i \in DOMAIN todo'[r] : box'[todo'[r][i]] = "used"
        <3>1. todo' = todo
            BY <1>1
        <3>2. \A r \in Queues : \A i \in DOMAIN todo[r] : box'[todo[r][i]] = "used"
            BY <2>1, <2>3 DEF OnTheWay
        <3> QED BY <3>1, <3>2, Zenon
    <2>5. \A r \in Queues : \A i \in DOMAIN pipe'[r] : box'[pipe'[r][i]] = "used"
        <3>1. ASSUME NEW r \in Queues, NEW i \in DOMAIN pipe'[r]
              PROVE  \E j \in DOMAIN pipe[r] : pipe'[r][i] = pipe[r][j]
            BY <1>2, <1>3
        <3>2. \A r \in Queues : \A j \in DOMAIN pipe[r] : box[pipe[r][j]] = "used"
            BY DEF OnTheWay
        <3>3. ASSUME NEW r \in Queues, NEW i \in DOMAIN pipe'[r]
              PROVE  box'[pipe'[r][i]] = "used"
            <4>1. PICK j \in DOMAIN pipe[r] : pipe'[r][i] = pipe[r][j]
                BY <3>1
            <4>2. pipe[r][j] \in Msgs \ {m} /\ pipe'[r][i] # m
                BY <2>1, <2>2, <4>1
            <4>3. box'[pipe[r][j]] = box[pipe[r][j]] /\ box[pipe[r][j]] = "used"
                BY <2>3, <3>2, <4>2
            <4> QED BY <4>1, <4>3, Zenon
        <3> QED BY <3>3, Zenon
    <2>6. \A r, v \in Queues : \A i \in DOMAIN pipe'[r], j \in DOMAIN pipe'[v] :
              pipe'[r][i] = pipe'[v][j] => r = v /\ i = j
        BY <1>2, <1>3 DEF OnTheWay
    <2>7. \A r, v \in Queues : \A i \in DOMAIN todo[r], j \in DOMAIN pipe'[v] :
              todo[r][i] # pipe'[v][j]
        BY <1>2, <1>3 DEF OnTheWay
    <2> QED BY <1>1, <2>4, <2>5, <2>6, <2>7 DEF OnTheWay
<1>10. AiocbInUse'
    <2>1. ASSUME NEW r \in Queues, writing[r] # NoMsg
          PROVE  writing[r] \in Msgs /\ InProgress(writing[r])
        BY <2>1 DEF TypeOK, InProgress
    <2>2. ASSUME NEW r \in Queues, NEW i \in DOMAIN todo[r]
          PROVE  todo[r][i] \in Msgs /\ InProgress(todo[r][i])
        BY DEF TypeOK, InProgress, Range
    <2> QED BY <1>1, <1>4, <1>8, <2>1, <2>2 DEF AiocbInUse
<1> QED BY <1>7, <1>9, <1>10

LEMMA InitIInv ==
    ASSUME Init
    PROVE  IInv
<1>1. <<>> \in Seq(Msgs) /\ DOMAIN <<>> = {}
    OBVIOUS
<1>2. TypeOK
    BY <1>1 DEF Init, TypeOK, Memory
<1>3. OnTheWay /\ AiocbInUse
    BY <1>1 DEF Init, OnTheWay, AiocbInUse
<1> QED BY <1>2, <1>3 DEF IInv

LEMMA StepIInv ==
    ASSUME IInv, [Next]_vars
    PROVE  IInv'
<1>1. CASE Next
    BY <1>1, SendKeeps, SendFailsKeeps, WriteKeeps, FinishKeeps, ReadKeeps DEF Next, Helper
<1>2. CASE UNCHANGED vars
    BY <1>2 DEF IInv, TypeOK, OnTheWay, AiocbInUse, vars, io, mem
<1> QED BY <1>1, <1>2

LEMMA AlwaysIInv == Spec => []IInv
<1>1. Init => IInv
    BY InitIInv
<1>2. IInv /\ [Next]_vars => IInv'
    BY StepIInv
<1> QED BY <1>1, <1>2, PTL DEF Spec

\* Queues, memory and the garbage list keep their types, for any number of
\* queues and messages and any capacity of the pipes.
THEOREM TypeInvariant == Spec => []TypeOK
<1>1. IInv => TypeOK
    BY DEF IInv
<1> QED BY <1>1, AlwaysIInv, PTL

\* The reader never frees an aiocb or a box the AIO helper still works on.
THEOREM HelperIsSafe == Spec => []HelperSafe
<1>1. IInv => HelperSafe
    BY DEF IInv, OnTheWay, AiocbInUse, HelperSafe
<1> QED BY <1>1, AlwaysIInv, PTL

-----------------------------------------------------------------------------
(***************************************************************************)
(* Who frees what                                                          *)
(***************************************************************************)

\* The aiocb of a message in a pipe is allocated.
PipeInUse == \A q \in Queues : \A i \in DOMAIN pipe[q] : aiocb[pipe[q][i]] = "used"

\* What is on the garbage list has been read, and is there once.
GarbageRead ==
    /\ \A i \in DOMAIN garbage : aiocb[garbage[i]] = "used" /\ box[garbage[i]] = "freed"
    /\ \A i, j \in DOMAIN garbage : garbage[i] = garbage[j] => i = j

\* Whoever still has to free an aiocb; that of a failed send stays.
Owned(m) ==
    \/ m \in lost
    \/ \E i \in DOMAIN garbage : garbage[i] = m
    \/ \E q \in Queues : \E i \in DOMAIN todo[q] : todo[q][i] = m
    \/ \E q \in Queues : \E i \in DOMAIN pipe[q] : pipe[q][i] = m

AllOwned == \A m \in Msgs : aiocb[m] = "used" => Owned(m)

Memories == PipeInUse /\ GarbageRead /\ AllOwned

\* The while loop takes the first elements of the list, as many as there are
\* finished writes before the first unfinished one.
LEMMA DrainedPrefix ==
    ASSUME NEW g \in Seq(Msgs)
    PROVE  Drained(g) = 1..Cardinality(Drained(g))
<1> DEFINE D == Drained(g)
           c == Cardinality(D)
<1>1. D \subseteq 1..Len(g) /\ c \in Nat /\ Len(g) \in Nat
    BY DrainedCount
<1>2. IsFiniteSet(D)
    <2>1. IsFiniteSet(1..Len(g))
        BY <1>1, FS_Interval
    <2> QED BY <1>1, <2>1, FS_Subset
<1>3. ASSUME NEW j \in D PROVE j \in 1..c
    <2>1. j \in 1..Len(g)
        BY <1>1
    <2>2. 1..j \subseteq D
        BY <2>1 DEF Drained
    <2>3. Cardinality(1..j) <= c
        BY <1>2, <2>2, FS_Subset
    <2>4. Cardinality(1..j) = j
        BY <2>1, FS_Interval
    <2> QED BY <1>1, <2>1, <2>3, <2>4
<1>4. D \subseteq 1..c
    BY <1>3
<1>5. IsFiniteSet(1..c) /\ Cardinality(1..c) = c
    BY <1>1, FS_Interval
<1> QED BY <1>4, <1>5, FS_Subset

LEMMA SendOwns ==
    ASSUME IInv, Memories, NEW q \in Queues, NEW m \in Msgs, QueuePtrSend(q, m)
    PROVE  Memories'
<1>1. /\ box[m] = "none" /\ box' = [box EXCEPT ![m] = "used"]
      /\ aiocb' = [aiocb EXCEPT ![m] = "used"]
      /\ todo' = [todo EXCEPT ![q] = Append(todo[q], m)]
      /\ UNCHANGED <<pipe, garbage, lost>>
    BY DEF QueuePtrSend, Allocate
<1>2. /\ todo \in [Queues -> Seq(Msgs)] /\ box \in [Msgs -> Memory] /\ aiocb \in [Msgs -> Memory]
      /\ \A r \in Queues : \A i \in DOMAIN pipe[r] : pipe[r][i] \in Msgs
      /\ \A i \in DOMAIN garbage : garbage[i] \in Msgs
    BY DEF IInv, TypeOK
<1>3. \A d \in Msgs : aiocb[d] = "used" => aiocb'[d] = "used"
    BY <1>1, <1>2
<1>4. \A d \in Msgs : box[d] = "freed" => box'[d] = "freed"
    BY <1>1, <1>2
<1>5. PipeInUse'
    BY <1>1, <1>2, <1>3 DEF Memories, PipeInUse
<1>6. GarbageRead'
    BY <1>1, <1>2, <1>3, <1>4 DEF Memories, GarbageRead
<1>7. AllOwned'
    <2> SUFFICES ASSUME NEW d \in Msgs, aiocb'[d] = "used" PROVE Owned(d)'
        BY DEF AllOwned
    <2>1. /\ todo'[q] = Append(todo[q], m)
          /\ \A r \in Queues \ {q} : todo'[r] = todo[r]
        BY <1>1, <1>2
    <2>2. \A r \in Queues : \A i \in DOMAIN todo[r] : i \in DOMAIN todo'[r] /\ todo'[r][i] = todo[r][i]
        <3>1. \A i \in DOMAIN todo[q] : i \in DOMAIN Append(todo[q], m) /\ Append(todo[q], m)[i] = todo[q][i]
            BY <1>2
        <3> QED BY <2>1, <3>1
    <2>3. CASE d = m
        <3>1. Len(todo[q]) + 1 \in DOMAIN todo'[q] /\ todo'[q][Len(todo[q]) + 1] = m
            BY <1>2, <2>1, AppendFacts
        <3> QED BY <2>3, <3>1 DEF Owned
    <2>4. CASE d # m
        <3>1. aiocb[d] = "used"
            BY <1>1, <1>2, <2>4
        <3>2. Owned(d)
            BY <3>1 DEF Memories, AllOwned
        <3> QED BY <1>1, <2>2, <3>2 DEF Owned
    <2> QED BY <2>3, <2>4
<1> QED BY <1>5, <1>6, <1>7 DEF Memories

LEMMA SendFailsOwns ==
    ASSUME IInv, Memories, NEW m \in Msgs, QueuePtrSendFails(m)
    PROVE  Memories'
<1>1. /\ box[m] = "none" /\ box' = [box EXCEPT ![m] = "used"]
      /\ aiocb' = [aiocb EXCEPT ![m] = "used"] /\ lost' = lost \cup {m}
      /\ UNCHANGED <<todo, pipe, garbage>>
    BY DEF QueuePtrSendFails, Allocate, io
<1>2. /\ box \in [Msgs -> Memory] /\ aiocb \in [Msgs -> Memory]
      /\ \A r \in Queues : \A i \in DOMAIN pipe[r] : pipe[r][i] \in Msgs
      /\ \A i \in DOMAIN garbage : garbage[i] \in Msgs
    BY DEF IInv, TypeOK
<1>3. \A d \in Msgs : /\ aiocb[d] = "used" => aiocb'[d] = "used"
                      /\ box[d] = "freed" => box'[d] = "freed"
                      /\ d # m => aiocb'[d] = aiocb[d]
    BY <1>1, <1>2
<1>4. PipeInUse' /\ GarbageRead'
    BY <1>1, <1>2, <1>3 DEF Memories, PipeInUse, GarbageRead
<1>5. AllOwned'
    <2> SUFFICES ASSUME NEW d \in Msgs, aiocb'[d] = "used" PROVE Owned(d)'
        BY DEF AllOwned
    <2>1. CASE d = m
        BY <1>1, <2>1 DEF Owned
    <2>2. CASE d # m
        <3>1. Owned(d)
            BY <1>3, <2>2 DEF Memories, AllOwned
        <3> QED BY <1>1, <3>1 DEF Owned
    <2> QED BY <2>1, <2>2
<1> QED BY <1>4, <1>5 DEF Memories

LEMMA WriteOwns ==
    ASSUME IInv, Memories, NEW q \in Queues, Write(q)
    PROVE  Memories'
<1> DEFINE m == Head(todo[q])
<1>1. /\ todo \in [Queues -> Seq(Msgs)] /\ pipe \in [Queues -> Seq(Msgs)]
      /\ todo[q] \in Seq(Msgs) /\ pipe[q] \in Seq(Msgs) /\ todo[q] # <<>>
      /\ todo' = [todo EXCEPT ![q] = Tail(todo[q])]
      /\ UNCHANGED <<box, aiocb, garbage>>
    BY DEF IInv, TypeOK, Write, mem
<1>2. /\ m = todo[q][1] /\ m \in Msgs /\ 1 \in DOMAIN todo[q]
      /\ Len(todo[q]) \in Nat \ {0} /\ DOMAIN todo[q] = 1..Len(todo[q])
      /\ DOMAIN Tail(todo[q]) = 1..(Len(todo[q]) - 1)
      /\ \A i \in 1..(Len(todo[q]) - 1) : Tail(todo[q])[i] = todo[q][i + 1]
    BY <1>1, TailFacts
<1>3. todo'[q] = Tail(todo[q]) /\ \A r \in Queues \ {q} : todo'[r] = todo[r]
    BY <1>1
<1>4. GarbageRead'
    BY <1>1 DEF Memories, GarbageRead
<1>5. aiocb[m] = "used"
    BY <1>2 DEF IInv, AiocbInUse
<1> HIDE DEF m
<1>6. ASSUME NEW r \in Queues, NEW i \in DOMAIN todo[r], todo[r][i] # m
      PROVE  \E j \in DOMAIN todo'[r] : todo'[r][j] = todo[r][i]
    <2>1. CASE r # q
        BY <1>3, <2>1
    <2>2. CASE r = q
        <3>1. i \in 1..Len(todo[q]) /\ i # 1
            BY <1>2, <1>6, <2>2
        <3>2. i - 1 \in 1..(Len(todo[q]) - 1) /\ (i - 1) + 1 = i
            BY <1>2, <3>1
        <3>3. i - 1 \in DOMAIN todo'[q] /\ todo'[q][i - 1] = todo[q][i]
            BY <1>2, <1>3, <3>2
        <3> QED BY <2>2, <3>3
    <2> QED BY <2>1, <2>2
<1>7. CASE Len(pipe[q]) < PipeCap
    <2>1. pipe' = [pipe EXCEPT ![q] = Append(pipe[q], m)] /\ lost' = lost
        BY <1>7 DEF Write, m
    <2>2. /\ pipe'[q] = Append(pipe[q], m)
          /\ \A r \in Queues \ {q} : pipe'[r] = pipe[r]
        BY <1>1, <2>1
    <2>3. /\ DOMAIN pipe'[q] = 1..(Len(pipe[q]) + 1) /\ DOMAIN pipe[q] = 1..Len(pipe[q])
          /\ Len(pipe[q]) \in Nat
          /\ \A i \in 1..Len(pipe[q]) : pipe'[q][i] = pipe[q][i]
          /\ pipe'[q][Len(pipe[q]) + 1] = m
        BY <1>1, <1>2, <2>2, AppendFacts
    <2>4. \A r \in Queues : \A i \in DOMAIN pipe'[r] :
              pipe'[r][i] = m \/ (i \in DOMAIN pipe[r] /\ pipe'[r][i] = pipe[r][i])
        <3>1. \A i \in DOMAIN pipe'[q] : i \in 1..Len(pipe[q]) \/ i = Len(pipe[q]) + 1
            BY <2>3
        <3>2. \A i \in DOMAIN pipe'[q] : pipe'[q][i] = m \/ (i \in DOMAIN pipe[q] /\ pipe'[q][i] = pipe[q][i])
            BY <2>3, <3>1
        <3> QED BY <2>2, <3>2
    <2>5. \A r \in Queues : \A i \in DOMAIN pipe[r] : i \in DOMAIN pipe'[r] /\ pipe'[r][i] = pipe[r][i]
        BY <2>2, <2>3
    <2>6. PipeInUse'
        <3>1. \A r \in Queues : \A i \in DOMAIN pipe'[r] : aiocb[pipe'[r][i]] = "used"
            BY <1>5, <2>4 DEF Memories, PipeInUse
        <3> QED BY <1>1, <3>1 DEF PipeInUse
    <2>7. ASSUME NEW d \in Msgs, aiocb'[d] = "used" PROVE Owned(d)'
        <3>1. Owned(d)
            BY <1>1, <2>7 DEF Memories, AllOwned
        <3>2. CASE d = m
            <4>1. Len(pipe[q]) + 1 \in DOMAIN pipe'[q]
                BY <2>3
            <4> QED BY <2>3, <3>2, <4>1 DEF Owned
        <3>3. CASE d # m
            <4>1. CASE d \in lost \/ \E i \in DOMAIN garbage : garbage[i] = d
                BY <1>1, <2>1, <4>1 DEF Owned
            <4>2. CASE \E r \in Queues : \E i \in DOMAIN todo[r] : todo[r][i] = d
                BY <1>6, <3>3, <4>2 DEF Owned
            <4>3. CASE \E r \in Queues : \E i \in DOMAIN pipe[r] : pipe[r][i] = d
                BY <2>5, <4>3 DEF Owned
            <4> QED BY <3>1, <4>1, <4>2, <4>3 DEF Owned
        <3> QED BY <3>2, <3>3
    <2> QED BY <1>4, <2>6, <2>7 DEF Memories, AllOwned
<1>8. CASE ~(Len(pipe[q]) < PipeCap)
    <2>1. pipe' = pipe /\ lost' = lost \cup {m}
        BY <1>8 DEF Write, m
    <2>2. PipeInUse'
        BY <1>1, <2>1 DEF Memories, PipeInUse
    <2>3. ASSUME NEW d \in Msgs, aiocb'[d] = "used" PROVE Owned(d)'
        <3>1. Owned(d)
            BY <1>1, <2>3 DEF Memories, AllOwned
        <3> QED BY <1>1, <1>6, <2>1, <3>1 DEF Owned
    <2> QED BY <1>4, <2>2, <2>3 DEF Memories, AllOwned
<1> QED BY <1>7, <1>8

LEMMA ReadOwns ==
    ASSUME IInv, Memories, NEW q \in Queues, QueueProcInput(q)
    PROVE  Memories'
<1> DEFINE m == Head(pipe[q])
           list == ListWith(m)
           free == {list[j] : j \in Drained(list)} \cup {d \in {m} : ~Keep(d)}
           n == Cardinality(Drained(list))
<1>1. /\ pipe \in [Queues -> Seq(Msgs)] /\ pipe[q] \in Seq(Msgs) /\ pipe[q] # <<>>
      /\ garbage \in Seq(Msgs) /\ box \in [Msgs -> Memory] /\ aiocb \in [Msgs -> Memory]
      /\ pipe' = [pipe EXCEPT ![q] = Tail(pipe[q])]
      /\ UNCHANGED <<todo, lost>>
    BY DEF IInv, TypeOK, QueueProcInput
<1>2. /\ m \in Msgs /\ m = pipe[q][1] /\ 1 \in DOMAIN pipe[q]
      /\ Len(pipe[q]) \in Nat \ {0} /\ DOMAIN pipe[q] = 1..Len(pipe[q])
      /\ DOMAIN Tail(pipe[q]) = 1..(Len(pipe[q]) - 1)
      /\ \A i \in 1..(Len(pipe[q]) - 1) : Tail(pipe[q])[i] = pipe[q][i + 1]
    BY <1>1, TailFacts
<1>3. pipe'[q] = Tail(pipe[q]) /\ \A r \in Queues \ {q} : pipe'[r] = pipe[r]
    BY <1>1
<1>4. /\ garbage' = SubSeq(list, n + 1, Len(list))
      /\ aiocb' = [d \in Msgs |-> IF d \in free THEN "freed" ELSE aiocb[d]]
      /\ box' = [box EXCEPT ![m] = "freed"]
    BY DEF QueueProcInput
<1>5. list \in Seq(Msgs)
    BY <1>1, <1>2, AppendFacts DEF ListWith
<1>6. n \in Nat /\ Drained(list) = 1..n /\ Drained(list) \subseteq 1..Len(list) /\ Len(list) \in Nat
    BY <1>5, DrainedPrefix, DrainedCount
<1>7. n <= Len(list)
    BY <1>6
<1>8. /\ garbage' \in Seq(Msgs) /\ Len(garbage') = Len(list) - n /\ DOMAIN garbage' = 1..(Len(list) - n)
      /\ \A i \in 1..(Len(list) - n) : garbage'[i] = list[n + i]
    <2> HIDE DEF list, n
    <2> QED BY <1>4, <1>5, <1>6, <1>7
\* What the list holds: the garbage there was, and m if its write goes on.
<1>9. aiocb[m] = "used" /\ box[m] = "used" /\ \A i \in DOMAIN garbage : garbage[i] # m
    BY <1>2 DEF Memories, PipeInUse, GarbageRead, IInv, OnTheWay
<1>10. /\ DOMAIN garbage = 1..Len(garbage) /\ Len(garbage) \in Nat
       /\ \A i \in DOMAIN garbage : i \in 1..Len(list) /\ list[i] = garbage[i]
       /\ \A i \in 1..Len(list) : \/ i \in DOMAIN garbage /\ list[i] = garbage[i]
                                  \/ Keep(m) /\ i = Len(garbage) + 1 /\ list[i] = m
       /\ Keep(m) => Len(garbage) + 1 \in 1..Len(list) /\ list[Len(garbage) + 1] = m
    <2>1. CASE Keep(m)
        <3>1. list = Append(garbage, m)
            BY <2>1 DEF ListWith
        <3> HIDE DEF list, m
        <3> QED BY <1>1, <1>2, <2>1, <3>1, AppendFacts
    <2>2. CASE ~Keep(m)
        <3>1. list = garbage
            BY <2>2 DEF ListWith
        <3> HIDE DEF list, m
        <3> QED BY <1>1, <2>2, <3>1
    <2> QED BY <2>1, <2>2
<1> HIDE DEF m, list, n
<1>11. /\ \A i \in 1..Len(list) : list[i] \in Msgs /\ aiocb[list[i]] = "used"
       /\ \A i, j \in 1..Len(list) : list[i] = list[j] => i = j
    <2>1. ASSUME NEW i \in 1..Len(list) PROVE list[i] \in Msgs /\ aiocb[list[i]] = "used"
        BY <1>1, <1>2, <1>9, <1>10 DEF Memories, GarbageRead
    <2>2. ASSUME NEW i \in 1..Len(list), NEW j \in 1..Len(list), list[i] = list[j] PROVE i = j
        BY <1>9, <1>10, <2>2 DEF Memories, GarbageRead
    <2> QED BY <2>1, <2>2
<1>12. ASSUME NEW i \in 1..Len(list), list[i] \in free PROVE i \in 1..n
    <2>1. CASE list[i] = m /\ ~Keep(m)
        BY <1>9, <1>10, <2>1
    <2>2. CASE \E j \in Drained(list) : list[i] = list[j]
        BY <1>6, <1>11, <2>2
    <2> QED BY <1>12, <2>1, <2>2
<1>13. \A d \in Msgs : (d \notin free => aiocb'[d] = aiocb[d]) /\ (d \in free => aiocb'[d] = "freed")
    <2> HIDE DEF free
    <2> QED BY <1>4
<1>14. GarbageRead'
    <2>1. ASSUME NEW i \in DOMAIN garbage' PROVE aiocb'[garbage'[i]] = "used" /\ box'[garbage'[i]] = "freed"
        <3>1. n + i \in 1..Len(list) /\ n + i \notin 1..n /\ garbage'[i] = list[n + i]
            BY <1>6, <1>7, <1>8
        <3>2. list[n + i] \notin free /\ list[n + i] \in Msgs /\ aiocb[list[n + i]] = "used"
            BY <1>11, <1>12, <3>1
        <3>3. aiocb'[list[n + i]] = "used"
            BY <1>13, <3>2
        <3>4. box'[list[n + i]] = "freed"
            <4>1. list[n + i] = m \/ box[list[n + i]] = "freed"
                BY <1>10, <3>1 DEF Memories, GarbageRead
            <4> QED BY <1>1, <1>2, <1>4, <3>2, <4>1
        <3> QED BY <3>1, <3>3, <3>4
    <2>2. ASSUME NEW i \in DOMAIN garbage', NEW j \in DOMAIN garbage', garbage'[i] = garbage'[j] PROVE i = j
        <3>1. n + i \in 1..Len(list) /\ n + j \in 1..Len(list) /\ list[n + i] = list[n + j]
            BY <1>6, <1>7, <1>8, <2>2
        <3>2. n + i = n + j
            BY <1>11, <3>1
        <3> QED BY <1>6, <1>8, <3>2
    <2> QED BY <2>1, <2>2 DEF GarbageRead
<1>15. PipeInUse'
    <2> SUFFICES ASSUME NEW r \in Queues, NEW i \in DOMAIN pipe'[r] PROVE aiocb'[pipe'[r][i]] = "used"
        BY DEF PipeInUse
    <2>1. PICK j \in DOMAIN pipe[r] : pipe'[r][i] = pipe[r][j] /\ pipe[r][j] # m
        <3>1. CASE r # q
            BY <1>2, <1>3, <3>1 DEF IInv, OnTheWay
        <3>2. CASE r = q
            <4>1. i + 1 \in DOMAIN pipe[q] /\ i + 1 # 1 /\ pipe'[q][i] = pipe[q][i + 1]
                <5>1. i \in 1..(Len(pipe[q]) - 1)
                    BY <1>2, <1>3, <3>2
                <5> QED BY <1>2, <1>3, <5>1
            <4>2. pipe[q][i + 1] # m
                BY <1>2, <4>1 DEF IInv, OnTheWay
            <4> QED BY <3>2, <4>1, <4>2
        <3> QED BY <3>1, <3>2
    <2>2. aiocb[pipe[r][j]] = "used" /\ box[pipe[r][j]] = "used" /\ pipe[r][j] \in Msgs
        BY <1>1 DEF Memories, PipeInUse, IInv, OnTheWay
    <2>3. \A k \in 1..Len(list) : list[k] # pipe[r][j]
        BY <1>10, <2>1, <2>2 DEF Memories, GarbageRead
    <2>4. pipe[r][j] \notin free
        BY <1>6, <2>1, <2>3
    <2> QED BY <1>13, <2>1, <2>2, <2>4
<1>16. AllOwned'
    <2> SUFFICES ASSUME NEW d \in Msgs, aiocb'[d] = "used" PROVE Owned(d)'
        BY DEF AllOwned
    <2>1. d \notin free /\ aiocb[d] = "used"
        BY <1>13
    <2>2. Owned(d)
        BY <2>1 DEF Memories, AllOwned
    <2>3. ASSUME NEW k \in 1..Len(list), list[k] = d PROVE Owned(d)'
        <3>1. k \notin 1..n
            BY <1>6, <2>1, <2>3
        <3>2. k - n \in 1..(Len(list) - n) /\ n + (k - n) = k
            BY <1>6, <1>7, <3>1
        <3>3. k - n \in DOMAIN garbage' /\ garbage'[k - n] = d
            BY <1>8, <2>3, <3>2
        <3> QED BY <3>3 DEF Owned
    <2>4. CASE \E i \in DOMAIN garbage : garbage[i] = d
        BY <1>10, <2>3, <2>4
    <2>5. CASE d = m
        <3>1. Keep(m)
            BY <2>1, <2>5
        <3> QED BY <1>10, <2>3, <2>5, <3>1
    <2>6. ASSUME NEW r \in Queues, NEW i \in DOMAIN pipe[r], pipe[r][i] = d, d # m PROVE Owned(d)'
        <3>1. CASE r # q
            BY <1>3, <2>6, <3>1 DEF Owned
        <3>2. CASE r = q
            <4>1. i \in 1..Len(pipe[q]) /\ i # 1
                BY <1>2, <2>6, <3>2
            <4>2. i - 1 \in 1..(Len(pipe[q]) - 1) /\ (i - 1) + 1 = i
                BY <1>2, <4>1
            <4>3. i - 1 \in DOMAIN pipe'[q] /\ pipe'[q][i - 1] = d
                BY <1>2, <1>3, <2>6, <3>2, <4>2
            <4> QED BY <4>3 DEF Owned
        <3> QED BY <3>1, <3>2
    <2>7. CASE d \in lost \/ \E r \in Queues : \E i \in DOMAIN todo[r] : todo[r][i] = d
        BY <1>1, <2>7 DEF Owned
    <2> QED BY <2>2, <2>4, <2>5, <2>6, <2>7 DEF Owned
<1> QED BY <1>14, <1>15, <1>16 DEF Memories

LEMMA StepOwns ==
    ASSUME IInv, Memories, [Next]_vars
    PROVE  Memories'
<1>1. CASE \E q \in Queues : Finish(q) \/ UNCHANGED vars
    BY <1>1 DEF Finish, mem, vars, io, Memories, PipeInUse, GarbageRead, AllOwned, Owned
<1>2. CASE UNCHANGED vars
    BY <1>2 DEF mem, vars, io, Memories, PipeInUse, GarbageRead, AllOwned, Owned
<1> QED BY <1>1, <1>2, SendOwns, SendFailsOwns, WriteOwns, ReadOwns DEF Next, Helper

\* Every box and aiocb is freed once, by the reader or from the garbage list,
\* and only those of failed sends stay allocated with nobody to free them.
THEOREM MemoryReclaimed == Spec => []Reclaimed
<1>1. Init => Memories
    BY DEF Init, Memories, PipeInUse, GarbageRead, AllOwned, Owned
<1>2. IInv /\ Memories /\ [Next]_vars => Memories'
    BY StepOwns
<1>3. IInv /\ Memories => Reclaimed
    <2> SUFFICES ASSUME IInv, Memories PROVE Reclaimed
        OBVIOUS
    <2>1. \A q \in Queues : \A i \in DOMAIN pipe[q] : box[pipe[q][i]] = "used" /\ aiocb[pipe[q][i]] = "used"
        BY DEF IInv, OnTheWay, Memories, PipeInUse
    <2>2. \A i, j \in DOMAIN garbage : aiocb[garbage[i]] = "used" /\ (garbage[i] = garbage[j] => i = j)
        BY DEF Memories, GarbageRead
    <2>3. \A m \in Msgs : aiocb[m] = "used" =>
              \/ m \in lost \cup Range(garbage)
              \/ \E q \in Queues : m \in Range(todo[q]) \cup Range(pipe[q])
        BY DEF Memories, AllOwned, Owned, Range
    <2> QED BY <2>1, <2>2, <2>3 DEF Reclaimed
<1> QED BY <1>1, <1>2, <1>3, AlwaysIInv, PTL DEF Spec

-----------------------------------------------------------------------------
(***************************************************************************)
(* The implementation of LossyFifo                                         *)
(***************************************************************************)

\* The state of LossyFifo as a function of the state of QueuePtr.
Way  == [q \in Queues |-> pipe[q] \o todo[q]]
Sent == {m \in Msgs : box[m] # "none"}

LEMMA ConcatAppend ==
    ASSUME NEW S, NEW s \in Seq(S), NEW t \in Seq(S), NEW e \in S
    PROVE  s \o Append(t, e) = Append(s \o t, e)
<1>1. Append(t, e) \in Seq(S) /\ s \o t \in Seq(S)
    BY AppendFacts, ConcatFacts
<1>2. s \o Append(t, e) \in Seq(S) /\ Append(s \o t, e) \in Seq(S)
    BY <1>1, AppendFacts, ConcatFacts
<1> DEFINE l == s \o Append(t, e)
           r == Append(s \o t, e)
<1>3. /\ Len(s) \in Nat /\ Len(t) \in Nat
      /\ Len(l) = Len(s) + Len(t) + 1 /\ Len(r) = Len(s) + Len(t) + 1
    BY <1>1
<1>4. ASSUME NEW i \in 1..Len(l)
      PROVE  l[i] = r[i]
    BY <1>1, <1>3
<1>5. l \in Seq(S) /\ r \in Seq(S) /\ Len(l) = Len(r)
    BY <1>2, <1>3
<1> HIDE DEF l, r
<1>6. l = r
    BY <1>4, <1>5, SameSeq
<1> QED BY <1>6 DEF l, r

\* Moving the first of t to the end of s changes nothing in s \o t.
LEMMA ConcatMove ==
    ASSUME NEW S, NEW s \in Seq(S), NEW t \in Seq(S), t # <<>>
    PROVE  Append(s, Head(t)) \o Tail(t) = s \o t
<1>1. Head(t) \in S /\ Head(t) = t[1] /\ Tail(t) \in Seq(S) /\ Append(s, Head(t)) \in Seq(S)
    BY TailFacts, AppendFacts
<1> DEFINE l == Append(s, Head(t)) \o Tail(t)
           r == s \o t
<1>2. l \in Seq(S) /\ r \in Seq(S)
    BY <1>1, ConcatFacts
<1>3. /\ Len(s) \in Nat /\ Len(t) \in Nat \ {0}
      /\ Len(l) = Len(s) + Len(t) /\ Len(r) = Len(s) + Len(t)
    BY <1>1
<1>4. ASSUME NEW i \in 1..Len(l)
      PROVE  l[i] = r[i]
    <2>1. CASE i <= Len(s)
        BY <1>1, <1>3, <2>1
    <2>2. CASE i = Len(s) + 1
        BY <1>1, <1>3, <2>2
    <2>3. CASE i > Len(s) + 1
        <3>1. i - Len(s) - 1 \in 1..Len(Tail(t)) /\ i - Len(s) \in 1..Len(t)
            BY <1>1, <1>3, <2>3
        <3>2. l[i] = Tail(t)[i - Len(s) - 1]
            BY <1>1, <1>3, <2>3, <3>1
        <3>3. Tail(t)[i - Len(s) - 1] = t[i - Len(s)]
            BY <1>3, <3>1, TailFacts
        <3>4. r[i] = t[i - Len(s)]
            BY <1>3, <2>3, <3>1
        <3> QED BY <3>2, <3>3, <3>4
    <2> QED BY <1>3, <2>1, <2>2, <2>3
<1> HIDE DEF l, r
<1>5. l = r
    BY <1>2, <1>3, <1>4, SameSeq
<1> QED BY <1>5 DEF l, r

LEMMA ConcatTail ==
    ASSUME NEW S, NEW s \in Seq(S), NEW t \in Seq(S), s # <<>>
    PROVE  Tail(s) \o t = Tail(s \o t) /\ Head(s) = Head(s \o t) /\ s \o t # <<>>
<1> DEFINE l == Tail(s) \o t
           r == Tail(s \o t)
<1>1. Tail(s) \in Seq(S) /\ s \o t \in Seq(S) /\ Len(s) \in Nat \ {0} /\ Len(t) \in Nat
    BY TailFacts, ConcatFacts
<1>2. Len(s \o t) = Len(s) + Len(t) /\ s \o t # <<>>
    BY <1>1
<1>3. /\ l \in Seq(S) /\ r \in Seq(S)
      /\ Len(l) = Len(s) + Len(t) - 1 /\ Len(r) = Len(s) + Len(t) - 1
    BY <1>1, <1>2, TailFacts, ConcatFacts
<1>4. ASSUME NEW i \in 1..Len(l)
      PROVE  l[i] = r[i]
    <2>1. r[i] = (s \o t)[i + 1]
        BY <1>1, <1>2, <1>3, TailFacts
    <2>2. CASE i <= Len(s) - 1
        BY <1>1, <1>3, <2>1, <2>2
    <2>3. CASE i > Len(s) - 1
        <3>1. i - (Len(s) - 1) \in 1..Len(t)
            BY <1>1, <1>3, <2>3
        <3>2. l[i] = t[i - (Len(s) - 1)]
            BY <1>1, <1>3, <2>3, <3>1
        <3>3. (s \o t)[i + 1] = t[i + 1 - Len(s)]
            BY <1>1, <1>3, <2>3, <3>1
        <3> QED BY <1>1, <2>1, <3>2, <3>3
    <2> QED BY <1>1, <1>3, <2>2, <2>3
<1> HIDE DEF l, r
<1>5. l = r
    BY <1>1, <1>3, <1>4, SameSeq
<1>6. Head(s) = s[1] /\ Head(s \o t) = (s \o t)[1] /\ (s \o t)[1] = s[1]
    BY <1>1, <1>2, TailFacts, ConcatFacts
<1> QED BY <1>2, <1>5, <1>6 DEF l, r

LEMMA WithoutIs ==
    ASSUME NEW w, NEW k \in Nat
    PROVE  Fifo!Without(w, k + 1) = SubSeq(w, 1, k) \o SubSeq(w, k + 2, Len(w))
<1>1. (k + 1) - 1 = k /\ (k + 1) + 1 = k + 2
    OBVIOUS
<1> QED BY <1>1, Zenon DEF Fifo!Without

\* Losing the first of t removes one element from s \o t.
LEMMA ConcatLose ==
    ASSUME NEW S, NEW s \in Seq(S), NEW t \in Seq(S), t # <<>>
    PROVE  /\ Len(s) + 1 \in DOMAIN (s \o t)
           /\ s \o Tail(t) = Fifo!Without(s \o t, Len(s) + 1)
<1> DEFINE w == s \o t
           n == Len(s)
<1>1. /\ Tail(t) \in Seq(S) /\ w \in Seq(S) /\ n \in Nat /\ Len(t) \in Nat \ {0}
      /\ Len(w) = n + Len(t) /\ DOMAIN w = 1..(n + Len(t))
      /\ Len(Tail(t)) = Len(t) - 1
    BY TailFacts, ConcatFacts
<1>2. SubSeq(w, 1, n) = s
    <2>1. SubSeq(w, 1, n) \in Seq(S) /\ Len(SubSeq(w, 1, n)) = n
        BY <1>1
    <2>2. \A i \in 1..n : SubSeq(w, 1, n)[i] = s[i]
        BY <1>1
    <2> HIDE DEF w, n
    <2>3. Len(SubSeq(w, 1, n)) = Len(s)
        BY <2>1 DEF n
    <2> QED BY <2>1, <2>2, <2>3, SameSeq
<1>3. SubSeq(w, n + 2, Len(w)) = Tail(t)
    <2>1. /\ SubSeq(w, n + 2, Len(w)) \in Seq(S)
          /\ Len(SubSeq(w, n + 2, Len(w))) = Len(t) - 1
        BY <1>1
    <2>2. ASSUME NEW i \in 1..(Len(t) - 1)
          PROVE  SubSeq(w, n + 2, Len(w))[i] = Tail(t)[i]
        <3>1. SubSeq(w, n + 2, Len(w))[i] = w[n + 1 + i]
            BY <1>1
        <3>2. w[n + (i + 1)] = t[i + 1]
            BY <1>1, ConcatFacts
        <3>3. Tail(t)[i] = t[i + 1]
            BY <1>1, TailFacts
        <3> QED BY <1>1, <3>1, <3>2, <3>3
    <2> HIDE DEF w, n
    <2> QED BY <1>1, <2>1, <2>2, SameSeq
<1>4. Fifo!Without(w, n + 1) = SubSeq(w, 1, n) \o SubSeq(w, n + 2, Len(w))
    BY <1>1, WithoutIs
<1>5. n + 1 \in DOMAIN w
    BY <1>1
<1> QED BY <1>2, <1>3, <1>4, <1>5, Zenon

LEMMA FifoInit ==
    ASSUME Init
    PROVE  Fifo!Init
<1>1. <<>> \o <<>> = <<>>
    OBVIOUS
<1>2. [q \in Queues |-> pipe[q] \o todo[q]] = [q \in Queues |-> <<>>]
    BY <1>1 DEF Init
<1>3. {m \in Msgs : box[m] # "none"} = {} /\ got = [q \in Queues |-> <<>>]
    BY DEF Init
<1> QED BY <1>2, <1>3 DEF Fifo!Init

LEMMA FifoSend ==
    ASSUME IInv, NEW q \in Queues, NEW m \in Msgs, QueuePtrSend(q, m)
    PROVE  Fifo!Put(q, m)
<1>1. /\ pipe' = pipe /\ got' = got /\ todo' = [todo EXCEPT ![q] = Append(@, m)]
      /\ todo \in [Queues -> Seq(Msgs)] /\ pipe \in [Queues -> Seq(Msgs)]
      /\ box[m] = "none" /\ box' = [box EXCEPT ![m] = "used"] /\ box \in [Msgs -> Memory]
    BY DEF QueuePtrSend, Allocate, IInv, TypeOK
<1>2. pipe[q] \o Append(todo[q], m) = Append(pipe[q] \o todo[q], m)
    BY <1>1, ConcatAppend
<1>3. Way' = [Way EXCEPT ![q] = Append(@, m)]
    BY <1>1, <1>2 DEF Way
<1>4. m \notin Sent /\ Sent' = Sent \cup {m}
    BY <1>1 DEF Sent
<1> QED BY <1>1, <1>3, <1>4 DEF Fifo!Put, Way, Sent

LEMMA FifoSendFails ==
    ASSUME IInv, NEW m \in Msgs, QueuePtrSendFails(m)
    PROVE  Fifo!Reject(m)
<1>1. /\ pipe' = pipe /\ got' = got /\ todo' = todo
      /\ box[m] = "none" /\ box' = [box EXCEPT ![m] = "used"] /\ box \in [Msgs -> Memory]
    BY DEF QueuePtrSendFails, Allocate, IInv, TypeOK, io
<1>2. m \notin Sent /\ Sent' = Sent \cup {m}
    BY <1>1 DEF Sent
<1> QED BY <1>1, <1>2 DEF Fifo!Reject, Sent

\* A write that succeeds moves a message from the front of todo to the end of
\* the pipe, which LossyFifo does not see; one that fails loses it.
LEMMA FifoWrite ==
    ASSUME IInv, NEW q \in Queues, Write(q)
    PROVE  \/ UNCHANGED <<Way, got, Sent>>
           \/ \E i \in DOMAIN Way[q] : Fifo!Lose(q, i)
<1>1. /\ got' = got /\ box' = box /\ todo' = [todo EXCEPT ![q] = Tail(@)]
      /\ todo \in [Queues -> Seq(Msgs)] /\ pipe \in [Queues -> Seq(Msgs)]
      /\ todo[q] # <<>>
    BY DEF Write, IInv, TypeOK, mem
<1>2. Sent' = Sent
    BY <1>1 DEF Sent
<1>3. CASE Len(pipe[q]) < PipeCap
    <2>1. pipe' = [pipe EXCEPT ![q] = Append(@, Head(todo[q]))]
        BY <1>3 DEF Write
    <2>2. Append(pipe[q], Head(todo[q])) \o Tail(todo[q]) = pipe[q] \o todo[q]
        BY <1>1, ConcatMove
    <2>3. \A r \in Queues : pipe'[r] \o todo'[r] = pipe[r] \o todo[r]
        BY <1>1, <2>1, <2>2
    <2>4. Way' = Way
        BY <2>3 DEF Way
    <2> QED BY <1>1, <1>2, <2>4
<1>4. CASE ~(Len(pipe[q]) < PipeCap)
    <2>1. pipe' = pipe
        BY <1>4 DEF Write
    <2> DEFINE i == Len(pipe[q]) + 1
    <2>2. /\ i \in DOMAIN (pipe[q] \o todo[q])
          /\ pipe[q] \o Tail(todo[q]) = Fifo!Without(pipe[q] \o todo[q], i)
        BY <1>1, ConcatLose
    <2>3. /\ todo'[q] = Tail(todo[q])
          /\ \A r \in Queues \ {q} : todo'[r] = todo[r]
        BY <1>1
    <2>4. Way' = [Way EXCEPT ![q] = Fifo!Without(@, i)]
        BY <2>1, <2>2, <2>3 DEF Way
    <2>5. i \in DOMAIN Way[q]
        BY <2>2 DEF Way
    <2>6. Fifo!Lose(q, i)
        BY <1>1, <1>2, <2>4 DEF Fifo!Lose, Way, Sent
    <2> HIDE DEF i
    <2> QED BY <2>5, <2>6 DEF Fifo!Lose
<1> QED BY <1>3, <1>4

LEMMA FifoRead ==
    ASSUME IInv, NEW q \in Queues, QueueProcInput(q)
    PROVE  Fifo!Get(q)
<1>1. /\ todo' = todo /\ pipe' = [pipe EXCEPT ![q] = Tail(@)] /\ pipe[q] # <<>>
      /\ todo \in [Queues -> Seq(Msgs)] /\ pipe \in [Queues -> Seq(Msgs)]
      /\ got' = [got EXCEPT ![q] = Append(@, Head(pipe[q]))]
      /\ box' = [box EXCEPT ![Head(pipe[q])] = "freed"] /\ box \in [Msgs -> Memory]
    BY DEF QueueProcInput, HandOver, IInv, TypeOK
<1>2. /\ Tail(pipe[q]) \o todo[q] = Tail(pipe[q] \o todo[q])
      /\ Head(pipe[q]) = Head(pipe[q] \o todo[q])
      /\ pipe[q] \o todo[q] # <<>>
    BY <1>1, ConcatTail
<1>3. /\ Way[q] # <<>> /\ Head(pipe[q]) = Head(Way[q])
      /\ Way' = [Way EXCEPT ![q] = Tail(@)]
    BY <1>1, <1>2 DEF Way
<1>4. Sent' = Sent
    <2>1. Head(pipe[q]) \in Msgs /\ Head(pipe[q]) = pipe[q][1] /\ 1 \in DOMAIN pipe[q]
        BY <1>1, TailFacts
    <2>2. box[Head(pipe[q])] = "used"
        BY <2>1 DEF IInv, OnTheWay
    <2> QED BY <1>1, <2>1, <2>2 DEF Sent
<1> QED BY <1>1, <1>3, <1>4 DEF Fifo!Get, Way, Sent

LEMMA FifoStep ==
    ASSUME IInv, [Next]_vars
    PROVE  [Fifo!Next]_<<Way, got, Sent>>
<1>1. ASSUME NEW q \in Queues, NEW m \in Msgs, QueuePtrSend(q, m)
      PROVE  Fifo!Next
    BY <1>1, FifoSend DEF Fifo!Next
<1>2. ASSUME NEW m \in Msgs, QueuePtrSendFails(m)
      PROVE  Fifo!Next
    BY <1>2, FifoSendFails DEF Fifo!Next
<1>3. ASSUME NEW q \in Queues, Write(q)
      PROVE  Fifo!Next \/ UNCHANGED <<Way, got, Sent>>
    BY <1>3, FifoWrite DEF Fifo!Next, Way
<1>4. ASSUME NEW q \in Queues, Finish(q)
      PROVE  UNCHANGED <<Way, got, Sent>>
    BY <1>4 DEF Finish, Way, Sent, mem
<1>5. ASSUME NEW q \in Queues, QueueProcInput(q)
      PROVE  Fifo!Next
    BY <1>5, FifoRead DEF Fifo!Next
<1>6. CASE UNCHANGED vars
    BY <1>6 DEF vars, io, mem, Way, Sent
<1> QED BY <1>1, <1>2, <1>3, <1>4, <1>5, <1>6 DEF Next, Helper

\* The queues implement LossyFifo: at most once and in the order of the sends,
\* for any number of queues and messages and any capacity of the pipes.
THEOREM QueueIsLossyFifo == Spec => ImplementsFifo
<1>1. Init => Fifo!Init
    BY FifoInit
<1>2. IInv /\ [Next]_vars => [Fifo!Next]_Fifo!vars
    BY FifoStep DEF Fifo!vars, Way, Sent
<1> QED BY <1>1, <1>2, AlwaysIInv, PTL DEF Spec, ImplementsFifo, Fifo!Spec
=============================================================================
