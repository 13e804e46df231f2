---------------------------- MODULE ApiStoreProofs ----------------------------
(***************************************************************************)
(* Proofs about the API store, for any packages and any number of runs.    *)
(* What a package leaves in the store (Ingested) is used only through the  *)
(* ids it is stored under, so the argument does not depend on the order in *)
(* which the trials of a package are written.                              *)
(***************************************************************************)
EXTENDS ApiStore, SequenceTheorems, TLAPS

\* The ids of a package all carry its submission id.
LEMMA IdsOfPackage ==
  ASSUME NEW p, NEW id \in TrialIds(p)
  PROVE  \E n : id = <<"sub", p.id, n>>
  BY DEF TrialIds, TrialId

\* Ids are different if their kinds are, or their submissions.
LEMMA IdsDiffer ==
  ASSUME NEW s, NEW t, NEW m, NEW n
  PROVE  /\ <<"sub", s, m>> # RunId(n)
         /\ s # t => <<"sub", s, m>> # <<"sub", t, n>>
         /\ RunId(m) = RunId(n) => m = n
         /\ <<"sub", s, m>>[1] = "sub" /\ <<"sub", s, m>>[2] = s
  BY DEF RunId

LEMMA InvInit == Init => TypeOK /\ LatestPackageWins
  BY MaxPostedAssumption DEF Init, TypeOK, LatestPackageWins

\* A run of a package is a completed one.
LEMMA IngestedRuns ==
  ASSUME NEW p
  PROVE  /\ DOMAIN Ingested(p) = TrialIds(p)
         /\ \A id \in TrialIds(p) : Ingested(p)[id].status = "COMPLETED"
  BY DEF Ingested, TrialRun

\* A step that keeps latest and the runs of its packages keeps their agreement.
LEMMA StillLatest ==
  ASSUME LatestPackageWins, latest' = latest,
         \A s \in DOMAIN latest : \A id \in TrialIds(latest[s]) :
           id \in DOMAIN runs => id \in DOMAIN runs' /\ runs'[id] = runs[id]
  PROVE  LatestPackageWins'
<1> SUFFICES ASSUME NEW s \in DOMAIN latest', NEW id \in TrialIds(latest'[s])
             PROVE  id \in DOMAIN runs' /\ runs'[id] = Ingested(latest'[s])[id]
  BY DEF LatestPackageWins, TrialIds, TrialId, TrialAt, Positions, Ingested, TrialRun,
         LastWith, Before
<1>1. s \in DOMAIN latest /\ latest'[s] = latest[s]
  OBVIOUS
<1>2. id \in DOMAIN runs /\ runs[id] = Ingested(latest[s])[id]
  BY <1>1 DEF LatestPackageWins
<1> QED
  BY <1>1, <1>2

LEMMA SubmitStep ==
  ASSUME TypeOK, LatestPackageWins, NEW p \in Packages, Submit(p)
  PROVE  (TypeOK /\ LatestPackageWins)'
<1>1. /\ DOMAIN latest' = DOMAIN latest \union {p.id}
      /\ latest'[p.id] = p
      /\ \A s \in DOMAIN latest : s # p.id => latest'[s] = latest[s]
      /\ posted' = posted
  BY DEF Submit, With
<1>2. /\ DOMAIN runs' = DOMAIN runs \union TrialIds(p)
      /\ \A id \in TrialIds(p) : runs'[id] = Ingested(p)[id]
      /\ \A id \in DOMAIN runs : id \notin TrialIds(p) => runs'[id] = runs[id]
  BY IngestedRuns DEF Submit, With
<1>3. \A n : RunId(n) \notin TrialIds(p)
  BY IdsOfPackage, IdsDiffer
<1>4. TypeOK'
  <2>1. \A n \in 1..posted' : RunId(n) \in DOMAIN runs' /\ runs'[RunId(n)].status = "QUEUED"
    BY <1>1, <1>2, <1>3 DEF TypeOK
  <2>2. ASSUME NEW id \in DOMAIN runs'
        PROVE  \/ \E n \in 1..posted' : id = RunId(n)
               \/ id[1] = "sub" /\ id[2] \in DOMAIN latest' /\ runs'[id].status = "COMPLETED"
    <3>1. CASE id \in TrialIds(p)
      BY <1>1, <1>2, <3>1, IdsOfPackage, IdsDiffer, IngestedRuns
    <3>2. CASE id \notin TrialIds(p)
      BY <1>1, <1>2, <3>2 DEF TypeOK
    <3> QED
      BY <3>1, <3>2
  <2> QED
    BY <1>1, <2>1, <2>2 DEF TypeOK
<1>5. LatestPackageWins'
  <2> SUFFICES ASSUME NEW s \in DOMAIN latest', NEW id \in TrialIds(latest'[s])
               PROVE  id \in DOMAIN runs' /\ runs'[id] = Ingested(latest'[s])[id]
    BY DEF LatestPackageWins, TrialIds, TrialId, TrialAt, Positions, Ingested, TrialRun,
           LastWith, Before
  <2>1. CASE s = p.id
    BY <1>1, <1>2, <2>1
  <2>2. CASE s # p.id
    <3>1. s \in DOMAIN latest /\ latest'[s] = latest[s] /\ latest[s].id = s
      BY <1>1, <2>2 DEF TypeOK
    <3>2. id \notin TrialIds(p)
      BY <2>2, <3>1, IdsOfPackage, IdsDiffer
    <3>3. id \in DOMAIN runs /\ runs[id] = Ingested(latest[s])[id]
      BY <3>1 DEF LatestPackageWins
    <3> QED
      BY <1>2, <3>1, <3>2, <3>3
  <2> QED
    BY <2>1, <2>2
<1> QED
  BY <1>4, <1>5

LEMMA PostStep ==
  ASSUME TypeOK, LatestPackageWins, NEW task, NEW agent, NEW model, PostRun(task, agent, model)
  PROVE  (TypeOK /\ LatestPackageWins)'
<1> DEFINE new == RunId(posted + 1)
<1>1. /\ posted \in Nat /\ posted + 1 <= MaxPosted /\ posted' = posted + 1
      /\ latest' = latest
  BY MaxPostedAssumption DEF TypeOK, PostRun
<1>2. /\ DOMAIN runs' = DOMAIN runs \union {new}
      /\ runs'[new].status = "QUEUED"
      /\ \A id \in DOMAIN runs : id # new => runs'[id] = runs[id]
  BY DEF PostRun, With, NewRun
<1>3. \A n \in 1..posted : RunId(n) # new
  BY <1>1, IdsDiffer
<1>4. TypeOK'
  <2>1. \A n \in 1..posted' : RunId(n) \in DOMAIN runs' /\ runs'[RunId(n)].status = "QUEUED"
    <3>1. \A n \in 1..posted' : n \in 1..posted \/ n = posted + 1
      BY <1>1
    <3> QED
      BY <1>2, <1>3, <3>1 DEF TypeOK
  <2>2. \A id \in DOMAIN runs' :
          \/ \E n \in 1..posted' : id = RunId(n)
          \/ id[1] = "sub" /\ id[2] \in DOMAIN latest' /\ runs'[id].status = "COMPLETED"
    <3>1. 1..posted \subseteq 1..posted' /\ posted + 1 \in 1..posted'
      BY <1>1
    <3> QED
      BY <1>1, <1>2, <3>1 DEF TypeOK
  <2> QED
    BY <1>1, <2>1, <2>2, MaxPostedAssumption DEF TypeOK
<1>5. LatestPackageWins'
  <2>1. \A s \in DOMAIN latest : \A id \in TrialIds(latest[s]) : id # new
    BY IdsOfPackage, IdsDiffer
  <2> QED
    BY <1>1, <1>2, <2>1, StillLatest
<1> QED
  BY <1>4, <1>5

LEMMA InvNext == TypeOK /\ LatestPackageWins /\ [Next]_vars => (TypeOK /\ LatestPackageWins)'
<1> SUFFICES ASSUME TypeOK, LatestPackageWins, [Next]_vars
             PROVE  (TypeOK /\ LatestPackageWins)'
  OBVIOUS
<1>1. CASE UNCHANGED vars
  BY <1>1, StillLatest DEF vars, TypeOK
<1>2. CASE Next
  BY <1>2, SubmitStep, PostStep DEF Next
<1> QED
  BY <1>1, <1>2

\* Posted runs stay QUEUED, runs of submissions are complete, and the store agrees with
\* the last accepted package of each submission (routes/submissions.ts:20-45).
THEOREM LatestWins == Spec => [](TypeOK /\ LatestPackageWins)
  BY InvInit, InvNext, PTL DEF Spec

\* The store is a map, always.
RunsIsAMap == runs = [id \in DOMAIN runs |-> runs[id]]

LEMMA AlwaysAMap == Spec => []RunsIsAMap
<1>1. Init => RunsIsAMap
  BY DEF Init, RunsIsAMap
<1>2. RunsIsAMap /\ [Next]_vars => RunsIsAMap'
  BY DEF RunsIsAMap, Next, PostRun, Submit, With, vars
<1> QED
  BY <1>1, <1>2, PTL DEF Spec

\* A repeated submission does not change the store.
THEOREM RepeatedSubmission == Spec => RetryIsHarmless
<1> DEFINE Harmless == \A p \in Packages :
             p.id \in DOMAIN latest /\ latest[p.id] = p /\ Submit(p) => runs' = runs
<1>1. ASSUME LatestPackageWins, RunsIsAMap PROVE Harmless
  <2> SUFFICES ASSUME NEW p \in Packages, p.id \in DOMAIN latest, latest[p.id] = p, Submit(p)
               PROVE  runs' = runs
    OBVIOUS
  <2>1. TrialIds(p) \subseteq DOMAIN runs /\ \A id \in TrialIds(p) : runs[id] = Ingested(p)[id]
    BY <1>1 DEF LatestPackageWins
  <2>2. runs' = [id \in DOMAIN runs |-> runs[id]]
    BY <2>1, IngestedRuns DEF Submit, With
  <2> QED
    BY <1>1, <2>2 DEF RunsIsAMap
<1>2. LatestPackageWins /\ RunsIsAMap => [Harmless]_vars
  BY <1>1
<1> QED
  BY <1>2, LatestWins, AlwaysAMap, PTL DEF RetryIsHarmless

-------------------------------------------------------------------------------
\* Every run of the store carries names that a split could have left.
NamesInv == \A id \in DOMAIN runs : IsName(runs[id].agent) /\ IsName(runs[id].model)

LEMMA AlwaysNames == Spec => []NamesInv
<1>1. Init => NamesInv
  BY DEF Init, NamesInv
<1>2. ASSUME NamesInv, NEW p \in Packages, Submit(p) PROVE NamesInv'
  <2>1. \A id \in TrialIds(p) : Ingested(p)[id].agent = p.agent /\ Ingested(p)[id].model = p.model
    BY DEF Ingested, TrialRun
  <2>2. /\ DOMAIN runs' = DOMAIN runs \union TrialIds(p)
        /\ \A id \in TrialIds(p) : runs'[id] = Ingested(p)[id]
        /\ \A id \in DOMAIN runs : id \notin TrialIds(p) => runs'[id] = runs[id]
    BY <1>2, IngestedRuns DEF Submit, With
  <2>3. IsName(p.agent) /\ IsName(p.model)
    BY NamesAssumption
  <2> SUFFICES ASSUME NEW id \in DOMAIN runs'
               PROVE  IsName(runs'[id].agent) /\ IsName(runs'[id].model)
    BY DEF NamesInv, IsName
  <2>4. CASE id \in TrialIds(p)
    BY <2>1, <2>2, <2>3, <2>4
  <2>5. CASE id \notin TrialIds(p)
    BY <1>2, <2>2, <2>5 DEF NamesInv
  <2> QED
    BY <2>4, <2>5
<1>3. ASSUME NamesInv, NEW task, NEW agent \in Names, NEW model \in Names,
             PostRun(task, agent, model)
      PROVE  NamesInv'
  <2>1. /\ DOMAIN runs' = DOMAIN runs \union {RunId(posted + 1)}
        /\ runs'[RunId(posted + 1)].agent = agent /\ runs'[RunId(posted + 1)].model = model
        /\ \A id \in DOMAIN runs : id # RunId(posted + 1) => runs'[id] = runs[id]
    BY <1>3 DEF PostRun, With, NewRun
  <2>2. IsName(agent) /\ IsName(model)
    BY NamesAssumption
  <2> SUFFICES ASSUME NEW id \in DOMAIN runs'
               PROVE  IsName(runs'[id].agent) /\ IsName(runs'[id].model)
    BY DEF NamesInv, IsName
  <2>3. CASE id = RunId(posted + 1)
    BY <2>1, <2>2, <2>3
  <2>4. CASE id # RunId(posted + 1)
    BY <1>3, <2>1, <2>4 DEF NamesInv
  <2> QED
    BY <2>3, <2>4
<1>4. NamesInv /\ UNCHANGED vars => NamesInv'
  BY DEF NamesInv, IsName, vars
<1>5. NamesInv /\ [Next]_vars => NamesInv'
  BY <1>2, <1>3, <1>4 DEF Next
<1> QED
  BY <1>1, <1>5, PTL DEF Spec

\* The elements of two sequences in a row.
LEMMA Joined ==
  ASSUME NEW S, NEW s \in Seq(S), NEW t \in Seq(S)
  PROVE  /\ s \o t \in Seq(S)
         /\ Len(s \o t) = Len(s) + Len(t)
         /\ \A i \in 1..(Len(s) + Len(t)) :
              (s \o t)[i] = IF i <= Len(s) THEN s[i] ELSE t[i - Len(s)]
  BY ConcatProperties

\* A key is the agent, two colons, and the model.
LEMMA KeySymbols ==
  ASSUME NEW S, ":" \in S, NEW a \in Seq(S), NEW m \in Seq(S)
  PROVE  /\ Key(a, m) \in Seq(S)
         /\ Len(a) \in Nat /\ Len(m) \in Nat
         /\ Len(Key(a, m)) = Len(a) + 2 + Len(m)
         /\ \A i \in 1..Len(a) : Key(a, m)[i] = a[i]
         /\ Key(a, m)[Len(a) + 1] = ":" /\ Key(a, m)[Len(a) + 2] = ":"
         /\ \A i \in 1..Len(m) : Key(a, m)[Len(a) + 2 + i] = m[i]
<1> DEFINE sep == <<":", ":">>
           head == a \o sep
<1>1. sep \in Seq(S) /\ Len(sep) = 2 /\ sep[1] = ":" /\ sep[2] = ":"
  OBVIOUS
<1> HIDE DEF sep
<1>2. /\ head \in Seq(S) /\ Len(head) = Len(a) + 2
      /\ \A i \in 1..(Len(a) + 2) : head[i] = IF i <= Len(a) THEN a[i] ELSE sep[i - Len(a)]
  <2>1. /\ head \in Seq(S) /\ Len(head) = Len(a) + Len(sep)
        /\ \A i \in 1..(Len(a) + Len(sep)) : head[i] = IF i <= Len(a) THEN a[i] ELSE sep[i - Len(a)]
    BY <1>1, Joined, Zenon
  <2> QED
    BY <1>1, <2>1, Zenon
<1>3. Len(a) \in Nat /\ Len(m) \in Nat
  BY LenProperties
<1>4. /\ \A i \in 1..Len(a) : head[i] = a[i]
      /\ head[Len(a) + 1] = ":" /\ head[Len(a) + 2] = ":"
  <2>1. \A i \in 1..Len(a) : i \in 1..(Len(a) + 2) /\ i <= Len(a)
    BY <1>3
  <2>2. /\ Len(a) + 1 \in 1..(Len(a) + 2) /\ ~(Len(a) + 1 <= Len(a))
        /\ Len(a) + 2 \in 1..(Len(a) + 2) /\ ~(Len(a) + 2 <= Len(a))
        /\ (Len(a) + 1) - Len(a) = 1 /\ (Len(a) + 2) - Len(a) = 2
    BY <1>3
  <2>3. \A i \in 1..Len(a) : head[i] = a[i]
    BY <1>2, <2>1
  <2>4. head[Len(a) + 1] = sep[1] /\ head[Len(a) + 2] = sep[2]
    BY <1>2, <2>2
  <2> QED
    BY <1>1, <2>3, <2>4
<1>5. Key(a, m) = head \o m
  BY DEF Key, sep
<1> HIDE DEF head
<1> DEFINE k == head \o m
<1>6. /\ k \in Seq(S) /\ Len(k) = Len(head) + Len(m)
      /\ \A i \in 1..(Len(head) + Len(m)) : k[i] = IF i <= Len(head) THEN head[i] ELSE m[i - Len(head)]
  <2>1. head \in Seq(S)
    BY <1>2
  <2> QED
    BY <2>1, Joined
<1> HIDE DEF k
<1>7. \A i \in 1..(Len(a) + 2) : k[i] = head[i]
  <2>1. \A i \in 1..(Len(a) + 2) : i \in 1..((Len(a) + 2) + Len(m)) /\ i <= Len(a) + 2
    BY <1>3
  <2> QED
    BY <1>2, <1>6, <2>1
<1>8. \A i \in 1..Len(m) : k[Len(a) + 2 + i] = m[i]
  <2> SUFFICES ASSUME NEW i \in 1..Len(m) PROVE k[Len(a) + 2 + i] = m[i]
    OBVIOUS
  <2>1. /\ Len(a) + 2 + i \in 1..((Len(a) + 2) + Len(m)) /\ ~(Len(a) + 2 + i <= Len(a) + 2)
        /\ (Len(a) + 2 + i) - (Len(a) + 2) = i
    BY <1>3
  <2> QED
    BY <1>2, <1>6, <2>1
<1>9. \A i \in 1..Len(a) : k[i] = a[i]
  <2>1. \A i \in 1..Len(a) : i \in 1..(Len(a) + 2)
    BY <1>3
  <2> QED
    BY <1>4, <1>7, <2>1
<1>10. k[Len(a) + 1] = ":" /\ k[Len(a) + 2] = ":"
  <2>1. Len(a) + 1 \in 1..(Len(a) + 2) /\ Len(a) + 2 \in 1..(Len(a) + 2)
    BY <1>3
  <2> QED
    BY <1>4, <1>7, <2>1
<1>11. Key(a, m) = k
  BY <1>5 DEF k
<1> QED
  BY <1>2, <1>3, <1>6, <1>8, <1>9, <1>10, <1>11

\* The key of plain names has its two colons where they were put and nowhere else.
LEMMA OneSeparator ==
  ASSUME NEW S, ":" \in S, NEW a \in Seq(S), NEW m \in Seq(S), a # <<>>, m # <<>>, Plain(a, m)
  PROVE  Separators(Key(a, m)) = {Len(a) + 1}
<1> DEFINE k == Key(a, m)
           L == Len(a)
           N == Len(m)
<1>1. /\ L \in Nat /\ N \in Nat /\ Len(k) = L + 2 + N
      /\ \A i \in 1..L : k[i] = a[i]
      /\ k[L + 1] = ":" /\ k[L + 2] = ":"
      /\ \A i \in 1..N : k[L + 2 + i] = m[i]
  <2>1. /\ Len(a) \in Nat /\ Len(m) \in Nat
        /\ Len(Key(a, m)) = Len(a) + 2 + Len(m)
        /\ Key(a, m)[Len(a) + 1] = ":" /\ Key(a, m)[Len(a) + 2] = ":"
    BY KeySymbols
  <2>2. \A i \in 1..Len(a) : Key(a, m)[i] = a[i]
    BY KeySymbols
  <2>3. \A i \in 1..Len(m) : Key(a, m)[Len(a) + 2 + i] = m[i]
    BY KeySymbols
  <2> QED
    BY <2>1, <2>2, <2>3
<1>2. L # 0 /\ N # 0
  BY EmptySeq
<1>3. /\ \A i \in 1..(L - 1) : ~(a[i] = ":" /\ a[i + 1] = ":")
      /\ \A i \in 1..(N - 1) : ~(m[i] = ":" /\ m[i + 1] = ":")
      /\ a[L] # ":" /\ m[1] # ":"
  BY DEF Plain, Separators
<1> HIDE DEF k, L, N
<1>4. L + 1 \in 1..(Len(k) - 1)
  BY <1>1, <1>2
<1>5. ASSUME NEW i \in 1..(Len(k) - 1), i # L + 1 PROVE ~(k[i] = ":" /\ k[i + 1] = ":")
  <2>1. i < L \/ i = L \/ i = L + 2 \/ i > L + 2
    BY <1>1, <1>5
  <2>2. CASE i < L
    <3>1. i \in 1..(L - 1) /\ i \in 1..L /\ i + 1 \in 1..L
      BY <1>1, <2>2
    <3> QED
      BY <1>1, <1>3, <3>1
  <2>3. CASE i = L
    <3>1. L \in 1..L
      BY <1>1, <1>2
    <3> QED
      BY <1>1, <1>3, <2>3, <3>1
  <2>4. CASE i = L + 2
    <3>1. 1 \in 1..N /\ i + 1 = L + 2 + 1
      BY <1>1, <1>2, <2>4
    <3> QED
      BY <1>1, <1>3, <3>1
  <2>5. CASE i > L + 2
    <3> DEFINE j == i - (L + 2)
    <3>1. /\ j \in 1..(N - 1) /\ j \in 1..N /\ j + 1 \in 1..N
          /\ i = L + 2 + j /\ i + 1 = L + 2 + (j + 1)
      BY <1>1, <2>5
    <3> HIDE DEF j
    <3>2. k[L + 2 + j] = m[j] /\ k[L + 2 + (j + 1)] = m[j + 1]
      BY <1>1, <3>1, Zenon
    <3>3. ~(m[j] = ":" /\ m[j + 1] = ":")
      BY <1>3, <3>1, Zenon
    <3> QED
      BY <3>1, <3>2, <3>3, Zenon
  <2> QED
    BY <2>1, <2>2, <2>3, <2>4, <2>5
<1>6. (L + 1) + 1 = L + 2
  BY <1>1
<1>7. Separators(k) = {L + 1}
  BY <1>1, <1>4, <1>5, <1>6 DEF Separators
<1> QED
  BY <1>7 DEF k, L

\* Two sequences with the same length and elements are one.
LEMMA SameSymbols ==
  ASSUME NEW S, NEW s \in Seq(S), NEW t \in Seq(S), Len(s) = Len(t),
         \A i \in 1..Len(s) : s[i] = t[i]
  PROVE  s = t
  BY SeqEqual

\* What a key of plain names is split into, and that no other names have that key.
LEMMA PlainKeys ==
  ASSUME NEW S, ":" \in S, NEW a \in Seq(S), NEW m \in Seq(S), NEW b \in Seq(S), NEW n \in Seq(S),
         a # <<>>, m # <<>>, Plain(a, m)
  PROVE  /\ FirstPart(Key(a, m)) = a /\ FirstPart(Rest(Key(a, m))) = m
         /\ Key(b, n) = Key(a, m) => b = a /\ n = m
<1> DEFINE k == Key(a, m)
<1>1. /\ Len(a) \in Nat /\ Len(m) \in Nat
      /\ Len(k) = Len(a) + 2 + Len(m)
      /\ \A i \in 1..Len(a) : k[i] = a[i]
      /\ \A i \in 1..Len(m) : k[Len(a) + 2 + i] = m[i]
  <2>1. Len(a) \in Nat /\ Len(m) \in Nat /\ Len(k) = Len(a) + 2 + Len(m)
    BY KeySymbols
  <2>2. \A i \in 1..Len(a) : k[i] = a[i]
    BY KeySymbols
  <2>3. \A i \in 1..Len(m) : k[Len(a) + 2 + i] = m[i]
    BY KeySymbols
  <2> QED
    BY <2>1, <2>2, <2>3
<1>2. Separators(k) = {Len(a) + 1}
  BY OneSeparator
<1>3. FirstSeparator(k) = Len(a) + 1
  BY <1>1, <1>2 DEF FirstSeparator
<1>4. FirstPart(k) = a
  <2> DEFINE t == SubSeq(k, 1, Len(a))
  <2>1. FirstPart(k) = t
    <3>1. Separators(k) # {} /\ (Len(a) + 1) - 1 = Len(a)
      BY <1>1, <1>2
    <3> QED
      BY <1>3, <3>1, Zenon DEF FirstPart
  <2>2. \A i \in 1..Len(a) : k[i] \in S
    BY <1>1, ElementOfSeq
  <2>3. t \in Seq(S) /\ Len(t) = IF 1 <= Len(a) THEN Len(a) - 1 + 1 ELSE 0
    BY <1>1, <2>2, SubSeqProperties
  <2>4. \A i \in 1..(Len(a) - 1 + 1) : t[i] = k[1 + i - 1]
    BY <1>1, <2>2, SubSeqProperties
  <2> HIDE DEF t, k
  <2>5. Len(t) = Len(a)
    BY <1>1, <2>3
  <2>6. \A i \in 1..Len(a) : t[i] = a[i]
    <3>1. \A i \in 1..Len(a) : i \in 1..(Len(a) - 1 + 1) /\ 1 + i - 1 = i
      BY <1>1
    <3> QED
      BY <1>1, <2>4, <3>1
  <2> QED
    BY <2>1, <2>3, <2>5, <2>6, SameSymbols
<1>5. FirstPart(Rest(k)) = m
  <2> DEFINE t == SubSeq(k, Len(a) + 3, Len(k))
             L == Len(a) + 3
  <2>1. Rest(k) = t
    <3>1. Separators(k) # {} /\ (Len(a) + 1) + 2 = Len(a) + 3
      BY <1>1, <1>2
    <3> QED
      BY <1>3, <3>1, Zenon DEF Rest
  <2>2. \A i \in L..Len(k) : k[i] \in S
    <3> SUFFICES ASSUME NEW i \in L..Len(k) PROVE k[i] \in S
      OBVIOUS
    <3> DEFINE j == i - (Len(a) + 2)
    <3>1. j \in 1..Len(m) /\ Len(a) + 2 + j = i
      BY <1>1
    <3> HIDE DEF k, j
    <3>2. m[j] \in S
      BY <3>1, ElementOfSeq
    <3> QED
      BY <1>1, <3>1, <3>2
  <2>3. L \in Int /\ Len(k) \in Int
    BY <1>1
  <2> HIDE DEF k, L
  <2>4. t = SubSeq(k, L, Len(k))
    BY DEF L
  <2>5. /\ t \in Seq(S) /\ Len(t) = IF L <= Len(k) THEN Len(k) - L + 1 ELSE 0
        /\ \A i \in 1..(Len(k) - L + 1) : t[i] = k[L + i - 1]
    <3>1. /\ SubSeq(k, L, Len(k)) \in Seq(S)
          /\ Len(SubSeq(k, L, Len(k))) = IF L <= Len(k) THEN Len(k) - L + 1 ELSE 0
      BY <2>2, <2>3, SubSeqProperties
    <3>2. \A i \in 1..(Len(k) - L + 1) : SubSeq(k, L, Len(k))[i] = k[L + i - 1]
      BY <2>2, <2>3, SubSeqProperties
    <3> QED
      BY <2>4, <3>1, <3>2, Zenon
  <2> HIDE DEF t
  <2>6. Len(t) = Len(m)
    BY <1>1, <2>5 DEF L
  <2>7. \A i \in 1..Len(m) : t[i] = m[i]
    <3>1. \A i \in 1..Len(m) : i \in 1..(Len(k) - L + 1) /\ L + i - 1 = Len(a) + 2 + i
      BY <1>1 DEF L
    <3> QED
      BY <1>1, <2>5, <3>1
  <2>8. t = m
    BY <2>5, <2>6, <2>7, SameSymbols
  <2>9. Separators(m) = {}
    BY DEF Plain
  <2> QED
    BY <2>1, <2>8, <2>9 DEF FirstPart
<1>6. ASSUME Key(b, n) = k PROVE b = a /\ n = m
  <2>1. /\ Len(b) \in Nat /\ Len(n) \in Nat
        /\ Len(k) = Len(b) + 2 + Len(n)
        /\ \A i \in 1..Len(b) : k[i] = b[i]
        /\ k[Len(b) + 1] = ":" /\ k[Len(b) + 2] = ":"
        /\ \A i \in 1..Len(n) : k[Len(b) + 2 + i] = n[i]
    <3>1. /\ Len(b) \in Nat /\ Len(n) \in Nat
          /\ Len(Key(b, n)) = Len(b) + 2 + Len(n)
          /\ Key(b, n)[Len(b) + 1] = ":" /\ Key(b, n)[Len(b) + 2] = ":"
      BY KeySymbols
    <3>2. \A i \in 1..Len(b) : Key(b, n)[i] = b[i]
      BY KeySymbols
    <3>3. \A i \in 1..Len(n) : Key(b, n)[Len(b) + 2 + i] = n[i]
      BY KeySymbols
    <3> HIDE DEF k
    <3> QED
      BY <1>6, <3>1, <3>2, <3>3
  <2> HIDE DEF k
  <2>2. Len(b) + 1 \in Separators(k)
    <3>1. Len(b) + 1 \in 1..(Len(k) - 1) /\ (Len(b) + 1) + 1 = Len(b) + 2
      BY <2>1
    <3> QED
      BY <2>1, <3>1 DEF Separators
  <2>3. Len(b) = Len(a)
    BY <1>1, <1>2, <2>1, <2>2
  <2>4. Len(n) = Len(m)
    BY <1>1, <2>1, <2>3
  <2>5. \A i \in 1..Len(b) : b[i] = a[i]
    BY <1>1, <2>1, <2>3
  <2>6. \A i \in 1..Len(n) : n[i] = m[i]
    BY <1>1, <2>1, <2>3, <2>4
  <2> QED
    BY <2>3, <2>4, <2>5, <2>6, SameSymbols
<1> QED
  BY <1>4, <1>5, <1>6

\* The same for names.
LEMMA PlainNames ==
  ASSUME NEW a, NEW m, NEW b, NEW n, IsName(a), IsName(m), IsName(b), IsName(n), Plain(a, m)
  PROVE  /\ Shown(FirstPart(Key(a, m))) = a /\ Shown(FirstPart(Rest(Key(a, m)))) = m
         /\ Key(b, n) = Key(a, m) => b = a /\ n = m
<1> DEFINE Symbols(name) == {name[i] : i \in DOMAIN name}
           All == {":"} \union Symbols(a) \union Symbols(m) \union Symbols(b) \union Symbols(n)
<1>1. \A S, T : S \subseteq T => Seq(S) \subseteq Seq(T)
  OBVIOUS
<1>2. a \in Seq(All) /\ m \in Seq(All) /\ b \in Seq(All) /\ n \in Seq(All)
  BY <1>1 DEF IsName
<1>3. a # <<>> /\ m # <<>> /\ ":" \in All
  BY DEF IsName
<1> HIDE DEF All
<1>4. /\ FirstPart(Key(a, m)) = a /\ FirstPart(Rest(Key(a, m))) = m
      /\ Key(b, n) = Key(a, m) => b = a /\ n = m
  BY <1>2, <1>3, PlainKeys
<1> QED
  BY <1>3, <1>4, Zenon DEF Shown

\* A contestant with plain names is ranked by its own runs only, whatever other names are
\* in the store (store.ts:93-114).
THEOREM PlainEntries == Spec => []PlainEntriesAreExact
<1>1. ASSUME NamesInv PROVE PlainEntriesAreExact
  <2> SUFFICES ASSUME NEW id \in Ranked, Plain(runs[id].agent, runs[id].model)
               PROVE  LET own == {r \in Ranked : /\ runs[r].agent = runs[id].agent
                                                 /\ runs[r].model = runs[id].model}
                      IN  getLeaderboard[Key(runs[id].agent, runs[id].model)] =
                            [agentId |-> runs[id].agent, modelId |-> runs[id].model,
                             totalRuns |-> Cardinality(own),
                             successfulRuns |-> Cardinality({r \in own : runs[r].success})]
    BY DEF PlainEntriesAreExact
  <2> DEFINE agent == runs[id].agent
             model == runs[id].model
             key == Key(agent, model)
             own == {r \in Ranked : runs[r].agent = agent /\ runs[r].model = model}
  <2>1. \A r \in Ranked : IsName(runs[r].agent) /\ IsName(runs[r].model)
    BY <1>1 DEF NamesInv, Ranked
  <2>2. Shown(FirstPart(key)) = agent /\ Shown(FirstPart(Rest(key))) = model
    BY <2>1, PlainNames
  <2>3. ASSUME NEW r \in Ranked
        PROVE  Key(runs[r].agent, runs[r].model) = key
                 <=> runs[r].agent = agent /\ runs[r].model = model
    BY <2>1, PlainNames
  <2>4. Group(key) = own
    BY <2>3 DEF Group
  <2>5. getLeaderboard[key] = Entry(key)
    BY DEF getLeaderboard
  <2> QED
    BY <2>2, <2>4, <2>5 DEF Entry
<1> QED
  BY <1>1, AlwaysNames, PTL
===============================================================================
