---------------------------- MODULE TaskAuditProofs ----------------------------
(***************************************************************************)
(* Theorems about TaskAudit and the dispatcher, for any tasks, features    *)
(* and vectors.                                                            *)
(***************************************************************************)
EXTENDS TaskAudit, SequenceTheorems, WellFoundedInduction, TLAPS

-------------------------------------------------------------------------------
(***************************************************************************)
(* Sums, and what the checks leave behind.  A recursive function is what   *)
(* its equation says only if there is one that satisfies the equation.     *)
(* Its values up to a bound are found step by step; the induction is over  *)
(* a set of naturals, whose complement would have a least element.         *)
(***************************************************************************)
\* A set of naturals that is not empty has a least element.
LEMMA LeastOf ==
  ASSUME NEW T, T \subseteq Nat, T # {}
  PROVE  \E m \in T : \A k \in T : m <= k
<1> DEFINE R == {p \in Nat \X Nat : p[1] < p[2]}
<1>1. IsWellFoundedOn(R, Nat)
  BY NatLessThanWellFounded, Zenon DEF OpToRel
<1>2. PICK m \in T : \A k \in T : ~(<<k, m>> \in R)
  BY <1>1, WFMin
<1>3. ASSUME NEW k \in T PROVE m <= k
  <2>1. k \in Nat /\ m \in Nat
    OBVIOUS
  <2>2. ~(<<k, m>> \in R)
    BY <1>2
  <2>3. ~(k < m)
    BY <2>1, <2>2
  <2> QED BY <2>1, <2>3
<1> QED BY <1>3

\* A set with 0 and all successors has all naturals.
LEMMA SetInduction ==
  ASSUME NEW S, 0 \in S, \A n \in Nat : n \in S => n + 1 \in S
  PROVE  Nat \subseteq S
<1> SUFFICES ASSUME Nat \ S # {} PROVE FALSE
  OBVIOUS
<1>1. PICK m \in Nat \ S : \A k \in Nat \ S : m <= k
  BY LeastOf
<1>2. m # 0 /\ m - 1 \in Nat /\ m - 1 \notin Nat \ S
  BY <1>1
<1> QED BY <1>1, <1>2

\* The equation of Sums.
LEMMA SumsDef ==
  ASSUME NEW value
  PROVE  Sums(value) = [n \in Nat |-> IF n = 0 THEN 0 ELSE Sums(value)[n - 1] + value[n]]
<1> DEFINE Is(g, m) == \A n \in 0 .. m : g[n] = IF n = 0 THEN 0 ELSE g[n - 1] + value[n]
           S == {m \in Nat : \E g : Is(g, m)}
<1>1. Nat \subseteq S
  <2>1. 0 \in S
    <3>1. Is([n \in Nat |-> 0], 0)
      OBVIOUS
    <3> QED BY <3>1
  <2>2. ASSUME NEW m \in Nat, m \in S PROVE m + 1 \in S
    <3>1. PICK g : Is(g, m)
      BY <2>2
    <3> DEFINE h == [n \in Nat |-> IF n = m + 1 THEN g[m] + value[m + 1] ELSE g[n]]
    <3>2. \A n \in 0 .. m : h[n] = g[n]
      OBVIOUS
    <3>3. h[m + 1] = g[m] + value[m + 1]
      OBVIOUS
    <3> HIDE DEF h
    <3>4. ASSUME NEW n \in 0 .. (m + 1) PROVE h[n] = IF n = 0 THEN 0 ELSE h[n - 1] + value[n]
      <4>1. CASE n = m + 1
        BY <4>1, <3>2, <3>3
      <4>2. CASE n # m + 1
        <5>1. n \in 0 .. m /\ (n # 0 => n - 1 \in 0 .. m)
          BY <4>2
        <5> QED BY <5>1, <3>1, <3>2
      <4> QED BY <4>1, <4>2
    <3>5. Is(h, m + 1)
      BY <3>4
    <3> QED BY <3>5
  <2> QED BY <2>1, <2>2, SetInduction
<1> DEFINE G(m) == CHOOSE g : Is(g, m)
           f == [n \in Nat |-> G(n)[n]]
<1>2. \A m \in Nat : Is(G(m), m)
  BY <1>1
<1> HIDE DEF G
<1>3. ASSUME NEW m \in Nat PROVE \A n \in 0 .. m : G(m)[n] = G(n)[n]
  <2> DEFINE A == {n \in Nat : n <= m => \A k \in n .. m : G(n)[n] = G(k)[n]}
  <2>1. 0 \in A
    <3>1. \A k \in Nat : G(k)[0] = 0
      BY <1>2
    <3> QED BY <3>1
  <2>2. ASSUME NEW n \in Nat, n \in A PROVE n + 1 \in A
    <3> SUFFICES ASSUME n + 1 <= m, NEW k \in (n + 1) .. m
                 PROVE  G(n + 1)[n + 1] = G(k)[n + 1]
      OBVIOUS
    <3>1. G(k)[n] = G(n)[n] /\ G(n + 1)[n] = G(n)[n]
      <4>1. \A j \in n .. m : G(n)[n] = G(j)[n]
        BY <2>2
      <4> QED BY <4>1
    <3>2. G(k)[n + 1] = G(k)[n] + value[n + 1]
      <4>1. Is(G(k), k) /\ n + 1 \in 0 .. k
        BY <1>2
      <4> QED BY <4>1
    <3>3. G(n + 1)[n + 1] = G(n + 1)[n] + value[n + 1]
      <4>1. Is(G(n + 1), n + 1) /\ n + 1 \in 0 .. (n + 1)
        BY <1>2
      <4> QED BY <4>1
    <3> QED BY <3>1, <3>2, <3>3
  <2> HIDE DEF A
  <2>3. Nat \subseteq A
    BY <2>1, <2>2, SetInduction
  <2> QED BY <2>3 DEF A
<1>4. \A n \in Nat : f[n] = IF n = 0 THEN 0 ELSE f[n - 1] + value[n]
  <2> SUFFICES ASSUME NEW n \in Nat PROVE f[n] = IF n = 0 THEN 0 ELSE f[n - 1] + value[n]
    OBVIOUS
  <2>1. f[n] = G(n)[n] /\ (n # 0 => f[n - 1] = G(n - 1)[n - 1])
    OBVIOUS
  <2>2. Is(G(n), n) /\ n \in 0 .. n /\ (n # 0 => n - 1 \in 0 .. n)
    BY <1>2
  <2>3. n # 0 => G(n)[n - 1] = G(n - 1)[n - 1]
    BY <1>3, <2>2
  <2> QED BY <2>1, <2>2, <2>3
<1>5. f = [n \in Nat |-> IF n = 0 THEN 0 ELSE f[n - 1] + value[n]]
  <2> DEFINE h == [n \in Nat |-> IF n = 0 THEN 0 ELSE f[n - 1] + value[n]]
  <2>1. \A n \in Nat : f[n] = h[n]
    BY <1>4
  <2> QED BY <2>1
<1> HIDE DEF f
<1> QED BY <1>5, Zenon DEF Sums

\* The sums of integers are integers, each the one before plus a value.
LEMMA SumsStep ==
  ASSUME NEW N \in Nat, NEW value, \A n \in 1 .. N : value[n] \in Int
  PROVE  /\ Sums(value)[0] = 0
         /\ \A n \in 0 .. N : Sums(value)[n] \in Int
         /\ \A n \in 1 .. N : Sums(value)[n] = Sums(value)[n - 1] + value[n]
<1> DEFINE A == {n \in Nat : n <= N => Sums(value)[n] \in Int}
<1>1. Sums(value)[0] = 0 /\ \A n \in Nat \ {0} : Sums(value)[n] = Sums(value)[n - 1] + value[n]
  BY SumsDef
<1>2. 0 \in A
  BY <1>1
<1>3. ASSUME NEW n \in Nat, n \in A PROVE n + 1 \in A
  BY <1>1, <1>3
<1> HIDE DEF A
<1>4. Nat \subseteq A
  BY <1>2, <1>3, SetInduction
<1> QED BY <1>1, <1>4 DEF A

\* Values none of which is less than its counterpart have no lesser sum.
LEMMA SumsMonotone ==
  ASSUME NEW N \in Nat, NEW small, NEW large,
         \A n \in 1 .. N : small[n] \in Int /\ large[n] \in Int /\ small[n] <= large[n]
  PROVE  \A n \in 0 .. N : Sums(small)[n] <= Sums(large)[n]
<1> DEFINE A == {n \in Nat : n <= N => Sums(small)[n] <= Sums(large)[n]}
<1>1. /\ Sums(small)[0] = 0 /\ Sums(large)[0] = 0
      /\ \A n \in 0 .. N : Sums(small)[n] \in Int /\ Sums(large)[n] \in Int
      /\ \A n \in 1 .. N : Sums(small)[n] = Sums(small)[n - 1] + small[n]
      /\ \A n \in 1 .. N : Sums(large)[n] = Sums(large)[n - 1] + large[n]
  BY SumsStep
<1>2. 0 \in A
  BY <1>1
<1>3. ASSUME NEW n \in Nat, n \in A PROVE n + 1 \in A
  <2> SUFFICES ASSUME n + 1 <= N PROVE Sums(small)[n + 1] <= Sums(large)[n + 1]
    OBVIOUS
  <2>1. n + 1 \in 1 .. N /\ n \in 0 .. N /\ Sums(small)[n] <= Sums(large)[n] /\ (n + 1) - 1 = n
    BY <1>3
  <2> QED BY <1>1, <2>1
<1> HIDE DEF A
<1>4. Nat \subseteq A
  BY <1>2, <1>3, SetInduction
<1> QED BY <1>4 DEF A

\* The equation of Left, found in the same way.
LEMMA LeftDef ==
  ASSUME NEW F
  PROVE  Left(F) = [n \in Nat |-> IF n = 0 THEN F ELSE After(task.checks[n], Left(F)[n - 1])]
<1> DEFINE Step(n, features) == After(task.checks[n], features)
<1> HIDE DEF Step
<1> DEFINE Is(g, m) == \A n \in 0 .. m : g[n] = IF n = 0 THEN F ELSE Step(n, g[n - 1])
           S == {m \in Nat : \E g : Is(g, m)}
<1>1. Nat \subseteq S
  <2>1. 0 \in S
    <3>1. Is([n \in Nat |-> F], 0)
      OBVIOUS
    <3> QED BY <3>1
  <2>2. ASSUME NEW m \in Nat, m \in S PROVE m + 1 \in S
    <3>1. PICK g : Is(g, m)
      BY <2>2
    <3> DEFINE h == [n \in Nat |-> IF n = m + 1 THEN Step(m + 1, g[m]) ELSE g[n]]
    <3>2. \A n \in 0 .. m : h[n] = g[n]
      OBVIOUS
    <3>3. h[m + 1] = Step(m + 1, g[m])
      OBVIOUS
    <3> HIDE DEF h
    <3>4. ASSUME NEW n \in 0 .. (m + 1) PROVE h[n] = IF n = 0 THEN F ELSE Step(n, h[n - 1])
      <4>1. CASE n = m + 1
        BY <4>1, <3>2, <3>3
      <4>2. CASE n # m + 1
        <5>1. n \in 0 .. m /\ (n # 0 => n - 1 \in 0 .. m)
          BY <4>2
        <5> QED BY <5>1, <3>1, <3>2
      <4> QED BY <4>1, <4>2
    <3>5. Is(h, m + 1)
      BY <3>4
    <3> QED BY <3>5
  <2> QED BY <2>1, <2>2, SetInduction
<1> DEFINE G(m) == CHOOSE g : Is(g, m)
           f == [n \in Nat |-> G(n)[n]]
<1>2. \A m \in Nat : Is(G(m), m)
  BY <1>1
<1> HIDE DEF G
<1>3. ASSUME NEW m \in Nat PROVE \A n \in 0 .. m : G(m)[n] = G(n)[n]
  <2> DEFINE A == {n \in Nat : n <= m => \A k \in n .. m : G(n)[n] = G(k)[n]}
  <2>1. 0 \in A
    <3>1. \A k \in Nat : G(k)[0] = F
      BY <1>2
    <3> QED BY <3>1
  <2>2. ASSUME NEW n \in Nat, n \in A PROVE n + 1 \in A
    <3> SUFFICES ASSUME n + 1 <= m, NEW k \in (n + 1) .. m
                 PROVE  G(n + 1)[n + 1] = G(k)[n + 1]
      OBVIOUS
    <3>1. G(k)[n] = G(n)[n] /\ G(n + 1)[n] = G(n)[n]
      <4>1. \A j \in n .. m : G(n)[n] = G(j)[n]
        BY <2>2
      <4> QED BY <4>1
    <3>2. G(k)[n + 1] = Step(n + 1, G(k)[n])
      <4>1. Is(G(k), k) /\ n + 1 \in 0 .. k
        BY <1>2
      <4> QED BY <4>1
    <3>3. G(n + 1)[n + 1] = Step(n + 1, G(n + 1)[n])
      <4>1. Is(G(n + 1), n + 1) /\ n + 1 \in 0 .. (n + 1)
        BY <1>2
      <4> QED BY <4>1
    <3> QED BY <3>1, <3>2, <3>3
  <2> HIDE DEF A
  <2>3. Nat \subseteq A
    BY <2>1, <2>2, SetInduction
  <2> QED BY <2>3 DEF A
<1>4. \A n \in Nat : f[n] = IF n = 0 THEN F ELSE Step(n, f[n - 1])
  <2> SUFFICES ASSUME NEW n \in Nat PROVE f[n] = IF n = 0 THEN F ELSE Step(n, f[n - 1])
    OBVIOUS
  <2>1. f[n] = G(n)[n] /\ (n # 0 => f[n - 1] = G(n - 1)[n - 1])
    OBVIOUS
  <2>2. Is(G(n), n) /\ n \in 0 .. n /\ (n # 0 => n - 1 \in 0 .. n)
    BY <1>2
  <2>3. n # 0 => G(n)[n - 1] = G(n - 1)[n - 1]
    BY <1>3, <2>2
  <2> QED BY <2>1, <2>2, <2>3
<1>5. f = [n \in Nat |-> IF n = 0 THEN F ELSE Step(n, f[n - 1])]
  <2> DEFINE h == [n \in Nat |-> IF n = 0 THEN F ELSE Step(n, f[n - 1])]
  <2>1. \A n \in Nat : f[n] = h[n]
    BY <1>4
  <2> QED BY <2>1
<1> HIDE DEF f
<1> QED BY <1>5, Zenon DEF Left, Step

\* What the checks leave, one after the other.
LEMMA LeftStep ==
  ASSUME NEW F
  PROVE  /\ Left(F)[0] = F
         /\ \A n \in Nat \ {0} : Left(F)[n] = After(task.checks[n], Left(F)[n - 1])
<1> DEFINE left == Left(F)
<1>1. left = [n \in Nat |-> IF n = 0 THEN F ELSE After(task.checks[n], left[n - 1])]
  BY LeftDef
<1> HIDE DEF left
<1>2. left[0] = F /\ \A n \in Nat \ {0} : left[n] = After(task.checks[n], left[n - 1])
  BY <1>1
<1> QED BY <1>2 DEF left

\* The more there was, the more the checks leave.
LEMMA LeftGrows ==
  ASSUME NEW F, NEW W, F \subseteq W
  PROVE  \A n \in Nat : Left(F)[n] \subseteq Left(W)[n]
<1> DEFINE A == {n \in Nat : Left(F)[n] \subseteq Left(W)[n]}
<1>1. 0 \in A
  BY LeftStep
<1>2. ASSUME NEW n \in Nat, n \in A PROVE n + 1 \in A
  <2>1. n + 1 \in Nat \ {0} /\ (n + 1) - 1 = n
    OBVIOUS
  <2>2. /\ Left(F)[n + 1] = After(task.checks[n + 1], Left(F)[n])
        /\ Left(W)[n + 1] = After(task.checks[n + 1], Left(W)[n])
    BY <2>1, LeftStep
  <2>3. After(task.checks[n + 1], Left(F)[n]) \subseteq After(task.checks[n + 1], Left(W)[n])
    BY <1>2 DEF After
  <2> QED BY <2>1, <2>2, <2>3
<1> HIDE DEF A
<1>3. Nat \subseteq A
  BY <1>1, <1>2, SetInduction
<1> QED BY <1>3 DEF A

-------------------------------------------------------------------------------
(***************************************************************************)
(* A verdict of passed.                                                    *)
(***************************************************************************)
Record == [held : BOOLEAN, how : {"answered"} \union DOMAIN ExitCode]

\* The i-th check was answered as the verdict has it.
Passes(i) == Earned(i) /\ ~Unresolvable(task.checks[i])

\* As long as no check has failed, those before the next one have earned it; and so
\* have all once a verification has passed.
PassInv ==
  /\ task \in Tasks
  /\ next \in 0 .. Len(task.checks)
  /\ context.response \in BOOLEAN
  /\ caller = "engine" => ~context.workspaceDir
  /\ upset \in Nat
  /\ allPassed \in BOOLEAN
  /\ ran \in Seq(Record)
  /\ next > 0 => Len(ran) = next - 1
  /\ (next > 0 /\ allPassed) => \A i \in 1 .. Len(ran) : Passes(i)
  /\ (verdict.state = "returned" /\ verdict.passed) =>
       Len(ran) = Len(task.checks) /\ \A i \in 1 .. Len(ran) : Passes(i)

LEMMA PassInitially == Init => PassInv
<1> SUFFICES ASSUME Init PROVE PassInv
  OBVIOUS
<1>1. ran \in Seq(Record) /\ Len(ran) = 0
  BY DEF Init
<1> QED BY <1>1, TasksAssumption DEF Init, PassInv, NoVerdict

LEMMA PassesUnchanged ==
  ASSUME UNCHANGED <<task, context>>, NEW i, ran'[i] = ran[i]
  PROVE  Passes(i)' <=> Passes(i)
  BY DEF Passes, Earned, MayPassCutShort, Unresolvable

\* The start of a verification, whatever was done to the workspace before it.
LEMMA VerifyKeeps ==
  ASSUME PassInv, verify, upset' \in Nat, UNCHANGED <<task, context, caller>>
  PROVE  PassInv'
<1>1. ran' \in Seq(Record) /\ Len(ran') = 0 /\ next' = 1 /\ verdict'.state # "returned" /\ allPassed' = TRUE
  BY DEF verify, NoVerdict
<1>2. 1 \in 0 .. Len(task.checks) /\ 1 .. 0 = {}
  BY TasksAssumption DEF PassInv
<1> QED BY <1>1, <1>2 DEF PassInv

LEMMA HoldsIsBoolean ==
  ASSUME PassInv, NEW check, check.kind \in CheckKinds, NEW F
  PROVE  Holds(check, F) \in BOOLEAN
  BY DEF PassInv, Holds, CheckKinds, ShellKinds, CommandKinds, FileKinds, CommandPasses, FilePasses,
         FileAsExpected, HttpPasses, DatabasePasses, SecurityPasses, JudgePasses

\* A check that did not throw is weighed in.
LEMMA CountsKeeps ==
  ASSUME PassInv, NEW passes \in BOOLEAN, next > 0, Counts(Check, passes),
         NEW how \in {"answered"} \union DOMAIN ExitCode, Records(how),
         ~Unresolvable(Check),
         passes => IF how = "answered" THEN Holds(Check, workspace) ELSE MayPassCutShort(Check, how),
         upset' \in Nat, UNCHANGED <<task, context, caller>>
  PROVE  PassInv'
<1> DEFINE n == Len(task.checks)
           entry == [held |-> Holds(Check, workspace), how |-> how]
<1>1. task \in Tasks /\ n \in Nat \ {0} /\ DOMAIN task.checks = 1 .. n /\ next \in 1 .. n
  BY TasksAssumption DEF PassInv
<1>2. entry \in Record
  <2>1. Check.kind \in CheckKinds
    BY <1>1, TasksAssumption DEF Check
  <2> QED BY <2>1, HoldsIsBoolean DEF Record
<1>3. /\ entry.how = how
      /\ entry.held = Holds(Check, workspace)
      /\ ran' = Append(ran, entry)
  BY DEF Records
<1> HIDE DEF entry
<1>4. /\ ran' \in Seq(Record) /\ Len(ran') = next
      /\ \A i \in 1 .. (next - 1) : ran'[i] = ran[i]
      /\ ran'[next] = entry
  <2>1. ran \in Seq(Record) /\ Len(ran) = next - 1
    BY <1>1 DEF PassInv
  <2>2. /\ ran' \in Seq(Record) /\ Len(ran') = Len(ran) + 1
        /\ \A i \in 1 .. Len(ran) : ran'[i] = ran[i]
        /\ ran'[Len(ran) + 1] = entry
    BY <1>2, <1>3, <2>1, AppendProperties
  <2> QED BY <1>1, <2>1, <2>2
<1>5. allPassed' = (allPassed /\ passes)
  BY DEF Counts
<1>6. allPassed' => \A i \in 1 .. Len(ran') : Passes(i)'
  <2> SUFFICES ASSUME allPassed', NEW i \in 1 .. next PROVE Passes(i)'
    BY <1>4
  <2>1. allPassed /\ passes
    BY <1>5
  <2>2. CASE i = next
    <3>1. (IF ran'[i].how = "answered" THEN ran'[i].held ELSE MayPassCutShort(Check, ran'[i].how))
      BY <1>3, <1>4, <2>1, <2>2
    <3>2. Check = task.checks[i] /\ task' = task /\ context' = context
      BY <2>2 DEF Check
    <3>3. Earned(i)'
      BY <3>1, <3>2 DEF Earned, MayPassCutShort
    <3>4. ~Unresolvable(task.checks[i])'
      BY <3>2 DEF Unresolvable
    <3> QED BY <3>3, <3>4 DEF Passes
  <2>3. CASE i # next
    <3>1. i \in 1 .. (next - 1)
      BY <1>1, <2>3
    <3>2. Passes(i)
      BY <1>1, <2>1, <3>1 DEF PassInv
    <3>3. ran'[i] = ran[i]
      BY <1>4, <3>1
    <3> QED BY <3>2, <3>3, PassesUnchanged
  <2> QED BY <2>2, <2>3
<1>7. CASE (~passes /\ task.stop) \/ next = n
  <2>1. next' = 0 /\ (verdict'.passed => allPassed')
    BY <1>7 DEF Counts, Returns
  <2>2. verdict'.passed => Len(ran') = n /\ \A i \in 1 .. Len(ran') : Passes(i)'
    BY <1>4, <1>5, <1>6, <1>7, <2>1
  <2> QED
    BY <1>1, <1>4, <1>5, <2>1, <2>2 DEF PassInv
<1>8. CASE ~((~passes /\ task.stop) \/ next = n)
  <2>1. next' = next + 1 /\ verdict' = verdict
    BY <1>8 DEF Counts
  <2>2. next' \in 1 .. n /\ next' - 1 = next
    BY <1>1, <1>8, <2>1
  <2>3. ~(verdict.state = "returned" /\ verdict.passed)
    <3>1. Len(ran) = next - 1 /\ next - 1 # n
      BY <1>1 DEF PassInv
    <3> QED BY <3>1 DEF PassInv
  <2> QED
    BY <1>1, <1>4, <1>5, <1>6, <2>1, <2>2, <2>3 DEF PassInv
<1> QED BY <1>7, <1>8

LEMMA DispatchKeeps ==
  ASSUME PassInv, Dispatch
  PROVE  PassInv'
<1>1. UNCHANGED <<task, context, caller>>
  BY DEF Dispatch, dispatchCheck, callerVars
<1>2. next > 0 => Holds(Check, workspace) \in BOOLEAN
  <2>1. next > 0 => Check.kind \in CheckKinds
    BY TasksAssumption DEF PassInv, Check
  <2> QED BY <2>1, HoldsIsBoolean
<1>3. CASE CheckAnswers
  <2>1. /\ next > 0 /\ ~Unresolvable(Check) /\ Counts(Check, Holds(Check, workspace))
        /\ Records("answered") /\ upset' = upset
    BY <1>3 DEF CheckAnswers, Throws
  <2> QED BY <1>1, <1>2, <2>1, CountsKeeps DEF PassInv
<1>4. CASE CheckCutShort
  <2>1. next > 0 /\ ~Unresolvable(Check) /\ upset' = upset + 1
    BY <1>4 DEF CheckCutShort, Throws, Upsets
  <2>2. PICK how \in DOMAIN ExitCode, passes \in BOOLEAN :
          /\ passes => MayPassCutShort(Check, how)
          /\ Counts(Check, passes)
          /\ Records(how)
    BY <1>4 DEF CheckCutShort
  <2>3. how # "answered"
    BY DEF ExitCode
  <2>4. upset' \in Nat
    BY <2>1 DEF PassInv
  <2> QED BY <1>1, <2>1, <2>2, <2>3, <2>4, CountsKeeps
<1>5. CASE CheckThrows
  <2>1. 0 \in 0 .. Len(task.checks)
    BY TasksAssumption DEF PassInv
  <2>2. next' = 0 /\ verdict'.state # "returned" /\ UNCHANGED <<ran, upset, allPassed>>
    BY <1>5 DEF CheckThrows, Rejection, NoVerdict
  <2> QED BY <1>1, <2>1, <2>2 DEF PassInv
<1> QED BY <1>3, <1>4, <1>5 DEF Dispatch, dispatchCheck

\* The invariant says nothing of the workspace.
LEMMA DispatcherUnchanged ==
  ASSUME PassInv, upset' \in Nat, UNCHANGED <<task, context, next, ran, allPassed, verdict, caller>>
  PROVE  PassInv'
  BY PassesUnchanged DEF PassInv

\* A verification that passes has run all checks, each of which has earned it
\* (dispatcher.ts:18-41), and none of them needs a path that the context lacks.
THEOREM PassInvariant == Spec => []PassInv
<1>1. PassInv /\ [Next]_vars => PassInv'
  <2> SUFFICES ASSUME PassInv, [Next]_vars PROVE PassInv'
    OBVIOUS
  <2>1. upset \in Nat
    BY DEF PassInv
  <2>2. CASE Dispatch
    BY <2>2, DispatchKeeps
  <2>3. CASE EngineVerifies \/ NoOpCreates \/ VectorRuns
    <3>1. upset' \in Nat
      BY <2>1, <2>3 DEF EngineVerifies, NoOpCreates, VectorRuns, Upsets
    <3> QED BY <2>3, <3>1, VerifyKeeps DEF EngineVerifies, NoOpCreates, VectorRuns, callerVars
  <2>4. CASE Interferes
    <3>1. upset' \in Nat
      BY <2>1, <2>4 DEF Interferes, Upsets
    <3> QED BY <2>4, <3>1, DispatcherUnchanged DEF Interferes, callerVars
  <2>5. CASE EngineEnds \/ NoOpCreateThrows \/ NoOpEnds \/ NoOpThrows \/ TrialEnds \/ AuditRejects
    BY <2>1, <2>5, DispatcherUnchanged
       DEF EngineEnds, NoOpCreateThrows, NoOpEnds, NoOpThrows, TrialEnds, AuditRejects, callerVars, dispatchVars
  <2>6. CASE UNCHANGED vars
    BY <2>1, <2>6, DispatcherUnchanged DEF vars, callerVars, dispatchVars
  <2> QED BY <2>2, <2>3, <2>4, <2>5, <2>6 DEF Next
<1> QED BY <1>1, PassInitially, PTL DEF Spec

PassesAreEarned ==
  (verdict.state = "returned" /\ verdict.passed) =>
    Len(ran) = Len(task.checks) /\ \A i \in 1 .. Len(task.checks) : Earned(i)

\* Whoever asks, whether or not the task stops at the first failure, and whatever is cut
\* short or disturbed: a verdict of passed means that every check was run, and held in
\* the workspace as it found it or was cut short with the exit code that it expects
\* (dispatcher.ts:22-41, local-env.ts:143,155, security-verifier.ts:20-21).
THEOREM PassedOnMerits == Spec => []PassesAreEarned
<1>1. PassInv => PassesAreEarned
  BY DEF PassInv, PassesAreEarned, Passes
<1> QED BY <1>1, PassInvariant, PTL

\* No task with a check of a file, or of a database at a path, is ever passed in a run
\* of the engine, unless the path is absolute (engine.ts:132-136, fs-verifier.ts:13,
\* db-verifier.ts:12).
THEOREM FileChecksFail == Spec => []FileChecksNeverPassRuns
<1>1. PassInv => FileChecksNeverPassRuns
  <2> SUFFICES ASSUME PassInv, caller = "engine", verdict.state = "returned", verdict.passed,
                      NEW i \in DOMAIN task.checks
               PROVE  ~Unresolvable(task.checks[i])
    BY DEF PassInv, FileChecksNeverPassRuns, Unresolvable
  <2>1. i \in 1 .. Len(ran)
    BY TasksAssumption DEF PassInv
  <2> QED BY <2>1 DEF PassInv, Passes
<1> QED BY <1>1, PassInvariant, PTL

-------------------------------------------------------------------------------
(***************************************************************************)
(* The verdict and the reference.  The loop's sums are those of the checks *)
(* before the next one, which has before it the workspace that they have   *)
(* left; a task that stops at a failure has none behind it as long as the  *)
(* loop goes on; and a failure that the loop has seen is one that the      *)
(* reference sees.  All this as long as nothing was cut short or disturbed.*)
(***************************************************************************)
LoopInv ==
  next > 0 =>
    /\ weighed = Sums(Weights)[next - 1]
    /\ task.stop => allPassed
    /\ allPassed => scored = Sums(FullPoints)[next - 1]
    /\ upset = 0 =>
         /\ workspace = Left(began)[next - 1]
         /\ scored = Sums(Points(began))[next - 1]
         /\ allPassed <=> \A i \in 1 .. (next - 1) : HoldsIn(i, began)

RefInv == PassInv /\ LoopInv /\ VerdictIsReference

\* The checks of a task and what they may score.
LEMMA Values ==
  ASSUME PassInv
  PROVE  /\ Len(task.checks) \in Nat \ {0}
         /\ DOMAIN task.checks = 1 .. Len(task.checks)
         /\ \A i \in 1 .. Len(task.checks) :
              /\ task.checks[i].kind \in CheckKinds
              /\ Weights[i] = task.checks[i].weight /\ Weights[i] \in Nat
              /\ FullPoints[i] = ScoreOf(task.checks[i], TRUE) * task.checks[i].weight
              /\ FullPoints[i] \in Int
              /\ \A F : /\ Points(F)[i] = ScoreOf(task.checks[i], HoldsIn(i, F)) * task.checks[i].weight
                        /\ Points(F)[i] \in Int
<1>1. /\ Len(task.checks) \in Nat \ {0}
      /\ DOMAIN task.checks = 1 .. Len(task.checks)
      /\ \A i \in DOMAIN task.checks : task.checks[i].kind \in CheckKinds /\ task.checks[i].weight \in Nat
  BY TasksAssumption DEF PassInv
<1>2. \A check, holds : ScoreOf(check, holds) \in {0, 400, 950, 1000}
  BY DEF ScoreOf
<1>3. \A x \in {0, 400, 950, 1000}, y \in Nat : x * y \in Int
  OBVIOUS
<1>4. ASSUME NEW i \in 1 .. Len(task.checks), NEW F
      PROVE  /\ Points(F)[i] = ScoreOf(task.checks[i], HoldsIn(i, F)) * task.checks[i].weight
             /\ Points(F)[i] \in Int
  <2>1. Points(F)[i] = ScoreOf(task.checks[i], HoldsIn(i, F)) * task.checks[i].weight
    BY <1>1 DEF Points
  <2> QED BY <1>1, <1>2, <1>3, <2>1
<1>5. ASSUME NEW i \in 1 .. Len(task.checks)
      PROVE  /\ task.checks[i].kind \in CheckKinds
             /\ Weights[i] = task.checks[i].weight /\ Weights[i] \in Nat
             /\ FullPoints[i] = ScoreOf(task.checks[i], TRUE) * task.checks[i].weight
             /\ FullPoints[i] \in Int
  <2>1. /\ Weights[i] = task.checks[i].weight
        /\ FullPoints[i] = ScoreOf(task.checks[i], TRUE) * task.checks[i].weight
    BY <1>1 DEF Weights, FullPoints
  <2>2. task.checks[i].weight \in Nat /\ task.checks[i].kind \in CheckKinds
    BY <1>1
  <2> DEFINE full == ScoreOf(task.checks[i], TRUE)
             weight == task.checks[i].weight
  <2>3. full \in {0, 400, 950, 1000} /\ weight \in Nat
    BY <2>2 DEF ScoreOf
  <2>4. full * weight \in Int
    <3> HIDE DEF full, weight
    <3> QED BY <1>3, <2>3
  <2> QED BY <2>1, <2>2, <2>4
<1> QED
  BY <1>1, <1>4, <1>5

\* There is one check that can be the last to be run.
EndsAt(n, F) ==
  /\ task.stop => \A i \in 1 .. (n - 1) : HoldsIn(i, F)
  /\ n = Len(task.checks) \/ (task.stop /\ ~HoldsIn(n, F))

LEMMA LastRunIs ==
  ASSUME PassInv, NEW F, NEW n \in 1 .. Len(task.checks), EndsAt(n, F)
  PROVE  LastRun(F) = n
<1>1. Len(task.checks) \in Nat /\ DOMAIN task.checks = 1 .. Len(task.checks)
  BY Values
<1>2. ASSUME NEW k \in 1 .. Len(task.checks), NEW l \in 1 .. Len(task.checks),
             EndsAt(k, F), EndsAt(l, F), k < l
      PROVE  FALSE
  <2>1. k # Len(task.checks) /\ k \in 1 .. (l - 1)
    BY <1>1, <1>2
  <2> QED BY <1>2, <2>1 DEF EndsAt
<1>3. ASSUME NEW k \in 1 .. Len(task.checks), EndsAt(k, F)
      PROVE  k = n
  BY <1>1, <1>2, <1>3
<1>4. LastRun(F) = CHOOSE k \in 1 .. Len(task.checks) : EndsAt(k, F)
  BY <1>1 DEF LastRun, EndsAt
<1> QED BY <1>3, <1>4

\* What the reference says changes only with the task, the response and the workspace
\* that the verification found.
LEMMA ReferenceUnchanged ==
  ASSUME UNCHANGED <<task, context, began>>
  PROVE  /\ Weights' = Weights /\ FullPoints' = FullPoints
         /\ Left(began)' = Left(began)
         /\ Points(began)' = Points(began)
         /\ \A i : HoldsIn(i, began)' <=> HoldsIn(i, began)
         /\ RefPassed(began) \in BOOLEAN /\ RefPassed(began)' = RefPassed(began)
         /\ RefScored(began)' = RefScored(began)
         /\ RefWeighed(began)' = RefWeighed(began)
<1>1. Weights' = Weights /\ FullPoints' = FullPoints
  BY DEF Weights, FullPoints
<1>2. Left(began)' = Left(began)
  BY Zenon DEF Left, After
<1>3. \A i : HoldsIn(i, began)' <=> HoldsIn(i, began)
  BY <1>2 DEF HoldsIn, Holds, JudgePasses
<1>4. \A i : HoldsIn(i, began)' = HoldsIn(i, began)
  BY <1>2 DEF HoldsIn, Holds, JudgePasses
<1>5. Points(began)' = Points(began)
  BY <1>4 DEF Points
<1>6. LastRun(began)' = LastRun(began)
  BY <1>4 DEF LastRun
<1>7. RefPassed(began) \in BOOLEAN /\ RefPassed(began)' = RefPassed(began)
  BY <1>1, <1>4 DEF RefPassed
<1> QED
  BY <1>1, <1>2, <1>3, <1>5, <1>6, <1>7 DEF RefScored, RefWeighed

\* A check that did not throw is weighed in: with its own result, unless it was cut short.
LEMMA CountsKeepsReference ==
  ASSUME RefInv, NEW passes \in BOOLEAN, next > 0, Counts(Check, passes), upset' \in Nat,
         upset' = 0 => /\ upset = 0 /\ passes = Holds(Check, workspace)
                       /\ workspace' = After(Check, workspace),
         UNCHANGED <<task, context, began>>, PassInv'
  PROVE  RefInv'
<1> DEFINE n == Len(task.checks)
<1>1. /\ PassInv /\ LoopInv /\ VerdictIsReference /\ allPassed \in BOOLEAN
      /\ n \in Nat \ {0} /\ DOMAIN task.checks = 1 .. n /\ next \in 1 .. n
      /\ next - 1 \in 0 .. n /\ next \in Nat \ {0}
  BY Values DEF RefInv, PassInv
<1>2. /\ Sums(Weights)[next] = Sums(Weights)[next - 1] + Weights[next]
      /\ Sums(FullPoints)[next] = Sums(FullPoints)[next - 1] + FullPoints[next]
      /\ Sums(Points(began))[next] = Sums(Points(began))[next - 1] + Points(began)[next]
  <2>1. \A i \in 1 .. n : Weights[i] \in Int
    <3>1. \A i \in 1 .. n : Weights[i] \in Nat
      BY <1>1, Values
    <3> QED BY <3>1
  <2>2. \A i \in 1 .. n : FullPoints[i] \in Int
    BY <1>1, Values
  <2>3. \A i \in 1 .. n : Points(began)[i] \in Int
    BY <1>1, Values
  <2>4. n \in Nat
    BY <1>1
  <2> HIDE DEF n
  <2> QED BY <1>1, <2>1, <2>2, <2>3, <2>4, SumsStep
<1>3. weighed' = Sums(Weights)[next]
  BY <1>1, <1>2, Values DEF Counts, LoopInv, Check
<1>4. allPassed' <=> allPassed /\ passes
  BY <1>1 DEF Counts
<1>5. allPassed' => scored' = Sums(FullPoints)[next]
  BY <1>1, <1>2, <1>4, Values DEF Counts, LoopInv, Check
<1>6. ASSUME upset' = 0
      PROVE  /\ upset = 0 /\ passes = HoldsIn(next, began)
             /\ workspace' = Left(began)[next]
             /\ scored' = Sums(Points(began))[next]
             /\ allPassed' <=> \A i \in 1 .. next : HoldsIn(i, began)
  <2>1. /\ upset = 0 /\ passes = Holds(Check, workspace)
        /\ workspace' = After(Check, workspace) /\ workspace = Left(began)[next - 1]
    BY <1>1, <1>6 DEF LoopInv
  <2>2. passes = HoldsIn(next, began)
    BY <2>1 DEF HoldsIn, Check
  <2>3. workspace' = Left(began)[next]
    <3>1. Left(began)[next] = After(Check, Left(began)[next - 1])
      BY <1>1, LeftStep DEF Check
    <3> QED BY <2>1, <3>1
  <2>4. scored' = Sums(Points(began))[next]
    <3>1. Points(began)[next] = ScoreOf(Check, passes) * Check.weight
      BY <1>1, <2>2, Values DEF Check
    <3>2. scored = Sums(Points(began))[next - 1]
      BY <1>1, <2>1 DEF LoopInv
    <3> QED BY <1>2, <3>1, <3>2 DEF Counts
  <2>5. allPassed <=> \A i \in 1 .. (next - 1) : HoldsIn(i, began)
    BY <1>1, <2>1 DEF LoopInv
  <2>6. next \in 1 .. next /\ \A i : i \in 1 .. next <=> i \in 1 .. (next - 1) \/ i = next
    BY <1>1
  <2>7. allPassed' <=> \A i \in 1 .. next : HoldsIn(i, began)
    BY <1>4, <2>2, <2>5, <2>6
  <2> QED BY <2>1, <2>2, <2>3, <2>4, <2>7
<1>7. task.stop => allPassed
  BY <1>1 DEF LoopInv
<1>8. CASE ~((~passes /\ task.stop) \/ next = n)
  <2>1. next' = next + 1 /\ verdict' = verdict
    BY <1>8 DEF Counts
  <2>2. next' - 1 = next
    BY <1>1, <2>1
  <2>3. LoopInv'
    BY <1>3, <1>4, <1>5, <1>6, <1>7, <1>8, <2>2, ReferenceUnchanged DEF LoopInv
  <2>4. VerdictIsReference'
    <3>1. verdict.state # "returned" \/ ~verdict.passed
      <4>1. next > 0 => Len(ran) = next - 1
        BY <1>1 DEF PassInv
      <4> QED BY <1>1, <4>1, <1>8 DEF PassInv
    <3> QED BY <1>1, <1>6, <2>1, <3>1, ReferenceUnchanged DEF VerdictIsReference
  <2> QED BY <2>3, <2>4 DEF RefInv
<1>9. CASE (~passes /\ task.stop) \/ next = n
  <2>1. /\ next' = 0
        /\ verdict' = [state |-> "returned", passed |-> allPassed' /\ AtLeast(scored', weighed', task.minimum),
                       scored |-> scored', weighed |-> weighed']
    BY <1>9 DEF Counts, Returns
  <2>2. verdict'.passed \in BOOLEAN
    BY <1>1, <1>4, <2>1 DEF AtLeast
  <2>3. verdict'.passed => Len(ran') = Len(task'.checks) /\ \A i \in DOMAIN ran' : Earned(i)'
    <3>1. DOMAIN ran' = 1 .. Len(ran')
      BY DEF PassInv
    <3> QED BY <2>1, <3>1 DEF PassInv, Passes
  <2>4. ASSUME upset' = 0, verdict'.passed
        PROVE  RefPassed(began)
    <3>1. allPassed' /\ AtLeast(scored', weighed', task.minimum)
      BY <2>1, <2>4
    <3>2. next = n
      BY <1>4, <1>9, <3>1
    <3> QED BY <1>1, <1>3, <1>5, <1>6, <2>4, <3>1, <3>2 DEF RefPassed
  <2>5. ASSUME upset' = 0, RefPassed(began)
        PROVE  verdict'.passed
    <3>1. \A i \in 1 .. n : HoldsIn(i, began)
      BY <1>1, <2>5 DEF RefPassed
    <3>2. allPassed'
      BY <1>1, <1>6, <2>5, <3>1
    <3>3. next = n
      BY <1>4, <1>9, <3>2
    <3> QED BY <1>3, <1>5, <2>1, <2>5, <3>2, <3>3 DEF RefPassed
  <2>6. ASSUME upset' = 0
        PROVE  verdict'.scored = RefScored(began) /\ verdict'.weighed = RefWeighed(began)
    <3>1. passes = HoldsIn(next, began)
      BY <1>6, <2>6
    <3>2. task.stop => \A i \in 1 .. (next - 1) : HoldsIn(i, began)
      BY <1>1, <1>6, <1>7, <2>6 DEF LoopInv
    <3>3. EndsAt(next, began)
      BY <1>9, <3>1, <3>2 DEF EndsAt
    <3>4. LastRun(began) = next
      BY <1>1, <3>3, LastRunIs
    <3> QED BY <1>3, <1>6, <2>1, <2>6, <3>4 DEF RefScored, RefWeighed
  <2>7. LoopInv'
    BY <2>1 DEF LoopInv
  <2>8. VerdictIsReference'
    BY <2>2, <2>3, <2>4, <2>5, <2>6, ReferenceUnchanged DEF VerdictIsReference
  <2> QED BY <2>7, <2>8 DEF RefInv
<1> QED BY <1>8, <1>9

\* The start of a verification, whatever was done to the workspace before it.
LEMMA VerifyKeepsReference ==
  ASSUME RefInv, verify, upset' \in Nat, UNCHANGED <<task, context, caller>>
  PROVE  RefInv'
<1>1. PassInv'
  BY VerifyKeeps DEF RefInv
<1>2. /\ next' = 1 /\ scored' = 0 /\ weighed' = 0 /\ allPassed' = TRUE
      /\ verdict' = NoVerdict /\ began' = workspace'
  BY DEF verify
<1>3. \A value : Sums(value)[0] = 0
  BY SumsDef
<1>4. next' - 1 = 0 /\ 1 .. 0 = {}
  BY <1>2
<1>5. Left(began)'[0] = began'
  <2> DEFINE G == began'
  <2>1. Left(G)[0] = G
    BY LeftStep
  <2>2. Left(began)' = Left(G)
    BY Zenon DEF Left, After
  <2> QED BY <2>1, <2>2
<1>6. LoopInv'
  BY <1>2, <1>3, <1>4, <1>5 DEF LoopInv
<1>7. VerdictIsReference'
  BY <1>2 DEF VerdictIsReference, NoVerdict
<1> QED BY <1>1, <1>6, <1>7 DEF RefInv

LEMMA DispatchKeepsReference ==
  ASSUME RefInv, Dispatch
  PROVE  RefInv'
<1>1. PassInv' /\ UNCHANGED <<task, context, began>> /\ upset' \in Nat
  BY DispatchKeeps DEF RefInv, Dispatch, dispatchCheck, PassInv
<1>2. next > 0 => Holds(Check, workspace) \in BOOLEAN
  <2>1. next > 0 => Check.kind \in CheckKinds
    BY TasksAssumption DEF RefInv, PassInv, Check
  <2> QED BY <2>1, HoldsIsBoolean DEF RefInv
<1>3. CASE CheckAnswers
  <2>1. /\ next > 0 /\ Counts(Check, Holds(Check, workspace))
        /\ workspace' = After(Check, workspace) /\ upset' = upset
    BY <1>3 DEF CheckAnswers
  <2> QED BY <1>1, <1>2, <2>1, CountsKeepsReference
<1>4. CASE CheckCutShort
  <2>1. next > 0 /\ upset' # 0
    BY <1>4 DEF CheckCutShort, Upsets, RefInv, PassInv
  <2>2. PICK passes \in BOOLEAN : Counts(Check, passes)
    BY <1>4 DEF CheckCutShort
  <2> QED BY <1>1, <2>1, <2>2, CountsKeepsReference
<1>5. CASE CheckThrows
  <2>1. next' = 0 /\ verdict'.state = "rejected"
    BY <1>5 DEF CheckThrows, Rejection, NoVerdict
  <2> QED BY <1>1, <2>1 DEF RefInv, LoopInv, VerdictIsReference
<1> QED BY <1>3, <1>4, <1>5 DEF Dispatch, dispatchCheck

\* The workspace is disturbed.
LEMMA InterferesKeepsReference ==
  ASSUME RefInv, Interferes
  PROVE  RefInv'
<1>1. /\ upset' \in Nat \ {0}
      /\ UNCHANGED <<task, context, next, began, ran, scored, weighed, allPassed, verdict, caller>>
  BY DEF Interferes, Upsets, RefInv, PassInv, callerVars
<1>2. PassInv'
  BY <1>1, DispatcherUnchanged DEF RefInv
<1>3. LoopInv'
  BY <1>1, ReferenceUnchanged DEF RefInv, LoopInv
<1>4. VerdictIsReference'
  BY <1>1 DEF RefInv, VerdictIsReference, Earned, MayPassCutShort
<1> QED BY <1>2, <1>3, <1>4 DEF RefInv

LEMMA ReferenceKept ==
  ASSUME RefInv, UNCHANGED <<dispatchVars, caller>>
  PROVE  RefInv'
<1>1. UNCHANGED <<task, context, workspace, next, began, ran, upset, scored, weighed, allPassed, verdict>>
  BY DEF dispatchVars
<1>2. PassInv'
  BY <1>1, DispatcherUnchanged DEF RefInv, PassInv
<1>3. LoopInv'
  BY <1>1, ReferenceUnchanged DEF RefInv, LoopInv
<1>4. VerdictIsReference'
  BY <1>1, ReferenceUnchanged DEF RefInv, VerdictIsReference, Earned, MayPassCutShort
<1> QED BY <1>2, <1>3, <1>4 DEF RefInv

\* What the loop has summed up and seen is what the reference says of the checks so far.
THEOREM ReferenceInvariant == Spec => []RefInv
<1>1. Init => RefInv
  <2> SUFFICES ASSUME Init PROVE RefInv
    OBVIOUS
  <2>1. next = 0 /\ verdict.state = "none"
    BY DEF Init, NoVerdict
  <2>2. LoopInv /\ VerdictIsReference
    BY <2>1 DEF LoopInv, VerdictIsReference
  <2>3. PassInv
    BY PassInitially
  <2> QED BY <2>2, <2>3 DEF RefInv
<1>2. RefInv /\ [Next]_vars => RefInv'
  <2> SUFFICES ASSUME RefInv, [Next]_vars PROVE RefInv'
    OBVIOUS
  <2>1. CASE Dispatch
    BY <2>1, DispatchKeepsReference
  <2>2. CASE Interferes
    BY <2>2, InterferesKeepsReference
  <2>3. CASE EngineVerifies \/ NoOpCreates \/ VectorRuns
    <3>1. upset' \in Nat
      BY <2>3 DEF EngineVerifies, NoOpCreates, VectorRuns, Upsets, RefInv, PassInv
    <3> QED BY <2>3, <3>1, VerifyKeepsReference DEF EngineVerifies, NoOpCreates, VectorRuns, callerVars
  <2>4. CASE EngineEnds \/ NoOpCreateThrows \/ NoOpEnds \/ NoOpThrows \/ TrialEnds \/ AuditRejects
    BY <2>4, ReferenceKept
       DEF EngineEnds, NoOpCreateThrows, NoOpEnds, NoOpThrows, TrialEnds, AuditRejects, callerVars
  <2>5. CASE UNCHANGED vars
    BY <2>5, ReferenceKept DEF vars, callerVars
  <2> QED BY <2>1, <2>2, <2>3, <2>4, <2>5 DEF Next
<1> QED BY <1>1, <1>2, PTL DEF Spec

\* For any task and workspace: a verification that passes has run all checks, and each
\* has earned it; one that returns, and of which nothing was cut short or disturbed, has
\* the verdict and the score of the reference (dispatcher.ts:18-41).
THEOREM VerdictsAreRight == Spec => []VerdictIsReference
<1>1. RefInv => VerdictIsReference
  BY DEF RefInv
<1> QED BY <1>1, ReferenceInvariant, PTL

-------------------------------------------------------------------------------
(***************************************************************************)
(* The no-op run verifies the fixture as it is, and what it concludes is   *)
(* about that verification.                                                *)
(***************************************************************************)
NoOpInv ==
  /\ at \in {"start", "verify", "done"}
  /\ caller = "validate" =>
       /\ at # "done" => ~report.made
       /\ at = "start" => verdict.state = "none"
       /\ at = "verify" => began = Untouched
       /\ report.made /\ verdict.state = "returned" =>
            /\ sandbox = "removed" /\ began = Untouched
            /\ report.accepted => noOpFailed

LEMMA NoOpInitially == Init => NoOpInv
  BY DEF Init, NoOpInv, NoVerdict, NoReport

LEMMA NoOpKept ==
  ASSUME NoOpInv, [Next]_vars
  PROVE  NoOpInv'
<1>1. CASE Dispatch
  <2>1. /\ at = "verify" /\ at' = at
        /\ UNCHANGED <<caller, began, fixture, outside, missing, sandbox, report>>
    BY <1>1 DEF Dispatch, dispatchCheck, callerVars
  <2> QED BY <2>1 DEF NoOpInv, Untouched
<1>2. CASE Interferes
  <2>1. /\ at' = at /\ at # "done"
        /\ UNCHANGED <<caller, began, fixture, outside, missing, sandbox, report, verdict>>
    BY <1>2 DEF Interferes, callerVars
  <2> QED BY <2>1 DEF NoOpInv, Untouched
<1>3. CASE EngineVerifies \/ EngineEnds \/ VectorRuns \/ TrialEnds \/ AuditRejects
  BY <1>3 DEF EngineVerifies, EngineEnds, VectorRuns, TrialEnds, AuditRejects, callerVars, NoOpInv
<1>4. CASE NoOpCreates
  <2>1. /\ at = "start" /\ at' = "verify" /\ began' = Untouched
        /\ UNCHANGED <<caller, fixture, outside, missing, report>>
    BY <1>4 DEF NoOpCreates, verify, callerVars, Untouched
  <2>2. Untouched' = Untouched
    BY <2>1 DEF Untouched
  <2> QED BY <2>1, <2>2 DEF NoOpInv
<1>5. CASE NoOpCreateThrows
  <2>1. caller = "validate" /\ at = "start" /\ at' = "done" /\ UNCHANGED <<caller, verdict>>
    BY <1>5 DEF NoOpCreateThrows, dispatchVars, callerVars
  <2> QED BY <2>1 DEF NoOpInv
<1>6. CASE NoOpEnds
  <2>1. /\ caller = "validate" /\ at = "verify" /\ at' = "done" /\ sandbox' = "removed"
        /\ UNCHANGED <<caller, fixture, outside, missing, began, verdict>>
        /\ report'.accepted => noOpFailed
    BY <1>6 DEF NoOpEnds, dispatchVars, callerVars, Concludes
  <2>2. Untouched' = Untouched /\ (noOpFailed' <=> noOpFailed)
    BY <2>1 DEF Untouched, noOpFailed
  <2> QED BY <2>1, <2>2 DEF NoOpInv
<1>7. CASE NoOpThrows
  <2>1. verdict.state = "rejected" /\ at' = "done" /\ UNCHANGED <<caller, verdict>>
    BY <1>7 DEF NoOpThrows, dispatchVars, callerVars
  <2> QED BY <2>1 DEF NoOpInv
<1>8. CASE UNCHANGED vars
  <2>1. UNCHANGED <<at, caller, fixture, outside, missing, began, verdict, sandbox, report>>
    BY <1>8 DEF vars, dispatchVars, callerVars
  <2> QED BY <2>1 DEF NoOpInv, Untouched, noOpFailed
<1> QED BY <1>1, <1>2, <1>3, <1>4, <1>5, <1>6, <1>7, <1>8 DEF Next

\* For any task and fixture: a task that passes on its untouched fixture, or scores more
\* than a tenth there, is not accepted, and its sandbox is removed, unless the no-op run
\* threw, or one of its commands was cut short or disturbed; a tenth is accepted
\* (validation-pipeline.ts:157-185).
THEOREM NoOpRunsDecide == Spec => []NoOpRunDecides
<1>1. Spec => []NoOpInv
  BY NoOpInitially, NoOpKept, PTL DEF Spec
<1>2. NoOpInv /\ RefInv => NoOpRunDecides
  <2> SUFFICES ASSUME NoOpInv, RefInv, report.made, caller = "validate", verdict.state = "returned"
               PROVE  /\ sandbox = "removed"
                      /\ report.accepted =>
                           \/ upset > 0
                           \/ /\ ~RefPassed(Untouched)
                              /\ ~Above(RefScored(Untouched), RefWeighed(Untouched), 100)
    BY DEF NoOpRunDecides
  <2>1. /\ sandbox = "removed" /\ began = Untouched
        /\ report.accepted => ~verdict.passed /\ ~Above(verdict.scored, verdict.weighed, 100)
    BY DEF NoOpInv, noOpFailed
  <2>2. upset = 0 => /\ verdict.passed = RefPassed(began)
                     /\ verdict.scored = RefScored(began)
                     /\ verdict.weighed = RefWeighed(began)
    BY DEF RefInv, VerdictIsReference
  <2>3. upset = 0 \/ upset > 0
    BY DEF RefInv, PassInv
  <2> QED BY <2>1, <2>2, <2>3
<1> QED BY <1>1, <1>2, ReferenceInvariant, PTL

-------------------------------------------------------------------------------
(***************************************************************************)
(* The audit tries its vectors on top of each other.  If all checks are    *)
(* run, more features fail none of them and none takes away what the       *)
(* fixture has, the later vectors can only score more than they would      *)
(* alone.                                                                  *)
(***************************************************************************)
Auditable == ~task.stop /\ \A i \in DOMAIN task.checks : Growing(task.checks[i])

\* The workspace of the i-th vector, had it been tried alone.
Alone(i) == Cheats(i, Untouched)

Bypassed(features) ==
  RefPassed(features) \/ Above(RefScored(features), RefWeighed(features), 500)

\* What the vectors have left of the fixture: all of it, as long as they were harmless.
KeptInv ==
  Auditable /\ upset = 0 =>
    /\ at = "start" /\ Harmless(Len(trials)) => Untouched \subseteq workspace
    /\ at = "verify" /\ Harmless(Len(trials)) => Alone(Len(trials) + 1) \subseteq began
    /\ at = "verify" /\ Harmless(Len(trials) + 1) => Untouched \subseteq workspace

\* The trials so far are sound.
TrialsInv ==
  Auditable /\ upset = 0 =>
    \A i \in 1 .. Len(trials) : ~trials[i] /\ Harmless(i - 1) => ~Bypassed(Alone(i))

AuditInv ==
  /\ at \in {"start", "verify", "done"}
  /\ caller = "audit" =>
       /\ trials \in Seq(BOOLEAN)
       /\ at # "done" => Len(trials) < Len(STANDARD_CHEAT_VECTORS) /\ ~report.made
       /\ report.made =>
            /\ Len(trials) = Len(STANDARD_CHEAT_VECTORS)
            /\ ~report.vulnerable => \A i \in 1 .. Len(trials) : ~trials[i]
       /\ KeptInv
       /\ TrialsInv

\* A check that holds still holds when there are more features.
LEMMA HoldsGrows ==
  ASSUME NEW check, check.kind \in CheckKinds, Growing(check),
         NEW F, NEW W, F \subseteq W, Holds(check, F)
  PROVE  Holds(check, W)
<1> USE DEF CheckKinds, ShellKinds, CommandKinds, FileKinds
<1>1. CASE check.kind \in FileKinds
  <2>1. check.exists = "yes" /\ FilePasses(check, F)
    BY <1>1 DEF Growing, Holds
  <2>2. check.file \in F /\ check.content \subseteq F
    BY <2>1 DEF FilePasses, FileAsExpected
  <2>3. FilePasses(check, W)
    BY <2>1, <2>2 DEF FilePasses, FileAsExpected
  <2> QED BY <1>1, <2>3 DEF Holds
<1>2. CASE check.kind \in CommandKinds
  BY <1>2 DEF Holds, CommandPasses
<1>3. CASE check.kind = "http"
  BY <1>3 DEF Holds, HttpPasses
<1>4. CASE check.kind = "database"
  BY <1>4 DEF Holds, DatabasePasses
<1>5. CASE check.kind = "security"
  BY <1>5 DEF Holds, SecurityPasses, Growing
<1>6. CASE check.kind = "llm_judge"
  BY <1>6 DEF Holds
<1> QED BY <1>1, <1>2, <1>3, <1>4, <1>5, <1>6

LEMMA BypassedGrows ==
  ASSUME PassInv, Auditable, NEW F, NEW W, F \subseteq W, Bypassed(F)
  PROVE  Bypassed(W)
<1> DEFINE n == Len(task.checks)
<1>1. n \in Nat \ {0} /\ DOMAIN task.checks = 1 .. n
  BY Values
<1>2. ASSUME NEW i \in 1 .. n, HoldsIn(i, F) PROVE HoldsIn(i, W)
  <2>1. i - 1 \in Nat
    BY <1>1
  <2>2. task.checks[i].kind \in CheckKinds
    BY Values
  <2>3. Growing(task.checks[i])
    BY <1>1, Zenon DEF Auditable
  <2>4. Left(F)[i - 1] \subseteq Left(W)[i - 1]
    BY <2>1, LeftGrows
  <2> QED BY <1>2, <2>2, <2>3, <2>4, HoldsGrows DEF HoldsIn
<1>3. CASE RefPassed(F)
  BY <1>1, <1>2, <1>3 DEF RefPassed, Bypassed
<1>4. CASE Above(RefScored(F), RefWeighed(F), 500)
  <2>1. \A G : LastRun(G) = n
    <3>1. \A G : EndsAt(n, G)
      BY DEF Auditable, EndsAt
    <3> QED BY <1>1, <3>1, LastRunIs
  <2>2. ASSUME NEW i \in 1 .. n
        PROVE  /\ Points(F)[i] \in Int /\ Points(W)[i] \in Int
               /\ Points(F)[i] <= Points(W)[i]
    <3> DEFINE check == task.checks[i]
               weight == Weights[i]
    <3>1. /\ check.kind \in CheckKinds /\ weight \in Nat
          /\ Points(F)[i] = ScoreOf(check, HoldsIn(i, F)) * weight
          /\ Points(W)[i] = ScoreOf(check, HoldsIn(i, W)) * weight
          /\ Points(F)[i] \in Int /\ Points(W)[i] \in Int
      BY Values
    <3>2. HoldsIn(i, F) \in BOOLEAN /\ HoldsIn(i, W) \in BOOLEAN
      BY <3>1, HoldsIsBoolean DEF HoldsIn
    <3>3. HoldsIn(i, F) => HoldsIn(i, W)
      BY <1>2
    <3> HIDE DEF check, weight
    <3>4. \/ ScoreOf(check, HoldsIn(i, F)) = ScoreOf(check, HoldsIn(i, W))
          \/ ScoreOf(check, HoldsIn(i, F)) = 400 /\ ScoreOf(check, HoldsIn(i, W)) = 950
          \/ ScoreOf(check, HoldsIn(i, F)) = 0 /\ ScoreOf(check, HoldsIn(i, W)) = 1000
      BY <3>2, <3>3 DEF ScoreOf
    <3>5. 400 * weight <= 950 * weight /\ 0 * weight <= 1000 * weight
      BY <3>1
    <3> QED BY <3>1, <3>4, <3>5
  <2>3. /\ RefScored(F) = Sums(Points(F))[n] /\ RefScored(W) = Sums(Points(W))[n]
        /\ RefWeighed(F) = Sums(Weights)[n] /\ RefWeighed(W) = Sums(Weights)[n]
    BY <2>1 DEF RefScored, RefWeighed
  <2>4. \A i \in 1 .. n : Weights[i] \in Int
    <3>1. \A i \in 1 .. n : Weights[i] \in Nat
      BY Values
    <3> QED BY <3>1
  <2>5. n \in Nat
    BY <1>1
  <2> HIDE DEF n
  <2>6. n \in 0 .. n
    BY <2>5
  <2>7. Sums(Points(F))[n] <= Sums(Points(W))[n]
    BY <2>2, <2>5, <2>6, SumsMonotone
  <2>8. Sums(Points(F))[n] \in Int /\ Sums(Points(W))[n] \in Int
    BY <2>2, <2>5, <2>6, SumsStep
  <2>9. Sums(Weights)[n] \in Int
    BY <2>4, <2>5, <2>6, SumsStep
  <2>10. Above(RefScored(W), RefWeighed(W), 500)
    BY <1>4, <2>3, <2>7, <2>8, <2>9 DEF Above
  <2> QED BY <2>10 DEF Bypassed
<1> QED BY <1>3, <1>4 DEF Bypassed

LEMMA VectorCount == Len(STANDARD_CHEAT_VECTORS) = 4
  BY DEF STANDARD_CHEAT_VECTORS

\* What is said of the task, the fixture and the vectors changes with none of the steps.
LEMMA AuditConstants ==
  ASSUME UNCHANGED <<task, context, fixture, outside, missing>>
  PROVE  /\ Untouched' = Untouched
         /\ Auditable' <=> Auditable
         /\ \A i : Alone(i)' = Alone(i)
         /\ \A i : Harmless(i)' <=> Harmless(i)
         /\ \A F : Bypassed(F)' <=> Bypassed(F)
<1>1. Untouched' = Untouched
  BY DEF Untouched
<1>2. Auditable' <=> Auditable
  BY <1>1 DEF Auditable, Growing
<1>3. ASSUME NEW F
      PROVE  Bypassed(F)' <=> Bypassed(F)
  <2>1. Weights' = Weights /\ FullPoints' = FullPoints
    BY DEF Weights, FullPoints
  <2>2. Left(F)' = Left(F)
    BY Zenon DEF Left, After
  <2>3. \A i : HoldsIn(i, F)' = HoldsIn(i, F)
    BY <2>2 DEF HoldsIn, Holds, JudgePasses
  <2>4. Points(F)' = Points(F)
    BY <2>3 DEF Points
  <2>5. LastRun(F)' = LastRun(F)
    BY <2>3 DEF LastRun
  <2>6. RefPassed(F)' <=> RefPassed(F)
    BY <2>1, <2>3 DEF RefPassed
  <2>7. RefScored(F)' = RefScored(F) /\ RefWeighed(F)' = RefWeighed(F)
    BY <2>1, <2>4, <2>5 DEF RefScored, RefWeighed
  <2> QED BY <2>6, <2>7 DEF Bypassed, Above
<1> QED BY <1>1, <1>2, <1>3 DEF Alone, Cheats, Harmless

LEMMA AuditInitially == Init => AuditInv
<1> SUFFICES ASSUME Init PROVE AuditInv
  OBVIOUS
<1>1. /\ at = "start" /\ trials = <<>> /\ ~report.made
      /\ caller = "audit" => workspace = Untouched
  BY DEF Init, NoReport, Untouched
<1>2. trials \in Seq(BOOLEAN) /\ Len(trials) = 0 /\ 1 .. Len(trials) = {}
  BY <1>1
<1> QED BY <1>1, <1>2, VectorCount DEF AuditInv, KeptInv, TrialsInv

\* A step that leaves the trials as they are.
LEMMA TrialsKept ==
  ASSUME AuditInv, caller = "audit", upset' = 0 => upset = 0,
         at' \in {"start", "verify", "done"}, at' # "done" => at # "done",
         KeptInv',
         UNCHANGED <<task, context, callerVars, trials, report>>
  PROVE  AuditInv'
<1>1. UNCHANGED <<caller, fixture, outside, missing>>
  BY DEF callerVars
<1>2. TrialsInv'
  <2> SUFFICES ASSUME Auditable', upset' = 0, NEW i \in 1 .. Len(trials), ~trials[i], Harmless(i - 1)'
               PROVE  ~Bypassed(Alone(i))'
    BY DEF TrialsInv
  <2>1. Auditable /\ Harmless(i - 1)
    BY <1>1, AuditConstants
  <2>2. ~Bypassed(Alone(i))
    BY <2>1 DEF AuditInv, TrialsInv
  <2>3. Alone(i)' = Alone(i)
    BY <1>1, AuditConstants
  <2>4. Bypassed(Alone(i))' <=> Bypassed(Alone(i))
    <3>1. \A F : Bypassed(F)' <=> Bypassed(F)
      BY <1>1, AuditConstants
    <3> QED BY <2>3, <3>1
  <2> QED BY <2>2, <2>4
<1> QED BY <1>1, <1>2 DEF AuditInv

\* A vector is tried on a workspace that has at least what the fixture has.
LEMMA VectorKept ==
  ASSUME AuditInv, RefInv, VectorRuns
  PROVE  AuditInv'
<1> DEFINE k == Len(trials)
<1>1. /\ caller = "audit" /\ at = "start" /\ at' = "verify" /\ began' = workspace'
      /\ UNCHANGED <<task, context, callerVars, trials, report>>
  BY DEF VectorRuns, verify
<1>2. /\ UNCHANGED <<fixture, outside, missing>> /\ k \in Nat /\ upset \in Nat
  BY <1>1 DEF callerVars, AuditInv, RefInv, PassInv
<1>3. upset' = 0 => upset = 0 /\ workspace' = Cheats(k + 1, workspace)
  BY <1>2 DEF VectorRuns, Upsets
<1>4. KeptInv'
  <2> SUFFICES ASSUME Auditable', upset' = 0, Harmless(k)'
               PROVE  /\ Alone(k + 1)' \subseteq began'
                      /\ Harmless(k + 1)' => Untouched' \subseteq workspace'
    <3>1. Harmless(k + 1)' => Harmless(k)'
      BY <1>2 DEF Harmless
    <3> QED BY <1>1, <3>1 DEF KeptInv
  <2>1. /\ Auditable /\ upset = 0 /\ Harmless(k) /\ workspace' = Cheats(k + 1, workspace)
        /\ Alone(k + 1)' = Alone(k + 1) /\ Untouched' = Untouched
        /\ Harmless(k + 1)' <=> Harmless(k + 1)
    BY <1>1, <1>2, <1>3, AuditConstants
  <2>2. Untouched \subseteq workspace
    BY <1>1, <2>1 DEF AuditInv, KeptInv
  <2>3. Alone(k + 1) \subseteq Cheats(k + 1, workspace)
    BY <2>2 DEF Alone, Cheats
  <2>4. Harmless(k + 1) => Untouched \subseteq Cheats(k + 1, workspace)
    <3>1. k + 1 \in 1 .. (k + 1)
      BY <1>2
    <3> HIDE DEF k
    <3>2. Harmless(k + 1) => Effects[STANDARD_CHEAT_VECTORS[k + 1]].removes \intersect Untouched = {}
      BY <3>1 DEF Harmless
    <3> QED BY <2>2, <3>2 DEF Cheats
  <2> QED BY <1>1, <2>1, <2>3, <2>4
<1> QED BY <1>1, <1>3, <1>4, TrialsKept

\* No check takes away what the fixture has.
LEMMA CheckKept ==
  ASSUME AuditInv, RefInv, caller = "audit", Dispatch
  PROVE  AuditInv'
<1>1. /\ at = "verify" /\ at' = "verify" /\ began' = began
      /\ UNCHANGED <<task, context, callerVars, trials, report>>
  BY DEF Dispatch, dispatchCheck
<1>2. UNCHANGED <<fixture, outside, missing>>
  BY <1>1 DEF callerVars
<1>3. upset' = 0 => upset = 0
  BY DEF Dispatch, dispatchCheck, CheckAnswers, CheckCutShort, CheckThrows, Upsets, RefInv, PassInv
<1>4. workspace' = workspace \/ workspace' = After(Check, workspace)
  BY DEF Dispatch, dispatchCheck, CheckAnswers, CheckCutShort, CheckThrows
<1>5. Auditable => Check.removes \intersect Untouched = {}
  <2>1. next > 0
    BY DEF Dispatch, dispatchCheck, CheckAnswers, CheckCutShort, CheckThrows
  <2>2. next \in DOMAIN task.checks
    BY <2>1, TasksAssumption DEF RefInv, PassInv
  <2> QED BY <2>2 DEF Auditable, Growing, Check
<1>6. KeptInv'
  <2> SUFFICES ASSUME Auditable', upset' = 0
               PROVE  /\ Harmless(Len(trials))' => Alone(Len(trials) + 1)' \subseteq began'
                      /\ Harmless(Len(trials) + 1)' => Untouched' \subseteq workspace'
    BY <1>1 DEF KeptInv
  <2>1. /\ Auditable /\ upset = 0 /\ Untouched' = Untouched
        /\ \A i : Harmless(i)' <=> Harmless(i)
        /\ \A i : Alone(i)' = Alone(i)
    BY <1>1, <1>2, <1>3, AuditConstants
  <2>2. /\ Harmless(Len(trials)) => Alone(Len(trials) + 1) \subseteq began
        /\ Harmless(Len(trials) + 1) => Untouched \subseteq workspace
    BY <1>1, <2>1 DEF AuditInv, KeptInv
  <2>3. Untouched \subseteq workspace => Untouched \subseteq workspace'
    BY <1>4, <1>5, <2>1 DEF After
  <2> QED BY <1>1, <2>1, <2>2, <2>3
<1> QED BY <1>1, <1>3, <1>6, TrialsKept

\* A trial that did not bypass the checks would not have done so alone.
LEMMA TrialKept ==
  ASSUME AuditInv, RefInv, TrialEnds
  PROVE  AuditInv'
<1> DEFINE k == Len(trials)
<1>1. /\ caller = "audit" /\ at = "verify" /\ verdict.state = "returned"
      /\ trials' = Append(trials, bypassed)
      /\ UNCHANGED <<task, context, workspace, began, upset, caller, fixture, outside, missing>>
  BY DEF TrialEnds, dispatchVars, callerVars
<1>2. trials \in Seq(BOOLEAN) /\ k \in Nat /\ k < 4 /\ ~report.made /\ KeptInv /\ TrialsInv
  BY <1>1, VectorCount DEF AuditInv
<1>3. bypassed \in BOOLEAN
  BY DEF bypassed
<1>4. /\ trials' \in Seq(BOOLEAN) /\ Len(trials') = k + 1
      /\ trials'[k + 1] = bypassed
      /\ \A i \in 1 .. k : trials'[i] = trials[i]
      /\ DOMAIN trials' = 1 .. Len(trials')
  BY <1>1, <1>2, <1>3
<1>5. /\ Untouched' = Untouched
      /\ Auditable' <=> Auditable
      /\ \A i : Alone(i)' = Alone(i)
      /\ \A i : Harmless(i)' <=> Harmless(i)
      /\ \A F : Bypassed(F)' <=> Bypassed(F)
  BY <1>1, AuditConstants
<1>6. Auditable /\ upset = 0 /\ Harmless(k) /\ ~bypassed => ~Bypassed(Alone(k + 1))
  <2> SUFFICES ASSUME Auditable, upset = 0, Harmless(k), ~bypassed PROVE ~Bypassed(Alone(k + 1))
    OBVIOUS
  <2>1. /\ verdict.passed = RefPassed(began)
        /\ verdict.scored = RefScored(began) /\ verdict.weighed = RefWeighed(began)
    BY <1>1 DEF RefInv, VerdictIsReference
  <2>2. ~Bypassed(began)
    BY <2>1 DEF bypassed, Bypassed
  <2>3. Alone(k + 1) \subseteq began
    BY <1>1, <1>2 DEF KeptInv
  <2> QED BY <2>2, <2>3, BypassedGrows DEF RefInv
<1>7. TrialsInv'
  <2> SUFFICES ASSUME Auditable, upset = 0, NEW i \in 1 .. (k + 1), ~trials'[i], Harmless(i - 1)
               PROVE  ~Bypassed(Alone(i))
    BY <1>1, <1>4, <1>5 DEF TrialsInv
  <2>1. CASE i = k + 1
    <3>1. i - 1 = k
      BY <1>2, <2>1
    <3> QED BY <1>4, <1>6, <2>1, <3>1
  <2>2. CASE i # k + 1
    <3>1. i \in 1 .. k
      BY <1>2, <2>2
    <3> QED BY <1>2, <1>4, <3>1 DEF TrialsInv
  <2> QED BY <2>1, <2>2
<1>8. at' # "verify" /\ KeptInv'
  <2>1. at' \in {"start", "done"}
    BY DEF TrialEnds
  <2>2. Auditable /\ upset = 0 /\ Harmless(k + 1) => Untouched \subseteq workspace
    BY <1>1, <1>2 DEF KeptInv
  <2> QED BY <1>1, <1>4, <1>5, <2>1, <2>2 DEF KeptInv
<1>9. CASE Len(trials') = 4
  <2> DEFINE found == \E i \in DOMAIN trials' : trials'[i]
  <2>1. at' = "done" /\ report' = [made |-> TRUE, accepted |-> FALSE, vulnerable |-> found]
    BY <1>9, VectorCount DEF TrialEnds
  <2>2. ~found => \A i \in 1 .. Len(trials') : ~trials'[i]
    BY <1>4
  <2> HIDE DEF found
  <2>3. report'.made /\ (~report'.vulnerable => ~found)
    BY <2>1
  <2> QED BY <1>1, <1>4, <1>7, <1>8, <1>9, <2>1, <2>2, <2>3, VectorCount DEF AuditInv
<1>10. CASE Len(trials') # 4
  <2>1. at' = "start" /\ report' = report
    BY <1>10, VectorCount DEF TrialEnds
  <2>2. Len(trials') < 4
    BY <1>2, <1>4, <1>10
  <2> QED BY <1>1, <1>2, <1>4, <1>7, <1>8, <2>1, <2>2, VectorCount DEF AuditInv
<1> QED BY <1>9, <1>10

LEMMA AuditKept ==
  ASSUME AuditInv, RefInv, [Next]_vars
  PROVE  AuditInv'
<1>1. CASE caller # "audit"
  <2>1. caller' = caller /\ at' \in {"start", "verify", "done"}
    BY <1>1 DEF AuditInv, Next, vars, callerVars, Dispatch, Interferes, EngineVerifies, EngineEnds,
                NoOpCreates, NoOpCreateThrows, NoOpEnds, NoOpThrows, VectorRuns, TrialEnds, AuditRejects
  <2> QED BY <1>1, <2>1 DEF AuditInv
<1>2. CASE caller = "audit"
  <2>1. CASE Dispatch
    BY <1>2, <2>1, CheckKept
  <2>2. CASE VectorRuns
    BY <2>2, VectorKept
  <2>3. CASE TrialEnds
    BY <2>3, TrialKept
  <2>4. CASE Interferes
    <3>1. upset' # 0 /\ at' = at /\ UNCHANGED <<task, context, callerVars, trials, report>>
      BY <2>4 DEF Interferes, Upsets, RefInv, PassInv
    <3>2. KeptInv'
      BY <3>1 DEF KeptInv
    <3> QED BY <1>2, <3>1, <3>2, TrialsKept DEF AuditInv
  <2>5. CASE AuditRejects
    <3>1. /\ at' = "done" /\ at # "done" /\ upset' = upset
          /\ UNCHANGED <<task, context, callerVars, trials, report>>
      BY <2>5 DEF AuditRejects, dispatchVars
    <3>2. KeptInv'
      BY <3>1 DEF KeptInv
    <3> QED BY <1>2, <3>1, <3>2, TrialsKept
  <2>6. CASE EngineVerifies \/ EngineEnds \/ NoOpCreates \/ NoOpCreateThrows \/ NoOpEnds \/ NoOpThrows
    BY <1>2, <2>6 DEF EngineVerifies, EngineEnds, NoOpCreates, NoOpCreateThrows, NoOpEnds, NoOpThrows
  <2>7. CASE UNCHANGED vars
    <3>1. /\ UNCHANGED <<at, upset, workspace, began, fixture, outside, missing>>
          /\ UNCHANGED <<task, context, callerVars, trials, report>>
      BY <2>7 DEF vars, dispatchVars, callerVars
    <3>2. KeptInv'
      BY <1>2, <3>1, AuditConstants DEF AuditInv, KeptInv
    <3> QED BY <1>2, <3>1, <3>2, TrialsKept DEF AuditInv
  <2> QED BY <2>1, <2>2, <2>3, <2>4, <2>5, <2>6, <2>7 DEF Next
<1> QED BY <1>1, <1>2

\* For any task that runs all its checks, none of which can be passed by what is not
\* there or takes away what the fixture has, and for any effects of the four vectors: an
\* audit that finds nothing, and of which nothing was cut short or disturbed, means that
\* no vector would have bypassed the checks alone, up to the first that takes away
\* something of the fixture (hacker-fixer.ts:69-100).
THEOREM AuditsAreSound == Spec => []AuditIsSound
<1>1. Init => AuditInv
  BY AuditInitially
<1>2. AuditInv /\ RefInv /\ [Next]_vars => AuditInv'
  BY AuditKept
<1>3. AuditInv => AuditIsSound
  <2> SUFFICES ASSUME AuditInv, report.made, caller = "audit", ~report.vulnerable, upset = 0, Auditable,
                      NEW i \in DOMAIN STANDARD_CHEAT_VECTORS, Harmless(i - 1)
               PROVE  ~Bypassed(Alone(i))
    BY DEF AuditIsSound, Auditable, Bypassed, Alone
  <2>1. DOMAIN STANDARD_CHEAT_VECTORS = 1 .. 4
    BY DEF STANDARD_CHEAT_VECTORS
  <2>2. i \in 1 .. Len(trials) /\ ~trials[i]
    BY <2>1, VectorCount DEF AuditInv
  <2> QED BY <2>2 DEF AuditInv, TrialsInv
<1> QED BY <1>1, <1>2, <1>3, ReferenceInvariant, PTL DEF Spec

===============================================================================
