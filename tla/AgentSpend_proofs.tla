-------------------------- MODULE AgentSpend_proofs --------------------------
(***************************************************************************)
(* The daily budget of an agent and what it is told it may spend, for any  *)
(* rules, any number of calls and any amounts; the total is the sum of     *)
(* what could be counted; and all of it together keeps an abstract ledger. *)
(***************************************************************************)
EXTENDS AgentSpend, EngineLemmas, SetPolicy_proofs, FiniteSetTheorems

LEMMA RoundedTotal ==
  ASSUME NEW amount \in Nat, NEW r \in RoundedToCent(amount)
  PROVE  r \in Nat /\ 2 * (amount - r) <= Cent
<1> DEFINE below == Cent * (amount \div Cent)
<1>1. Cent \in Nat \ {0}
  BY CentAssumption
<1>2. amount \div Cent \in Nat
  BY <1>1
<1>3. below \in Nat
  BY <1>1, <1>2
<1>4. r \in {below, below + Cent} /\ 2 * (amount - r) <= Cent
  BY DEF RoundedToCent, Rounded
<1> QED
  BY <1>1, <1>3, <1>4

LEMMA TypeInit == Init => TypeOK
  BY SpendAssumption DEF Init, TypeOK, Optional

(* The lock of a total is held by the one call that is at the server.      *)
THEOREM TypeCorrect == Spec => []TypeOK
<1>1. TypeOK /\ [Next]_vars => TypeOK'
  <2> SUFFICES ASSUME TypeOK, [Next]_vars PROVE TypeOK'
    OBVIOUS
  <2>1. ASSUME NEW c \in Calls, NEW a \in Agents, NEW args \in ToolArgs, Start(c, a, args)
        PROVE  TypeOK'
    <3>1. call'[c] \in Call /\ call' \in [Calls -> Optional(Call)]
      BY <2>1, SpendAssumption DEF Start, TypeOK, Call, Optional
    <3>2. /\ pc' = [pc EXCEPT ![c] = "waiting"] /\ pc[c] = "idle"
          /\ \A d \in Calls : d # c => call'[d] = call[d]
          /\ UNCHANGED << shown, server, lock, spent >>
      BY <2>1 DEF Start, TypeOK
    <3> QED
      BY <3>1, <3>2 DEF TypeOK
  <2>2. ASSUME NEW c \in Calls, Submit(c)
        PROVE  TypeOK'
    <3>1. call[c] \in Call /\ call[c].agent \in Agents
      BY <2>2 DEF Submit, TypeOK, Call
    <3>2. shown' \in [Calls -> Nat]
      BY <2>2, <3>1, RoundedTotal DEF Submit, TypeOK
    <3>3. lock[call[c].agent] = None
      BY <2>2 DEF Submit, Available
    <3>4. \A d \in Calls : pc[d] = "submitted" => call[d].agent # call[c].agent
      BY <3>1, <3>3, SpendAssumption DEF TypeOK
    <3>5. /\ pc[c] = "waiting" /\ pc' = [pc EXCEPT ![c] = "submitted"]
          /\ lock' = [lock EXCEPT ![call[c].agent] = c]
          /\ server' = [server EXCEPT ![c] = "asked"]
          /\ UNCHANGED << call, spent >>
      BY <2>2 DEF Submit
    <3>6. lock' \in [Agents -> Optional(Calls)]
      BY <3>1, <3>5 DEF TypeOK, Optional
    <3>7. \A d \in Calls, a \in Agents :
            lock'[a] = d <=> pc'[d] = "submitted" /\ call'[d].agent = a
      BY <3>1, <3>3, <3>4, <3>5 DEF TypeOK
    <3> QED
      BY <3>2, <3>5, <3>6, <3>7 DEF TypeOK
  <2>3. ASSUME NEW c \in Calls, RejectAction(c)
        PROVE  TypeOK'
    BY <2>3 DEF TypeOK, RejectAction
  <2>4. ASSUME NEW c \in Calls, Judge(c)
        PROVE  TypeOK'
    <3> DEFINE d == Evaluate(Rules, Tx(c), Context(c)).decision
    <3>1. d \in {"approved", "blocked"}
      BY DEF Evaluate, BlockedByEngine, Decide
    <3>2. server' = [server EXCEPT ![c] = d] /\ server[c] = "asked"
      BY <2>4 DEF Judge
    <3> HIDE DEF d
    <3>3. UNCHANGED << call, pc, shown, lock, spent >>
      BY <2>4 DEF Judge
    <3> QED
      BY <3>1, <3>2, <3>3 DEF TypeOK
  <2>5. ASSUME NEW c \in Calls, Answer(c) \/ LoseAnswer(c)
        PROVE  TypeOK'
    <3>1. call[c] \in Call /\ call[c].agent \in Agents /\ call[c].amount \in Nat
      BY <2>5 DEF Answer, LoseAnswer, TypeOK, Call
    <3>2. spent' \in [Agents -> Nat]
      BY <2>5, <3>1 DEF Answer, LoseAnswer, SpentAfter, TypeOK
    <3>3. /\ pc[c] = "submitted"
          /\ pc' = [pc EXCEPT ![c] = "told"] \/ pc' = [pc EXCEPT ![c] = "failed"]
          /\ lock' = [lock EXCEPT ![call[c].agent] = None]
          /\ UNCHANGED << call, shown, server >>
      BY <2>5 DEF Answer, LoseAnswer, Released
    <3>4. lock' \in [Agents -> Optional(Calls)]
      BY <3>1, <3>3 DEF TypeOK, Optional
    <3>5. lock[call[c].agent] = c
      BY <3>1, <3>3 DEF TypeOK
    <3>6. \A d \in Calls, a \in Agents :
            lock'[a] = d <=> pc'[d] = "submitted" /\ call'[d].agent = a
      BY <3>1, <3>3, <3>5, SpendAssumption DEF TypeOK
    <3> QED
      BY <3>2, <3>3, <3>4, <3>6 DEF TypeOK
  <2>6. CASE UNCHANGED vars
    BY <2>6 DEF TypeOK, vars
  <2> QED
    BY <2>1, <2>2, <2>3, <2>4, <2>5, <2>6 DEF Next
<1> QED
  BY <1>1, TypeInit, PTL DEF Spec

-----------------------------------------------------------------------------
(* The inductive invariant: a call that is at the server has shown it the  *)
(* agent's total of this very moment, since nobody else can change it; and *)
(* an approval is one on top of what was shown.                            *)

ShownIsCurrent ==
  \A c \in Calls :
    pc[c] = "submitted" => 2 * (spent[call[c].agent] - shown[c]) <= Cent

ApprovedWithinLimit ==
  \A c \in Calls : \A i \in DOMAIN Rules :
    server[c] = "approved" /\ Rules[i].id = "MaxDailySpend" =>
      shown[c] + call[c].amount <= Rules[i].limit

(* The total itself keeps every limit, whatever it leaves out.             *)
TotalWithinLimit ==
  \A a \in Agents : \A i \in DOMAIN Rules :
    Rules[i].id = "MaxDailySpend" /\ spent[a] > 0 =>
      2 * spent[a] <= 2 * Rules[i].limit + Cent

IInv == TypeOK /\ ShownIsCurrent /\ ApprovedWithinLimit /\ TotalWithinLimit

LEMMA DailyLimitIsNumber ==
  ASSUME NEW i \in DOMAIN Rules, Rules[i].id = "MaxDailySpend"
  PROVE  Rules[i].limit \in Int
  BY SpendAssumption DEF PolicyRule

LEMMA StartStep ==
  ASSUME IInv, NEW c \in Calls, NEW a \in Agents, NEW args \in ToolArgs, Start(c, a, args)
  PROVE  ShownIsCurrent' /\ ApprovedWithinLimit' /\ TotalWithinLimit'
<1>1. /\ pc[c] = "idle" /\ pc'[c] = "waiting"
      /\ \A d \in Calls : d # c => pc'[d] = pc[d] /\ call'[d] = call[d]
      /\ UNCHANGED << shown, server, lock, spent >>
  BY DEF Start, IInv, TypeOK
<1>2. server[c] = "nothing"
  BY <1>1 DEF IInv, TypeOK
<1>3. ShownIsCurrent'
  BY <1>1 DEF IInv, ShownIsCurrent
<1>4. ApprovedWithinLimit'
  BY <1>1, <1>2 DEF IInv, ApprovedWithinLimit
<1>5. TotalWithinLimit'
  BY <1>1 DEF IInv, TotalWithinLimit
<1> QED
  BY <1>3, <1>4, <1>5

LEMMA SubmitStep ==
  ASSUME IInv, NEW c \in Calls, Submit(c)
  PROVE  ShownIsCurrent' /\ ApprovedWithinLimit' /\ TotalWithinLimit'
<1>1. /\ pc[c] = "waiting" /\ server'[c] = "asked"
      /\ shown'[c] \in RoundedToCent(spent[call[c].agent])
      /\ \A d \in Calls : d # c => /\ pc'[d] = pc[d] /\ shown'[d] = shown[d]
                                   /\ server'[d] = server[d]
      /\ UNCHANGED << call, spent >>
  BY DEF Submit, IInv, TypeOK
<1>2. spent[call[c].agent] \in Nat
  BY <1>1 DEF IInv, TypeOK, Call
<1>3. ShownIsCurrent'
  BY <1>1, <1>2, RoundedTotal DEF IInv, ShownIsCurrent
<1>4. ApprovedWithinLimit'
  BY <1>1 DEF IInv, ApprovedWithinLimit
<1>5. TotalWithinLimit'
  BY <1>1 DEF IInv, TotalWithinLimit
<1> QED
  BY <1>3, <1>4, <1>5

LEMMA JudgeStep ==
  ASSUME IInv, NEW c \in Calls, Judge(c)
  PROVE  ShownIsCurrent' /\ ApprovedWithinLimit' /\ TotalWithinLimit'
<1>1. /\ UNCHANGED << call, pc, shown, lock, spent >>
      /\ server'[c] = Evaluate(Rules, Tx(c), Context(c)).decision
      /\ \A d \in Calls : d # c => server'[d] = server[d]
  BY DEF Judge, IInv, TypeOK
<1>2. ASSUME server'[c] = "approved", NEW i \in DOMAIN Rules, Rules[i].id = "MaxDailySpend"
      PROVE  shown[c] + call[c].amount <= Rules[i].limit
  <2>1. Approved(Rules, Tx(c), Context(c))
    BY <1>1, <1>2 DEF Approved
  <2>2. Outcome(Rules[i], Tx(c), Context(c)) = "pass"
    BY <2>1, ApprovedMeansAllPass, SpendAssumption
  <2>3. Context(c).dailySpend = shown[c] /\ Tx(c).amount = call[c].amount
    BY DEF Context, Tx
  <2> QED
    BY <1>2, <2>2, <2>3 DEF Outcome, Check
<1>3. ApprovedWithinLimit'
  BY <1>1, <1>2 DEF IInv, ApprovedWithinLimit
<1>4. ShownIsCurrent' /\ TotalWithinLimit'
  BY <1>1 DEF IInv, ShownIsCurrent, TotalWithinLimit
<1> QED
  BY <1>3, <1>4

LEMMA AnswerStep ==
  ASSUME IInv, NEW c \in Calls, Answer(c) \/ LoseAnswer(c)
  PROVE  ShownIsCurrent' /\ ApprovedWithinLimit' /\ TotalWithinLimit'
<1> DEFINE a == call[c].agent
<1>1. /\ pc[c] = "submitted" /\ pc'[c] # "submitted"
      /\ \A d \in Calls : d # c => pc'[d] = pc[d]
      /\ UNCHANGED << call, shown, server >>
  BY DEF Answer, LoseAnswer, IInv, TypeOK
<1>2. a \in Agents /\ call[c].amount \in Nat /\ shown[c] \in Nat /\ spent[a] \in Nat
  BY <1>1 DEF IInv, TypeOK, Call
<1>3. \A b \in Agents : b # a => spent'[b] = spent[b]
  BY DEF Answer, LoseAnswer, SpentAfter, IInv, TypeOK
<1>4. \/ spent'[a] = spent[a]
      \/ server[c] = "approved" /\ spent'[a] = spent[a] + call[c].amount
  BY <1>2 DEF Answer, LoseAnswer, SpentAfter, IInv, TypeOK
<1>5. ApprovedWithinLimit'
  BY <1>1 DEF IInv, ApprovedWithinLimit
<1>6. ShownIsCurrent'
  <2>1. \A d \in Calls : d # c /\ pc[d] = "submitted" =>
          call[d].agent \in Agents /\ call[d].agent # a
    BY <1>1, <1>2 DEF IInv, TypeOK, Call
  <2> QED
    BY <1>1, <1>3, <2>1 DEF IInv, ShownIsCurrent
<1>7. TotalWithinLimit'
  <2>1. ASSUME NEW i \in DOMAIN Rules, Rules[i].id = "MaxDailySpend", spent'[a] > 0
        PROVE  2 * spent'[a] <= 2 * Rules[i].limit + Cent
    <3>1. CASE spent'[a] = spent[a]
      BY <1>2, <2>1, <3>1 DEF IInv, TotalWithinLimit
    <3>2. CASE server[c] = "approved" /\ spent'[a] = spent[a] + call[c].amount
      <4>1. shown[c] + call[c].amount <= Rules[i].limit
        BY <2>1, <3>2 DEF IInv, ApprovedWithinLimit
      <4>2. 2 * (spent[a] - shown[c]) <= Cent
        BY <1>1 DEF IInv, ShownIsCurrent
      <4>3. Rules[i].limit \in Int /\ Cent \in Nat
        BY <2>1, DailyLimitIsNumber, CentAssumption
      <4> QED
        BY <1>2, <3>2, <4>1, <4>2, <4>3
    <3> QED
      BY <1>4, <3>1, <3>2
  <2> QED
    BY <1>2, <1>3, <2>1 DEF IInv, TotalWithinLimit
<1> QED
  BY <1>5, <1>6, <1>7

LEMMA BudgetInvariance == Spec => []IInv
<1>1. Init => IInv
  BY TypeInit DEF Init, IInv, ShownIsCurrent, ApprovedWithinLimit, TotalWithinLimit
<1>2. IInv /\ TypeOK' /\ [Next]_vars => IInv'
  <2> SUFFICES ASSUME IInv, TypeOK', [Next]_vars PROVE IInv'
    OBVIOUS
  <2>1. CASE UNCHANGED vars
    BY <2>1 DEF vars, IInv, ShownIsCurrent, ApprovedWithinLimit, TotalWithinLimit
  <2>2. ASSUME NEW c \in Calls, RejectAction(c)
        PROVE  IInv'
    BY <2>2 DEF RejectAction, IInv, TypeOK, ShownIsCurrent, ApprovedWithinLimit, TotalWithinLimit
  <2> QED
    BY <2>1, <2>2, StartStep, SubmitStep, JudgeStep, AnswerStep DEF Next, IInv
<1> QED
  BY <1>1, <1>2, TypeCorrect, PTL DEF Spec

-----------------------------------------------------------------------------
(* Induction over finite sets, as a fact about sets of sets.               *)
LEMMA MinimalSubset ==
  ASSUME NEW S, IsFiniteSet(S), NEW F \in SUBSET (SUBSET S), F # {}
  PROVE  \E T \in F : /\ IsFiniteSet(T)
                      /\ \A U \in F : U \subseteq T => U = T
<1>1. FiniteSubsetsOf(S) = SUBSET S
  BY FS_FiniteSubsetsOfFinite
<1>2. IsWellFoundedOn(StrictSubsetOrdering(S), SUBSET S)
  BY <1>1, FS_StrictSubsetOrderingWellFounded
<1>3. PICK T \in F : \A U \in F : << U, T >> \notin StrictSubsetOrdering(S)
  BY <1>2, WFMin
<1>4. \A U \in F : U \subseteq T => U = T
  BY <1>3 DEF StrictSubsetOrdering
<1>5. IsFiniteSet(T)
  BY FS_Subset
<1> QED
  BY <1>4, <1>5

-----------------------------------------------------------------------------
(* Sums over finite sets, in the order in which a fold takes the elements. *)

First(s) == CHOOSE x \in s : TRUE

(* g holds the sums of f over the subsets of S.                            *)
IsTally(g, f, S) ==
  g = [s \in SUBSET S |-> IF s = {} THEN 0 ELSE f[First(s)] + g[s \ {First(s)}]]

LEMMA TallyStep ==
  ASSUME NEW g, NEW f, NEW S, IsTally(g, f, S), NEW s \in SUBSET S
  PROVE  /\ s = {} => g[s] = 0
         /\ s # {} => /\ First(s) \in s
                      /\ g[s] = f[First(s)] + g[s \ {First(s)}]
  BY DEF IsTally, First

LEMMA TalliesAgree ==
  ASSUME NEW f, NEW e, NEW g, NEW h, NEW S, NEW T, IsTally(g, f, S), IsTally(h, e, T),
         NEW s \in SUBSET S, s \subseteq T, IsFiniteSet(s), \A x \in s : f[x] = e[x]
  PROVE  g[s] = h[s]
<1> DEFINE F == {t \in SUBSET s : g[t] # h[t]}
<1>1. SUFFICES ASSUME F # {} PROVE FALSE
  OBVIOUS
<1>2. PICK t \in F : \A u \in F : u \subseteq t => u = t
  <2>1. F \in SUBSET (SUBSET s)
    OBVIOUS
  <2> HIDE DEF F
  <2> QED
    BY <1>1, <2>1, MinimalSubset
<1>3. t \in SUBSET S /\ t \in SUBSET T /\ t \subseteq s /\ g[t] # h[t]
  BY <1>2
<1>4. t # {}
  BY <1>3, TallyStep
<1> DEFINE x == First(t)
           u == t \ {x}
<1>5. x \in t /\ g[t] = f[x] + g[u] /\ h[t] = e[x] + h[u]
  BY <1>3, <1>4, TallyStep
<1>6. u \in SUBSET s /\ u \subseteq t /\ u # t
  BY <1>3, <1>5
<1> HIDE DEF u, x
<1>7. g[u] = h[u]
  BY <1>2, <1>6
<1> QED
  BY <1>3, <1>5, <1>7

LEMMA TallyExists ==
  ASSUME NEW f, NEW S, IsFiniteSet(S)
  PROVE  \E g : IsTally(g, f, S)
<1> DEFINE F == {T \in SUBSET S : ~ \E g : IsTally(g, f, T)}
<1>1. SUFFICES ASSUME F # {} PROVE FALSE
  OBVIOUS
<1>2. PICK T \in F : IsFiniteSet(T) /\ \A U \in F : U \subseteq T => U = T
  <2>1. F \in SUBSET (SUBSET S)
    OBVIOUS
  <2> HIDE DEF F
  <2> QED
    BY <1>1, <2>1, MinimalSubset
<1> DEFINE G(U) == CHOOSE g : IsTally(g, f, U)
           Less(s) == s \ {First(s)}
           h == [s \in SUBSET T |-> IF s = {} THEN 0 ELSE f[First(s)] + G(Less(s))[Less(s)]]
<1>3. \A U \in SUBSET T : U # T => IsTally(G(U), f, U)
  BY <1>2
<1>4. \A s \in SUBSET T : IsFiniteSet(s)
  BY <1>2, FS_Subset
<1>5. \A s \in SUBSET T : s # {} =>
        First(s) \in s /\ Less(s) \in SUBSET T /\ Less(s) # T /\ Less(s) \subseteq s
  BY DEF First
<1>6. ASSUME NEW s \in SUBSET T, s # {}
      PROVE  h[Less(s)] = G(Less(s))[Less(s)]
  <2> DEFINE u == Less(s)
  <2>1. u \in SUBSET T /\ IsTally(G(u), f, u)
    BY <1>3, <1>5, <1>6
  <2>2. CASE u = {}
    <3>1. G(u)[u] = 0
      BY <2>1, <2>2, TallyStep, u \in SUBSET u
    <3>2. h[u] = 0
      BY <2>1, <2>2
    <3> QED
      BY <3>1, <3>2
  <2>3. CASE u # {}
    <3> DEFINE v == Less(u)
    <3>1. h[u] = f[First(u)] + G(v)[v]
      BY <2>1, <2>3
    <3>2. G(u)[u] = f[First(u)] + G(u)[v]
      <4> HIDE DEF u, G, h
      <4>1. G(u)[u] = f[First(u)] + G(u)[u \ {First(u)}]
        BY <2>1, <2>3, TallyStep, u \in SUBSET u
      <4> QED
        BY <4>1
    <3>3. G(u)[v] = G(v)[v]
      <4>1. v \in SUBSET u /\ v \in SUBSET T /\ v # T /\ IsFiniteSet(v)
        BY <1>4, <1>5, <2>1, <2>3
      <4>2. IsTally(G(v), f, v)
        BY <1>3, <4>1
      <4> QED
        BY <2>1, <4>1, <4>2, TalliesAgree
    <3> QED
      BY <3>1, <3>2, <3>3
  <2> QED
    BY <2>2, <2>3
<1>7. IsTally(h, f, T)
  <2>1. \A s \in SUBSET T :
          h[s] = IF s = {} THEN 0 ELSE f[First(s)] + h[s \ {First(s)}]
    <3> TAKE s \in SUBSET T
    <3>1. h[s] = IF s = {} THEN 0 ELSE f[First(s)] + G(Less(s))[Less(s)]
      OBVIOUS
    <3>2. s # {} => h[s \ {First(s)}] = G(Less(s))[Less(s)]
      BY <1>6
    <3> HIDE DEF h, G
    <3> QED
      BY <3>1, <3>2
  <2>2. h = [s \in SUBSET T |-> h[s]]
    OBVIOUS
  <2> HIDE DEF h
  <2> QED
    BY <2>1, <2>2 DEF IsTally
<1> QED
  BY <1>2, <1>7

SumOf(f, S) == (CHOOSE g : IsTally(g, f, S))[S]

LEMMA SumIsTally ==
  ASSUME NEW f, NEW S, IsFiniteSet(S), NEW g, NEW T, IsTally(g, f, T), S \subseteq T
  PROVE  g[S] = SumOf(f, S)
<1>1. IsTally(CHOOSE k : IsTally(k, f, S), f, S)
  BY TallyExists
<1> QED
  BY <1>1, TalliesAgree, S \in SUBSET T, S \subseteq S DEF SumOf

(* Any element can be taken last.                                          *)
LEMMA SumOfType ==
  ASSUME NEW S, IsFiniteSet(S), NEW f, \A x \in S : f[x] \in Nat
  PROVE  SumOf(f, S) \in Nat
<1> DEFINE F == {T \in SUBSET S : SumOf(f, T) \notin Nat}
<1>1. SUFFICES ASSUME F # {} PROVE FALSE
  BY S \in SUBSET S
<1>2. PICK T \in F : IsFiniteSet(T) /\ \A U \in F : U \subseteq T => U = T
  <2>1. F \in SUBSET (SUBSET S)
    OBVIOUS
  <2> HIDE DEF F
  <2> QED
    BY <1>1, <2>1, MinimalSubset
<1>3. PICK g : IsTally(g, f, T)
  BY <1>2, TallyExists
<1>4. T \in SUBSET S /\ SumOf(f, T) \notin Nat
  BY <1>2
<1>5. SumOf(f, T) = g[T]
  BY <1>2, <1>3, SumIsTally
<1>6. T # {} /\ First(T) \in T /\ g[T] = f[First(T)] + g[T \ {First(T)}]
  <2>1. /\ T = {} => g[T] = 0
        /\ T # {} => First(T) \in T /\ g[T] = f[First(T)] + g[T \ {First(T)}]
    BY <1>3, TallyStep, T \in SUBSET T
  <2>2. T # {}
    BY <1>4, <1>5, <2>1, 0 \in Nat
  <2> QED
    BY <2>1, <2>2
<1> DEFINE U == T \ {First(T)}
<1>7. U \subseteq T /\ U # T /\ U \in SUBSET S /\ IsFiniteSet(U)
  BY <1>2, <1>4, <1>6, FS_Subset
<1>8. g[U] = SumOf(f, U)
  BY <1>3, <1>7, SumIsTally
<1>9. SumOf(f, U) \in Nat
  BY <1>2, <1>7
<1>10. f[First(T)] \in Nat /\ g[T] = f[First(T)] + g[U]
  BY <1>4, <1>6
<1> HIDE DEF U, F
<1> QED
  BY <1>4, <1>5, <1>8, <1>9, <1>10

(* Any element can be taken first.                                         *)
LEMMA SumTakeOut ==
  ASSUME NEW S, IsFiniteSet(S), NEW f, \A x \in S : f[x] \in Nat, NEW y \in S
  PROVE  SumOf(f, S) = f[y] + SumOf(f, S \ {y})
<1> DEFINE Bad(T) == \E x \in T : SumOf(f, T) # f[x] + SumOf(f, T \ {x})
           F == {T \in SUBSET S : Bad(T)}
<1>1. SUFFICES ASSUME F # {} PROVE FALSE
  BY S \in SUBSET S
<1>2. PICK T \in F : IsFiniteSet(T) /\ \A U \in F : U \subseteq T => U = T
  <2>1. F \in SUBSET (SUBSET S)
    OBVIOUS
  <2> HIDE DEF F
  <2> QED
    BY <1>1, <2>1, MinimalSubset
<1>3. T \in SUBSET S /\ Bad(T)
  BY <1>2
<1>4. \A U \in SUBSET T : U # T => ~ Bad(U)
  BY <1>2, <1>3
<1> HIDE DEF F
<1>5. PICK x \in T : SumOf(f, T) # f[x] + SumOf(f, T \ {x})
  BY <1>3
<1>6. PICK g : IsTally(g, f, T)
  BY <1>2, TallyExists
<1> DEFINE z == First(T)
<1>7. z \in T /\ g[T] = f[z] + g[T \ {z}]
  BY <1>5, <1>6, TallyStep, T \in SUBSET T
<1> HIDE DEF z, Bad
<1>8. \A U \in SUBSET T : IsFiniteSet(U) /\ g[U] = SumOf(f, U) /\ SumOf(f, U) \in Nat
  BY <1>2, <1>3, <1>6, FS_Subset, SumIsTally, SumOfType
<1>9. SumOf(f, T) = f[z] + SumOf(f, T \ {z})
  BY <1>7, <1>8, T \in SUBSET T, T \ {z} \in SUBSET T
<1>10. x # z
  BY <1>5, <1>9
<1>11. SumOf(f, T \ {z}) = f[x] + SumOf(f, (T \ {z}) \ {x})
  BY <1>4, <1>5, <1>7, <1>10 DEF Bad
<1>12. SumOf(f, T \ {x}) = f[z] + SumOf(f, (T \ {x}) \ {z})
  BY <1>4, <1>5, <1>7, <1>10 DEF Bad
<1>13. (T \ {x}) \ {z} = (T \ {z}) \ {x} /\ (T \ {x}) \ {z} \in SUBSET T
  OBVIOUS
<1>14. f[x] \in Nat /\ f[z] \in Nat /\ SumOf(f, (T \ {x}) \ {z}) \in Nat
  BY <1>3, <1>5, <1>7, <1>8, <1>13
<1> DEFINE rest == SumOf(f, (T \ {x}) \ {z})
<1>15. /\ SumOf(f, T) = f[z] + (f[x] + rest)
       /\ f[x] + SumOf(f, T \ {x}) = f[x] + (f[z] + rest)
       /\ rest \in Nat
  BY <1>9, <1>11, <1>12, <1>13, <1>14
<1> HIDE DEF rest
<1> QED
  BY <1>5, <1>14, <1>15

LEMMA SumOfEmpty == \A f : SumOf(f, {}) = 0
<1> TAKE f
<1>1. IsFiniteSet({})
  BY FS_EmptySet
<1>2. PICK g : IsTally(g, f, {})
  BY <1>1, TallyExists
<1>3. g[{}] = 0
  BY <1>2, TallyStep, {} \in SUBSET {}
<1> QED
  BY <1>1, <1>2, <1>3, SumIsTally

(* A sum depends on the elements only.                                     *)
LEMMA SumOfSame ==
  ASSUME NEW S, IsFiniteSet(S), NEW f, NEW e, \A x \in S : f[x] = e[x]
  PROVE  SumOf(f, S) = SumOf(e, S)
<1>1. PICK g : IsTally(g, f, S)
  BY TallyExists
<1>2. PICK h : IsTally(h, e, S)
  BY TallyExists
<1>3. g[S] = h[S]
  BY <1>1, <1>2, TalliesAgree, S \in SUBSET S, S \subseteq S
<1> QED
  BY <1>1, <1>2, <1>3, SumIsTally, S \subseteq S

Amounts(cs) == [c \in cs |-> call[c].amount]

TotalsAreSums == \A cs : IsFiniteSet(cs) => Total(cs) = SumOf(Amounts(cs), cs)

LEMMA TotalIsSum == TotalsAreSums
<1> SUFFICES ASSUME NEW cs, IsFiniteSet(cs)
             PROVE  Total(cs) = SumOf(Amounts(cs), cs)
  BY DEF TotalsAreSums
<1> DEFINE Iter(g) == g = [s \in SUBSET cs |->
              IF s = {} THEN 0
              ELSE call[CHOOSE x \in s : TRUE].amount + g[s \ {CHOOSE x \in s : TRUE}]]
<1>1. Total(cs) = (CHOOSE g : Iter(g))[cs]
  BY DEF Total, MapThenSumSet, MapThenFoldSet
<1>2. \A g : Iter(g) <=> IsTally(g, Amounts(cs), cs)
  <2>1. \A s \in SUBSET cs :
          s # {} => Amounts(cs)[First(s)] = call[CHOOSE x \in s : TRUE].amount
    BY DEF Amounts, First
  <2> QED
    BY <2>1 DEF IsTally, First
<1> HIDE DEF Iter
<1>3. Iter(CHOOSE g : Iter(g))
  BY <1>2, TallyExists
<1>4. IsTally(CHOOSE g : Iter(g), Amounts(cs), cs)
  BY <1>2, <1>3
<1> QED
  BY <1>1, <1>4, SumIsTally, cs \subseteq cs

LEMMA TotalKept ==
  ASSUME NEW cs, IsFiniteSet(cs), \A c \in cs : call'[c].amount = call[c].amount
  PROVE  Total(cs)' = Total(cs)
<1>1. TotalsAreSums'
  BY TotalIsSum, PTL
<1>2. Total(cs)' = SumOf(Amounts(cs)', cs) /\ Total(cs) = SumOf(Amounts(cs), cs)
  BY <1>1, TotalIsSum DEF TotalsAreSums
<1>3. Amounts(cs)' = Amounts(cs)
  BY DEF Amounts
<1> QED
  BY <1>2, <1>3

LEMMA TotalWithOneMore ==
  ASSUME NEW cs, IsFiniteSet(cs), NEW c, c \notin cs,
         \A d \in cs \union {c} : call[d].amount \in Nat
  PROVE  Total(cs \union {c}) = Total(cs) + call[c].amount
<1> DEFINE more == cs \union {c}
<1>1. IsFiniteSet(more) /\ c \in more /\ more \ {c} = cs
  BY FS_AddElement
<1>2. /\ \A d \in more : Amounts(more)[d] = call[d].amount
      /\ \A d \in cs : Amounts(cs)[d] = call[d].amount
      /\ cs \subseteq more
  BY DEF Amounts
<1>3. Total(more) = SumOf(Amounts(more), more) /\ Total(cs) = SumOf(Amounts(cs), cs)
  BY <1>1, TotalIsSum DEF TotalsAreSums
<1> HIDE DEF more
<1>4. SumOf(Amounts(more), cs) = SumOf(Amounts(cs), cs)
  BY <1>2, SumOfSame
<1>5. SumOf(Amounts(more), more) = Amounts(more)[c] + SumOf(Amounts(more), cs)
  <2>1. \A d \in more : Amounts(more)[d] \in Nat
    BY <1>2 DEF more
  <2> QED
    BY <1>1, <2>1, SumTakeOut
<1>6. SumOf(Amounts(cs), cs) \in Nat
  <2>1. \A d \in cs : Amounts(cs)[d] \in Nat
    BY <1>2
  <2> QED
    BY <2>1, SumOfType
<1>7. Amounts(more)[c] = call[c].amount /\ call[c].amount \in Nat
  BY <1>1, <1>2
<1>8. Total(more) = Total(cs) + call[c].amount
  BY <1>3, <1>4, <1>5, <1>6, <1>7
<1> QED
  BY <1>8 DEF more

-----------------------------------------------------------------------------
(* What an agent was told and can count adds up to its total.              *)

ToldIsJudged == \A c \in Calls : pc[c] = "told" => server[c] \in {"approved", "blocked"}

LedgerInv ==
  /\ ToldIsJudged
  /\ \A a \in Agents : IsFiniteSet(Told(a)) /\ spent[a] = Total(Counted(a))

LEMMA ToldHaveAmounts ==
  ASSUME TypeOK, NEW a, NEW c \in Told(a)
  PROVE  c \in Calls /\ call[c] \in Call /\ call[c].amount \in Nat
  BY DEF TypeOK, Told, CallsOf, Call

LEMMA CountedIsFinite ==
  ASSUME NEW a, IsFiniteSet(Told(a))
  PROVE  IsFiniteSet(Counted(a)) /\ IsFiniteSet(Uncounted(a))
  BY FS_Subset, Counted(a) \subseteq Told(a), Uncounted(a) \subseteq Told(a)
     DEF Counted, Uncounted

(* A step that tells an agent of no approval leaves its books as they are. *)
LEMMA LedgerUntouched ==
  ASSUME LedgerInv, NEW a \in Agents, spent'[a] = spent[a], Told(a)' = Told(a),
         \A c \in Calls : pc[c] # "idle" => call'[c] = call[c]
  PROVE  IsFiniteSet(Told(a)') /\ spent'[a] = Total(Counted(a))'
<1>1. \A c \in Told(a) : call'[c] = call[c]
  BY DEF Told, CallsOf
<1>2. Counted(a)' = Counted(a)
  BY <1>1 DEF Counted
<1>3. IsFiniteSet(Counted(a)) /\ \A c \in Counted(a) : call'[c].amount = call[c].amount
  BY <1>1, CountedIsFinite DEF LedgerInv, Counted
<1>4. Total(Counted(a))' = Total(Counted(a))
  BY <1>2, <1>3, TotalKept
<1> QED
  BY <1>4 DEF LedgerInv

(* The approval that an agent is told of is counted, or not, on top.       *)
LEMMA LedgerGrows ==
  ASSUME TypeOK, LedgerInv, NEW c \in Calls, Answer(c), server[c] = "approved",
         NEW a \in Agents, a = call[c].agent
  PROVE  IsFiniteSet(Told(a)') /\ spent'[a] = Total(Counted(a))'
<1>1. /\ pc[c] = "submitted" /\ pc'[c] = "told" /\ call[c] \in Call
      /\ \A d \in Calls : d # c => pc'[d] = pc[d]
      /\ call' = call /\ server' = server
  BY DEF Answer, TypeOK
<1>2. Told(a)' = Told(a) \union {c} /\ c \notin Told(a)
  BY <1>1 DEF Told, CallsOf
<1>3. IsFiniteSet(Told(a)) /\ IsFiniteSet(Told(a)') /\ spent[a] = Total(Counted(a))
  BY <1>2, FS_AddElement DEF LedgerInv
<1>4. ASSUME NEW cs, IsFiniteSet(cs)
      PROVE  Total(cs)' = Total(cs)
  BY <1>1, <1>4, TotalKept
<1>5. CASE call[c].plain
  <2>1. Counted(a)' = Counted(a) \union {c} /\ c \notin Counted(a)
    BY <1>1, <1>2, <1>5 DEF Counted
  <2>2. spent'[a] = spent[a] + call[c].amount
    BY <1>1, <1>5 DEF Answer, SpentAfter, TypeOK
  <2>3. IsFiniteSet(Counted(a)) /\ IsFiniteSet(Counted(a) \union {c})
    BY <1>3, CountedIsFinite, FS_AddElement
  <2>4. \A d \in Counted(a) \union {c} : call[d].amount \in Nat
    BY <1>1, ToldHaveAmounts DEF Counted, Call
  <2>5. Total(Counted(a) \union {c}) = Total(Counted(a)) + call[c].amount
    BY <2>1, <2>3, <2>4, TotalWithOneMore
  <2>6. Total(Counted(a))' = Total(Counted(a) \union {c})
    BY <1>4, <2>1, <2>3
  <2> QED
    BY <1>3, <2>2, <2>5, <2>6
<1>6. CASE ~ call[c].plain
  <2>1. Counted(a)' = Counted(a) /\ IsFiniteSet(Counted(a))
    BY <1>1, <1>2, <1>3, <1>6, CountedIsFinite DEF Counted
  <2>2. spent'[a] = spent[a]
    BY <1>1, <1>6 DEF Answer, SpentAfter, TypeOK
  <2>3. Total(Counted(a))' = Total(Counted(a))
    BY <1>4, <2>1
  <2> QED
    BY <1>3, <2>2, <2>3
<1> QED
  BY <1>5, <1>6

LEMMA LedgerKept == Spec => []LedgerInv
<1>1. Init => LedgerInv
  <2> SUFFICES ASSUME Init PROVE LedgerInv
    OBVIOUS
  <2>1. ToldIsJudged /\ \A a \in Agents : Told(a) = {} /\ Counted(a) = {} /\ spent[a] = 0
    BY DEF Init, ToldIsJudged, Told, Counted, CallsOf
  <2>2. IsFiniteSet({}) /\ Total({}) = 0
    <3>1. IsFiniteSet({}) /\ SumOf(Amounts({}), {}) = 0
      BY FS_EmptySet, SumOfEmpty
    <3> QED
      BY <3>1, TotalIsSum DEF TotalsAreSums
  <2> QED
    BY <2>1, <2>2 DEF LedgerInv
<1>2. TypeOK /\ LedgerInv /\ [Next]_vars => LedgerInv'
  <2> SUFFICES ASSUME TypeOK, LedgerInv, [Next]_vars PROVE LedgerInv'
    OBVIOUS
  <2>1. ASSUME NEW c \in Calls, NEW a \in Agents, NEW args \in ToolArgs, Start(c, a, args)
        PROVE  LedgerInv'
    <3>1. /\ pc[c] = "idle" /\ pc'[c] = "waiting"
          /\ \A d \in Calls : d # c => pc'[d] = pc[d] /\ call'[d] = call[d]
          /\ spent' = spent /\ server' = server
      BY <2>1 DEF Start, TypeOK
    <3>2. \A b \in Agents : Told(b)' = Told(b)
      BY <3>1 DEF Told, CallsOf
    <3>3. ToldIsJudged'
      BY <3>1 DEF LedgerInv, ToldIsJudged
    <3> QED
      BY <3>1, <3>2, <3>3, LedgerUntouched DEF LedgerInv
  <2>2. ASSUME NEW c \in Calls,
               Submit(c) \/ RejectAction(c) \/ Judge(c) \/ LoseAnswer(c)
        PROVE  LedgerInv'
    <3>1. /\ \/ pc[c] # "told" /\ pc'[c] \notin {"told", "idle"}
             \/ server[c] = "asked" /\ pc'[c] = pc[c]
          /\ \A d \in Calls : d # c => pc'[d] = pc[d] /\ server'[d] = server[d]
          /\ spent' = spent /\ call' = call
      BY <2>2 DEF Submit, RejectAction, Judge, LoseAnswer, TypeOK
    <3>2. pc[c] # "told" /\ pc'[c] # "told"
      BY <3>1 DEF LedgerInv, ToldIsJudged
    <3>3. \A b \in Agents : Told(b)' = Told(b)
      BY <3>1, <3>2 DEF Told, CallsOf
    <3>4. ToldIsJudged'
      BY <3>1, <3>2 DEF LedgerInv, ToldIsJudged
    <3> QED
      BY <3>1, <3>3, <3>4, LedgerUntouched DEF LedgerInv
  <2>3. ASSUME NEW c \in Calls, Answer(c)
        PROVE  LedgerInv'
    <3>1. /\ pc[c] = "submitted" /\ pc'[c] = "told"
          /\ \A d \in Calls : d # c => pc'[d] = pc[d]
          /\ call' = call /\ server' = server
          /\ server[c] \in {"approved", "blocked"}
          /\ call[c] \in Call /\ call[c].agent \in Agents
      BY <2>3 DEF Answer, TypeOK, Call
    <3>2. ToldIsJudged'
      BY <3>1 DEF LedgerInv, ToldIsJudged
    <3>3. ASSUME NEW b \in Agents, b # call[c].agent \/ server[c] = "blocked"
          PROVE  IsFiniteSet(Told(b)') /\ spent'[b] = Total(Counted(b))'
      <4>1. Told(b)' = Told(b)
        BY <3>1, <3>3 DEF Told, CallsOf
      <4>2. spent'[b] = spent[b]
        BY <2>3, <3>1, <3>3 DEF Answer, SpentAfter, TypeOK
      <4> QED
        BY <3>1, <4>1, <4>2, LedgerUntouched
    <3>4. ASSUME NEW b \in Agents
          PROVE  IsFiniteSet(Told(b)') /\ spent'[b] = Total(Counted(b))'
      BY <2>3, <3>1, <3>3, LedgerGrows
    <3> QED
      BY <3>2, <3>4 DEF LedgerInv
  <2>4. CASE UNCHANGED vars
    <3>1. \A b \in Agents : Told(b)' = Told(b)
      BY <2>4 DEF vars, Told, CallsOf
    <3>2. ToldIsJudged'
      BY <2>4 DEF vars, LedgerInv, ToldIsJudged
    <3> QED
      BY <2>4, <3>1, <3>2, LedgerUntouched DEF vars, LedgerInv
  <2> QED
    BY <2>1, <2>2, <2>3, <2>4 DEF Next
<1> QED
  BY <1>1, <1>2, TypeCorrect, PTL DEF Spec

(* An agent's total is what the approvals that it could count add up to,   *)
(* each once.                                                              *)
THEOREM TotalIsCounted == Spec => []TotalIsWhatWasCounted
<1>1. LedgerInv => TotalIsWhatWasCounted
  BY DEF LedgerInv, TotalIsWhatWasCounted
<1> QED
  BY <1>1, LedgerKept, PTL

-----------------------------------------------------------------------------
(* The ledger: what a call is told appears as one step that looks at the   *)
(* limits and books.                                                       *)

Booked == {c \in Calls : IsApproval(c) /\ call[c].plain}
Missed == {c \in Calls : IsApproval(c) /\ ~ call[c].plain}

(* What a call asks for is what the tool was called with.                  *)
AsksAsCalled ==
  \A c \in Calls : pc[c] # "idle" => \E args \in ToolArgs : call[c].amount = args.amount

LEMMA AsksAsCalledStep ==
  ASSUME TypeOK, AsksAsCalled, [Next]_vars
  PROVE  AsksAsCalled'
<1>1. ASSUME NEW c \in Calls, NEW a \in Agents, NEW args \in ToolArgs, Start(c, a, args)
      PROVE  AsksAsCalled'
  <2>1. /\ call'[c].amount = args.amount
        /\ \A d \in Calls : d # c => pc'[d] = pc[d] /\ call'[d] = call[d]
    BY <1>1 DEF Start, TypeOK
  <2> QED
    BY <2>1 DEF AsksAsCalled
<1>2. ASSUME NEW c \in Calls,
             Submit(c) \/ RejectAction(c) \/ Judge(c) \/ Answer(c) \/ LoseAnswer(c)
      PROVE  AsksAsCalled'
  <2>1. /\ call' = call
        /\ \A d \in Calls : pc'[d] = pc[d] \/ pc[d] # "idle"
    BY <1>2 DEF Submit, RejectAction, Judge, Answer, LoseAnswer, TypeOK
  <2> QED
    BY <2>1 DEF AsksAsCalled
<1>3. CASE UNCHANGED vars
  BY <1>3 DEF vars, AsksAsCalled
<1> QED
  BY <1>1, <1>2, <1>3 DEF Next

LEMMA AsksAlways == Spec => []AsksAsCalled
<1>1. Init => AsksAsCalled
  BY DEF Init, AsksAsCalled
<1> QED
  BY <1>1, AsksAsCalledStep, TypeCorrect, PTL DEF Spec

(* Looked at when it was shown, an approved total is still the total when  *)
(* the answer comes: then it is booked, or missed.                         *)
LEMMA AnswerBooks ==
  ASSUME IInv, AsksAsCalled, NEW c \in Calls, Answer(c), server[c] = "approved"
  PROVE  Ledger!Next
<1>1. call[c] \in Call /\ pc[c] = "submitted" /\ shown[c] \in Nat
  BY DEF Answer, IInv, TypeOK
<1>2. PICK a \in Agents : a = call[c].agent
  BY <1>1 DEF Call
<1>3. PICK amount \in {args.amount : args \in ToolArgs} : amount = call[c].amount
  BY <1>1 DEF AsksAsCalled
<1>4. /\ pc' = [pc EXCEPT ![c] = "told"] /\ server' = server /\ call' = call
      /\ spent' = [spent EXCEPT ![a] = @ + (IF call[c].plain THEN amount ELSE 0)]
      /\ amount \in Nat /\ spent[a] \in Nat
  BY <1>1, <1>2, <1>3 DEF Answer, SpentAfter, IInv, TypeOK, Call
<1>5. /\ c \notin Booked \union Missed
      /\ IF call[c].plain THEN Booked' = Booked \union {c} /\ Missed' = Missed
                         ELSE Missed' = Missed \union {c} /\ Booked' = Booked
  BY <1>1, <1>4 DEF Booked, Missed, IsApproval, IInv, TypeOK
<1>6. ASSUME NEW i \in DOMAIN Rules, Rules[i].id = "MaxDailySpend"
      PROVE  2 * (spent[a] + amount) <= 2 * Rules[i].limit + Cent
  <2>1. shown[c] + amount <= Rules[i].limit
    BY <1>3, <1>6 DEF IInv, ApprovedWithinLimit
  <2>2. 2 * (spent[a] - shown[c]) <= Cent
    BY <1>1, <1>2 DEF IInv, ShownIsCurrent
  <2>3. Rules[i].limit \in Int /\ Cent \in Nat
    BY <1>6, DailyLimitIsNumber, CentAssumption
  <2> QED
    BY <1>1, <1>4, <2>1, <2>2, <2>3
<1>7. Ledger!Allowed(c, a, amount)
  BY <1>5, <1>6 DEF Ledger!Allowed, Booked, Missed
<1>8. call[c].plain => Ledger!Book(c, a, amount)
  BY <1>4, <1>5, <1>7 DEF Ledger!Book, Booked, Missed
<1>9. ~ call[c].plain => Ledger!Miss(c, a, amount)
  <2> SUFFICES ASSUME ~ call[c].plain PROVE Ledger!Miss(c, a, amount)
    OBVIOUS
  <2>1. spent' = [spent EXCEPT ![a] = spent[a]]
    <3>1. spent[a] + (IF call[c].plain THEN amount ELSE 0) = spent[a]
      BY <1>4
    <3> QED
      BY <1>4, <3>1
  <2>2. spent' = spent
    BY <1>2, <2>1 DEF IInv, TypeOK
  <2> QED
    BY <1>5, <1>7, <2>2 DEF Ledger!Miss, Booked, Missed
<1> QED
  BY <1>2, <1>3, <1>8, <1>9 DEF Ledger!Next

(* A step that books nothing.                                              *)
LEMMA OtherSteps ==
  ASSUME TypeOK, ToldIsJudged, NEW c \in Calls,
         \/ \E a \in Agents, args \in ToolArgs : Start(c, a, args)
         \/ Submit(c) \/ RejectAction(c) \/ Judge(c) \/ LoseAnswer(c)
         \/ Answer(c) /\ server[c] # "approved"
  PROVE  UNCHANGED Ledger!vars
<1>1. CASE Answer(c) /\ server[c] # "approved"
  <2>1. spent' = spent
    BY <1>1 DEF Answer, SpentAfter, TypeOK
  <2>2. Booked' = Booked /\ Missed' = Missed
    BY <1>1 DEF Answer, Booked, Missed, IsApproval, TypeOK
  <2> QED
    BY <2>1, <2>2 DEF Ledger!vars, Booked, Missed
<1>2. CASE \/ \E a \in Agents, args \in ToolArgs : Start(c, a, args)
           \/ Submit(c) \/ RejectAction(c) \/ Judge(c) \/ LoseAnswer(c)
  <2>1. /\ spent' = spent
        /\ \A d \in Calls :
             d # c => pc'[d] = pc[d] /\ server'[d] = server[d] /\ call'[d] = call[d]
        /\ \/ pc[c] # "told" /\ pc'[c] # "told"
           \/ server[c] = "asked" /\ pc'[c] = pc[c]
    BY <1>2 DEF Start, Submit, RejectAction, Judge, LoseAnswer, TypeOK
  <2>2. Booked' = Booked /\ Missed' = Missed
    BY <2>1 DEF ToldIsJudged, Booked, Missed, IsApproval
  <2> QED
    BY <2>1, <2>2 DEF Ledger!vars, Booked, Missed
<1> QED
  BY <1>1, <1>2

(* The tools and the server implement the ledger, whatever answers are     *)
(* lost.                                                                   *)
THEOREM SpendingImplementsLedger == Spec => ImplementsLedger
<1>1. Init => Ledger!Init
  BY DEF Init, Ledger!Init, IsApproval
<1>2. ASSUME IInv, LedgerInv, AsksAsCalled, [Next]_vars
      PROVE  [Ledger!Next]_(Ledger!vars)
  <2>1. CASE UNCHANGED vars
    BY <2>1 DEF vars, Ledger!vars, IsApproval
  <2> QED
    BY <1>2, <2>1, AnswerBooks, OtherSteps DEF Next, IInv, LedgerInv
<1> QED
  BY <1>1, <1>2, BudgetInvariance, LedgerKept, AsksAlways, PTL
     DEF Spec, ImplementsLedger, Ledger!Spec

-----------------------------------------------------------------------------
(* Sums of what agents are told, and how far over a limit they can get.    *)

LEMMA TotalOfBoth ==
  ASSUME NEW X, NEW Y, IsFiniteSet(X), IsFiniteSet(Y), X \cap Y = {},
         \A c \in X \union Y : call[c].amount \in Nat
  PROVE  Total(X \union Y) = Total(X) + Total(Y)
<1> DEFINE Bad(Z) == Total(X \union Z) # Total(X) + Total(Z)
           F == {Z \in SUBSET Y : Bad(Z)}
<1>1. SUFFICES ASSUME F # {} PROVE FALSE
  BY Y \in SUBSET Y
<1>2. PICK Z \in F : IsFiniteSet(Z) /\ \A U \in F : U \subseteq Z => U = Z
  <2>1. F \in SUBSET (SUBSET Y)
    OBVIOUS
  <2> HIDE DEF F
  <2> QED
    BY <1>1, <2>1, MinimalSubset
<1>3. Z \in SUBSET Y /\ Bad(Z)
  BY <1>2
<1>4. \A U \in SUBSET Z : U # Z => ~ Bad(U)
  BY <1>2, <1>3
<1> HIDE DEF F
<1>5. Total(X) \in Nat /\ \A U \in SUBSET Z : IsFiniteSet(U) /\ Total(U) \in Nat
  <2>1. ASSUME NEW cs, IsFiniteSet(cs), \A c \in cs : call[c].amount \in Nat
        PROVE  Total(cs) \in Nat
    <3>1. \A c \in cs : Amounts(cs)[c] \in Nat
      BY <2>1 DEF Amounts
    <3> QED
      BY <2>1, <3>1, SumOfType, TotalIsSum DEF TotalsAreSums
  <2>2. \A U \in SUBSET Z : IsFiniteSet(U) /\ \A c \in U : call[c].amount \in Nat
    BY <1>2, <1>3, FS_Subset
  <2> QED
    BY <2>1, <2>2
<1>6. Z # {}
  <2>1. Total({}) = 0
    BY FS_EmptySet, SumOfEmpty, TotalIsSum DEF TotalsAreSums
  <2>2. SUFFICES ASSUME Z = {} PROVE Total(X \union Z) = Total(X) + Total(Z)
    BY <1>3
  <2>3. X \union Z = X
    BY <2>2
  <2>4. Total(X \union Z) = Total(X)
    BY <2>3, Zenon
  <2>5. Total(Z) = 0 /\ Total(X) \in Nat
    BY <1>5, <2>1, <2>2
  <2> QED
    BY <2>4, <2>5
<1>7. PICK z \in Z : TRUE
  BY <1>6
<1> DEFINE U == Z \ {z}
<1>8. /\ U \in SUBSET Z /\ U # Z /\ z \notin U /\ z \notin X \union U
      /\ U \union {z} = Z /\ (X \union U) \union {z} = X \union Z
      /\ \A c \in X \union Z : call[c].amount \in Nat
  BY <1>3, <1>7
<1> HIDE DEF U
<1>9. Total(X \union U) = Total(X) + Total(U)
  BY <1>4, <1>8
<1> HIDE DEF Bad
<1>10. IsFiniteSet(U) /\ IsFiniteSet(X \union U)
  BY <1>5, <1>8, FS_Union
<1>11. Total(X \union Z) = Total(X \union U) + call[z].amount
  BY <1>8, <1>10, TotalWithOneMore
<1>12. Total(Z) = Total(U) + call[z].amount
  BY <1>8, <1>10, TotalWithOneMore
<1>13. Total(X) \in Nat /\ Total(U) \in Nat /\ call[z].amount \in Nat
  BY <1>5, <1>8
<1>14. Total(X \union Z) = Total(X) + Total(Z)
  BY <1>9, <1>11, <1>12, <1>13
<1> QED
  BY <1>3, <1>14 DEF Bad

(* A sum is at most so many times what each summand is at most.            *)
LEMMA CappedTotal ==
  ASSUME NEW cs, IsFiniteSet(cs), NEW cap \in Nat,
         \A c \in cs : call[c].amount \in Nat /\ call[c].amount <= cap
  PROVE  Total(cs) \in Nat /\ Total(cs) <= Cardinality(cs) * cap
<1> DEFINE Good(Z) == Total(Z) \in Nat /\ Total(Z) <= Cardinality(Z) * cap
           F == {Z \in SUBSET cs : ~ Good(Z)}
<1>1. SUFFICES ASSUME F # {} PROVE FALSE
  BY cs \in SUBSET cs
<1>2. PICK Z \in F : IsFiniteSet(Z) /\ \A U \in F : U \subseteq Z => U = Z
  <2>1. F \in SUBSET (SUBSET cs)
    OBVIOUS
  <2> HIDE DEF F
  <2> QED
    BY <1>1, <2>1, MinimalSubset
<1>3. Z \in SUBSET cs /\ ~ Good(Z)
  BY <1>2
<1>4. \A U \in SUBSET Z : U # Z => Good(U)
  BY <1>2, <1>3
<1> HIDE DEF F
<1>5. Z # {}
  <2>1. Total({}) = 0 /\ Cardinality({}) = 0 /\ 0 * cap = 0
    BY FS_EmptySet, SumOfEmpty, TotalIsSum DEF TotalsAreSums
  <2>2. Good({})
    BY <2>1
  <2> QED
    BY <1>3, <2>2
<1>6. PICK z \in Z : TRUE
  BY <1>5
<1> DEFINE U == Z \ {z}
<1>7. /\ IsFiniteSet(U) /\ Cardinality(Z) = Cardinality(U) + 1 /\ Cardinality(U) \in Nat
      /\ Good(U) /\ U \union {z} = Z
  <2>1. IsFiniteSet(U) /\ Cardinality(U) = Cardinality(Z) - 1
    BY <1>2, <1>6, FS_RemoveElement
  <2>2. Cardinality(Z) \in Nat /\ Cardinality(U) \in Nat
    BY <1>2, <2>1, FS_CardinalityType
  <2>3. Good(U)
    BY <1>4, <1>6
  <2> QED
    BY <1>6, <2>1, <2>2, <2>3
<1>8. z \notin U /\ \A c \in U \union {z} : call[c].amount \in Nat
  BY <1>3, <1>6
<1> HIDE DEF U
<1>9. Total(Z) = Total(U) + call[z].amount
  BY <1>7, <1>8, TotalWithOneMore
<1>10. /\ Total(U) \in Nat /\ Total(U) <= Cardinality(U) * cap
       /\ call[z].amount \in Nat /\ call[z].amount <= cap
  BY <1>3, <1>6, <1>7
<1>11. Cardinality(Z) * cap = Cardinality(U) * cap + cap /\ Cardinality(U) * cap \in Nat
  BY <1>7
<1> HIDE DEF Good
<1>12. Total(Z) \in Nat /\ Total(Z) <= Cardinality(Z) * cap
  BY <1>9, <1>10, <1>11
<1> QED
  BY <1>3, <1>12 DEF Good

(* An agent was told of its total and, at most once each, of a limit more  *)
(* for the approvals that it could not count.                              *)
LEMMA ToldWithinLimits ==
  ASSUME IInv, LedgerInv, NEW a \in Agents, Told(a) # {},
         NEW i \in DOMAIN Rules, Rules[i].id = "MaxDailySpend"
  PROVE  /\ Rules[i].limit \in Nat
         /\ Total(Told(a)) \in Nat /\ Total(Counted(a)) \in Nat
         /\ Cardinality(Uncounted(a)) \in Nat
         /\ 2 * Total(Counted(a)) <= 2 * Rules[i].limit + Cent
         /\ 2 * Total(Told(a))
              <= (1 + Cardinality(Uncounted(a))) * (2 * Rules[i].limit) + Cent
<1> DEFINE limit == Rules[i].limit
           u     == Cardinality(Uncounted(a))
<1>1. \A c \in Told(a) : /\ call[c].amount \in Nat /\ shown[c] \in Nat
                         /\ shown[c] + call[c].amount <= limit
  BY ToldHaveAmounts DEF IInv, TypeOK, ApprovedWithinLimit, Told, CallsOf
<1>2. limit \in Nat
  <2>1. limit \in Int
    BY DailyLimitIsNumber
  <2>2. PICK c \in Told(a) : TRUE
    OBVIOUS
  <2> QED
    BY <1>1, <2>1, <2>2
<1>3. \A c \in Told(a) : call[c].amount \in Nat /\ call[c].amount <= limit
  BY <1>1, <1>2
<1> HIDE DEF limit
<1>4. /\ IsFiniteSet(Counted(a)) /\ IsFiniteSet(Uncounted(a))
      /\ spent[a] = Total(Counted(a)) /\ spent[a] \in Nat
  BY CountedIsFinite DEF LedgerInv, IInv, TypeOK
<1>5. u \in Nat /\ Total(Uncounted(a)) \in Nat /\ Total(Uncounted(a)) <= u * limit
  <2>1. \A c \in Uncounted(a) : call[c].amount \in Nat /\ call[c].amount <= limit
    BY <1>3 DEF Uncounted
  <2> QED
    BY <1>2, <1>4, <2>1, CappedTotal, FS_CardinalityType
<1>6. Total(Told(a)) = Total(Counted(a)) + Total(Uncounted(a))
  <2>1. /\ Counted(a) \cap Uncounted(a) = {} /\ Counted(a) \union Uncounted(a) = Told(a)
        /\ \A c \in Counted(a) \union Uncounted(a) : call[c].amount \in Nat
    BY <1>3 DEF Counted, Uncounted
  <2>2. Total(Counted(a) \union Uncounted(a)) = Total(Counted(a)) + Total(Uncounted(a))
    BY <1>4, <2>1, TotalOfBoth
  <2> QED
    BY <2>1, <2>2
<1>7. 2 * spent[a] <= 2 * limit + Cent
  <2>1. spent[a] > 0 => 2 * spent[a] <= 2 * limit + Cent
    BY DEF IInv, TotalWithinLimit, limit
  <2> QED
    BY <1>2, <1>4, <2>1, CentAssumption
<1> HIDE DEF u
<1>8. (1 + u) * (2 * limit) = 2 * limit + 2 * (u * limit) /\ u * limit \in Nat
  BY <1>2, <1>5
<1>9. 2 * Total(Told(a)) <= (1 + u) * (2 * limit) + Cent
  BY <1>2, <1>4, <1>5, <1>6, <1>7, <1>8, CentAssumption
<1> QED
  BY <1>2, <1>4, <1>5, <1>6, <1>7, <1>9 DEF limit, u

(* What an agent is told it may spend keeps every daily limit to within    *)
(* half a cent, and one limit more for every approval it could not count.  *)
THEOREM BudgetIsKept == Spec => []BudgetHolds
<1>1. IInv /\ LedgerInv => BudgetHolds
  BY ToldWithinLimits DEF BudgetHolds, Counted
<1> QED
  BY <1>1, BudgetInvariance, LedgerKept, PTL

-----------------------------------------------------------------------------
(* Several holders of a total, as the messages of one session are.         *)

ToldTo(A)      == UNION {Told(a) : a \in A}
UncountedTo(A) == UNION {Uncounted(a) : a \in A}

LEMMA HoldersAddUp ==
  ASSUME IInv, LedgerInv, NEW A \in SUBSET Agents, IsFiniteSet(A),
         NEW i \in DOMAIN Rules, Rules[i].id = "MaxDailySpend", Rules[i].limit >= 0
  PROVE  2 * Total(ToldTo(A))
           <= (Cardinality(A) + Cardinality(UncountedTo(A))) * (2 * Rules[i].limit)
                + Cardinality(A) * Cent
<1> DEFINE K == 2 * Rules[i].limit
           n(B) == Cardinality(B)
           u(B) == Cardinality(UncountedTo(B))
           Good(B) == /\ IsFiniteSet(ToldTo(B)) /\ Total(ToldTo(B)) \in Nat
                      /\ IsFiniteSet(UncountedTo(B))
                      /\ 2 * Total(ToldTo(B)) <= (n(B) + u(B)) * K + n(B) * Cent
           F == {B \in SUBSET A : ~ Good(B)}
<1>1. K \in Nat /\ Cent \in Nat
  BY DailyLimitIsNumber, CentAssumption
<1> HIDE DEF K
<1>2. SUFFICES ASSUME F # {} PROVE FALSE
  BY A \in SUBSET A DEF K
<1>3. PICK B \in F : IsFiniteSet(B) /\ \A U \in F : U \subseteq B => U = B
  <2>1. F \in SUBSET (SUBSET A)
    OBVIOUS
  <2> HIDE DEF F
  <2> QED
    BY <1>2, <2>1, MinimalSubset
<1>4. B \in SUBSET A /\ ~ Good(B)
  BY <1>3
<1>5. \A U \in SUBSET B : U # B => Good(U)
  BY <1>3, <1>4
<1> HIDE DEF F
<1>6. B # {}
  <2>1. /\ ToldTo({}) = {} /\ UncountedTo({}) = {} /\ IsFiniteSet({})
        /\ Cardinality({}) = 0 /\ (0 + 0) * K = 0 /\ 0 * Cent = 0
    BY <1>1, FS_EmptySet DEF ToldTo, UncountedTo
  <2>2. Total({}) = 0
    BY <2>1, SumOfEmpty, TotalIsSum DEF TotalsAreSums
  <2>3. Good({})
    BY <2>1, <2>2
  <2> QED
    BY <1>4, <2>3
<1>7. PICK a \in B : TRUE
  BY <1>6
<1> DEFINE U == B \ {a}
<1>8. a \in Agents /\ Good(U) /\ IsFiniteSet(U) /\ n(B) = n(U) + 1 /\ n(U) \in Nat
  <2>1. U \in SUBSET B /\ U # B /\ a \in Agents
    BY <1>4, <1>7
  <2>2. IsFiniteSet(U) /\ n(U) = n(B) - 1
    BY <1>3, <1>7, FS_RemoveElement
  <2>3. n(B) \in Nat /\ n(U) \in Nat
    BY <1>3, <2>2, FS_CardinalityType
  <2> HIDE DEF Good, U
  <2> QED
    BY <1>5, <2>1, <2>2, <2>3
<1>9. /\ ToldTo(B) = ToldTo(U) \union Told(a)
      /\ UncountedTo(B) = UncountedTo(U) \union Uncounted(a)
  BY <1>7 DEF ToldTo, UncountedTo
<1>10. ToldTo(U) \cap Told(a) = {} /\ UncountedTo(U) \cap Uncounted(a) = {}
  <2>1. \A b \in U : Told(b) \cap Told(a) = {}
    BY DEF Told, CallsOf
  <2> QED
    BY <2>1 DEF ToldTo, UncountedTo, Uncounted
<1>11. \A c \in ToldTo(U) \union Told(a) : call[c].amount \in Nat
  BY ToldHaveAmounts DEF ToldTo, IInv
<1> DEFINE v == Cardinality(Uncounted(a))
<1>12. /\ IsFiniteSet(Told(a)) /\ IsFiniteSet(Uncounted(a)) /\ v \in Nat
       /\ Total(Told(a)) \in Nat /\ 2 * Total(Told(a)) <= (1 + v) * K + Cent
  <2>1. IsFiniteSet(Told(a)) /\ IsFiniteSet(Uncounted(a)) /\ v \in Nat
    BY <1>8, CountedIsFinite, FS_CardinalityType DEF LedgerInv
  <2>2. CASE Told(a) = {}
    <3>1. Total(Told(a)) = 0
      BY <2>2, FS_EmptySet, SumOfEmpty, TotalIsSum DEF TotalsAreSums
    <3>2. (1 + v) * K \in Nat
      BY <1>1, <2>1
    <3> QED
      BY <1>1, <2>1, <3>1, <3>2
  <2>3. CASE Told(a) # {}
    BY <1>8, <2>1, <2>3, ToldWithinLimits DEF K
  <2> QED
    BY <2>2, <2>3
<1> HIDE DEF U
<1>13. /\ IsFiniteSet(ToldTo(B)) /\ Total(ToldTo(B)) = Total(ToldTo(U)) + Total(Told(a))
       /\ IsFiniteSet(UncountedTo(B))
  <2>1. Total(ToldTo(U) \union Told(a)) = Total(ToldTo(U)) + Total(Told(a))
    BY <1>8, <1>10, <1>11, <1>12, TotalOfBoth
  <2> QED
    BY <1>8, <1>9, <1>12, <2>1, FS_Union
<1>14. u(B) = u(U) + v /\ u(U) \in Nat
  <2>1. IsFiniteSet(UncountedTo(U)) /\ u(U) \in Nat
    BY <1>8, FS_CardinalityType
  <2>2. Cardinality(UncountedTo(U) \union Uncounted(a)) = u(U) + v - Cardinality({})
    BY <1>10, <1>12, <2>1, FS_Union
  <2>3. Cardinality({}) = 0
    BY FS_EmptySet
  <2> HIDE DEF v
  <2> QED
    BY <1>9, <1>12, <2>1, <2>2, <2>3
<1>15. /\ Total(ToldTo(U)) \in Nat
       /\ 2 * Total(ToldTo(U)) <= (n(U) + u(U)) * K + n(U) * Cent
  BY <1>8
<1> HIDE DEF Good, n, u, v
<1>16. /\ (n(B) + u(B)) * K = (n(U) + u(U)) * K + (1 + v) * K
       /\ n(B) * Cent = n(U) * Cent + Cent
       /\ (n(U) + u(U)) * K \in Nat /\ (1 + v) * K \in Nat /\ n(U) * Cent \in Nat
  BY <1>1, <1>8, <1>12, <1>14
<1>17. /\ Total(ToldTo(B)) \in Nat
       /\ 2 * Total(ToldTo(B)) <= (n(B) + u(B)) * K + n(B) * Cent
  BY <1>1, <1>12, <1>13, <1>15, <1>16
<1> QED
  BY <1>4, <1>13, <1>17 DEF Good

(* What several holders of a total were told they may spend, together, is  *)
(* at most one limit and half a cent for each, and one limit for every     *)
(* approval that one of them could not count: the bot makes a new total    *)
(* for every message (telegram_bot.rs:908), so that a session is bounded   *)
(* by its messages and, as SessionWithinBudget shows, by nothing less.     *)
THEOREM SessionSpendIsBounded ==
  ASSUME NEW A \in SUBSET Agents, IsFiniteSet(A),
         NEW i \in DOMAIN Rules, Rules[i].id = "MaxDailySpend", Rules[i].limit >= 0
  PROVE  Spec => [](2 * Total(ToldTo(A))
                      <= (Cardinality(A) + Cardinality(UncountedTo(A)))
                           * (2 * Rules[i].limit) + Cardinality(A) * Cent)
<1>1. IInv /\ LedgerInv
        => 2 * Total(ToldTo(A))
             <= (Cardinality(A) + Cardinality(UncountedTo(A))) * (2 * Rules[i].limit)
                  + Cardinality(A) * Cent
  BY HoldersAddUp
<1> QED
  BY <1>1, LedgerKept, BudgetInvariance, PTL

-----------------------------------------------------------------------------
(* From the words of the user to what the agent is told it may spend: the  *)
(* limit that a policy holds is the one asked for up to half a cent, and   *)
(* what can be counted passes a limit by no more than another half; each   *)
(* approval that cannot be counted costs the amount asked for once more.   *)
THEOREM AskedBudgetIsKept ==
  ASSUME NEW args \in SetPolicyArgs, ~ Refuses(args), args.daily # None,
         NEW kind \in AgentKinds, NEW rules \in BuiltRules(args, kind),
         \A i \in DOMAIN rules : \E j \in DOMAIN Rules : Rules[j] = rules[i]
  PROVE  Spec => [](\A a \in Agents : Told(a) # {} =>
                      2 * Total(Told(a))
                        <= (1 + Cardinality(Uncounted(a))) * (2 * args.daily + Cent)
                             + Cent)
<1>1. PICK limit \in Rounded(args.daily, Cent) :
        Has(rules, Rule("MaxDailySpend", limit))
  BY BuiltRulesBind DEF Binds
<1>2. args.daily \in Int /\ limit \in Int /\ 2 * (limit - args.daily) <= Cent
  <2>1. args.daily \in Int
    BY DEF SetPolicyArgs, Optional
  <2> QED
    BY <1>1, <2>1, CentAssumption, RoundedIsInt
<1>3. PICK j \in DOMAIN Rules : Rules[j] = Rule("MaxDailySpend", limit)
  BY <1>1 DEF Has
<1>4. ASSUME IInv, LedgerInv, NEW a \in Agents, Told(a) # {}
      PROVE  2 * Total(Told(a))
               <= (1 + Cardinality(Uncounted(a))) * (2 * args.daily + Cent) + Cent
  <2> DEFINE t == Total(Told(a))
             u == Cardinality(Uncounted(a))
             asked == 2 * args.daily + Cent
  <2>1. t \in Nat /\ u \in Nat /\ 2 * t <= (1 + u) * (2 * limit) + Cent
    BY <1>3, <1>4, ToldWithinLimits DEF Rule
  <2>2. asked \in Int /\ Cent \in Nat /\ 2 * limit <= asked
    BY <1>2, CentAssumption
  <2> HIDE DEF t, u, asked
  <2>3. \A n \in Nat, x \in Int, y \in Int : x <= y => n * x <= n * y
    OBVIOUS
  <2>4. /\ (1 + u) * (2 * limit) <= (1 + u) * asked
        /\ (1 + u) * (2 * limit) \in Int /\ (1 + u) * asked \in Int
    BY <1>2, <2>1, <2>2, <2>3
  <2>5. 2 * t <= (1 + u) * asked + Cent
    BY <2>1, <2>2, <2>4
  <2> QED
    BY <2>5 DEF t, u, asked
<1>5. IInv /\ LedgerInv
        => \A a \in Agents : Told(a) # {} =>
             2 * Total(Told(a))
               <= (1 + Cardinality(Uncounted(a))) * (2 * args.daily + Cent) + Cent
  BY <1>4
<1> QED
  BY <1>5, LedgerKept, BudgetInvariance, PTL

=============================================================================
