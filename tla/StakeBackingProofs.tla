------------------------- MODULE StakeBackingProofs ---------------------------
(***************************************************************************)
(* The sums of Staking for any number of accounts: the balances add up to  *)
(* the supply, and snax.stake holds at least what is delegated and what    *)
(* waits to be paid back.                                                  *)
(*                                                                         *)
(* SumFunction folds + over a finite domain in an order that CHOOSE fixes; *)
(* the lemmas say that the order does not matter: what one row changes,    *)
(* the sum changes.  An induction over the rows is written as the search   *)
(* for a smallest counterexample (MinimalSubset).                          *)
(***************************************************************************)
EXTENDS StakingProofs, FiniteSetTheorems

(* Among subsets of a finite table there is one with no smaller one.       *)
LEMMA MinimalSubset ==
    ASSUME NEW S, IsFiniteSet(S), NEW F, F \subseteq SUBSET S, F # {}
    PROVE  \E T \in F : \A U \in F : ~(U \subseteq T /\ U # T)
<1>1. FiniteSubsetsOf(S) = SUBSET S
  BY FS_FiniteSubsetsOfFinite, Zenon
<1>2. IsWellFoundedOn(StrictSubsetOrdering(S), SUBSET S)
  BY <1>1, FS_StrictSubsetOrderingWellFounded, Zenon
<1>3. \E T \in F : \A U \in F : ~(<<U, T>> \in StrictSubsetOrdering(S))
  BY <1>2, WFMin, Zenon
<1> QED BY <1>3, Zenon DEF StrictSubsetOrdering

-----------------------------------------------------------------------------
(* s gives every subset of S the sum of f over it.                         *)
IsSum(s, f, S) ==
    /\ s \in [SUBSET S -> Int]
    /\ s[{}] = 0
    /\ \A U \in SUBSET S : \A x \in S \ U : s[U \cup {x}] = s[U] + f[x]

(* A sum over all rows but one extends to all rows.                        *)
LEMMA SumExtends ==
    ASSUME NEW T, NEW f, \A x \in T : f[x] \in Int, NEW x \in T,
           NEW s, IsSum(s, f, T \ {x})
    PROVE  \E s2 : IsSum(s2, f, T)
<1> DEFINE R == T \ {x}
           s2 == [U \in SUBSET T |-> s[U \ {x}] + IF x \in U THEN f[x] ELSE 0]
<1>1. s \in [SUBSET R -> Int] /\ s[{}] = 0
      /\ \A U \in SUBSET R : \A y \in R \ U : s[U \cup {y}] = s[U] + f[y]
  BY Zenon DEF IsSum
<1>2. s2 \in [SUBSET T -> Int]
  <2>1. ASSUME NEW U \in SUBSET T PROVE s[U \ {x}] + (IF x \in U THEN f[x] ELSE 0) \in Int
    <3>1. U \ {x} \in SUBSET R BY Zenon
    <3>2. s[U \ {x}] \in Int BY <3>1, <1>1, Zenon
    <3> QED BY <3>2
  <2> QED BY <2>1, Zenon
<1>3. s2[{}] = 0
  <2>1. {} \ {x} = {} /\ {} \in SUBSET T BY Zenon
  <2> QED BY <2>1, <1>1
<1>4. ASSUME NEW U \in SUBSET T, NEW y \in T \ U
      PROVE  s2[U \cup {y}] = s2[U] + f[y]
  <2>1. U \cup {y} \in SUBSET T BY Zenon
  <2>2. CASE y = x
    <3>1. (U \cup {y}) \ {x} = U /\ U \ {x} = U BY <2>2, Zenon
    <3>2. U \in SUBSET R BY <2>2, Zenon
    <3>3. s[U] \in Int BY <3>2, <1>1, Zenon
    <3>4. s2[U \cup {y}] = s[U] + f[x]
      BY <2>1, <2>2, <3>1, Zenon
    <3>5. s2[U] = s[U] + 0
      BY <2>2, <3>1, Zenon
    <3> QED BY <2>2, <3>3, <3>4, <3>5
  <2>3. CASE y # x
    <3>1. (U \cup {y}) \ {x} = (U \ {x}) \cup {y} BY <2>3, Zenon
    <3>2. U \ {x} \in SUBSET R /\ y \in R \ (U \ {x}) BY <2>3, Zenon
    <3>3. s[(U \ {x}) \cup {y}] = s[U \ {x}] + f[y] BY <3>2, <1>1, Zenon
    <3>4. s[U \ {x}] \in Int BY <3>2, <1>1, Zenon
    <3>5. x \in U \cup {y} <=> x \in U BY <2>3, Zenon
    <3>6. s2[U \cup {y}] = s[U \ {x}] + f[y] + (IF x \in U THEN f[x] ELSE 0)
      <4>1. s2[U \cup {y}] = s[(U \cup {y}) \ {x}] + (IF x \in U \cup {y} THEN f[x] ELSE 0)
        BY <2>1, Zenon
      <4> HIDE DEF s2
      <4> QED BY <3>1, <3>3, <3>5, <4>1, Zenon
    <3>7. s2[U] = s[U \ {x}] + (IF x \in U THEN f[x] ELSE 0)
      BY Zenon
    <3> QED BY <3>4, <3>6, <3>7
  <2> QED BY <2>2, <2>3, Zenon
<1>5. IsSum(s2, f, T)
  BY <1>2, <1>3, <1>4, Zenon DEF IsSum
<1> QED BY <1>5, Zenon

(* Every table of integers has a sum.                                      *)
LEMMA SumExists ==
    ASSUME NEW S, IsFiniteSet(S), NEW f, \A x \in S : f[x] \in Int
    PROVE  \E s : IsSum(s, f, S)
<1> DEFINE F == {T \in SUBSET S : ~ \E s : IsSum(s, f, T)}
<1>1. F = {}
  <2> SUFFICES ASSUME F # {} PROVE FALSE BY Zenon
  <2>1. PICK T \in F : \A U \in F : ~(U \subseteq T /\ U # T)
    <3>1. F \subseteq SUBSET S BY Zenon
    <3> HIDE DEF F
    <3> QED BY <3>1, MinimalSubset
  <2>2. T # {}
    <3>1. IsSum([U \in SUBSET {} |-> 0], f, {})
      BY DEF IsSum
    <3>2. ~ \E s : IsSum(s, f, T) BY Zenon
    <3> QED BY <3>1, <3>2, Zenon
  <2>3. PICK x \in T : TRUE BY <2>2, Zenon
  <2>4. T \ {x} \notin F /\ T \ {x} \in SUBSET S
    BY <2>1, <2>3, Zenon
  <2>5. PICK s : IsSum(s, f, T \ {x})
    BY <2>4, Zenon
  <2>6. \E s2 : IsSum(s2, f, T)
    BY <2>3, <2>5, SumExtends, Zenon
  <2> QED BY <2>6, Zenon
<1> QED BY <1>1, Zenon

(* Taking one row out of any subset takes its value off the sum.           *)
LEMMA SumStep ==
    ASSUME NEW S, NEW f, NEW s, IsSum(s, f, S), NEW T \in SUBSET S, NEW x \in T
    PROVE  /\ s[T] = s[T \ {x}] + f[x]
           /\ s[T] \in Int /\ s[T \ {x}] \in Int
<1>1. (T \ {x}) \cup {x} = T /\ T \ {x} \in SUBSET S /\ x \in S \ (T \ {x})
  BY Zenon
<1> QED BY <1>1, Zenon DEF IsSum

(* The same for the whole table.                                           *)
LEMMA SumLastStep ==
    ASSUME NEW S, NEW f, NEW s, IsSum(s, f, S), NEW x \in S
    PROVE  s[S] = s[S \ {x}] + f[x] /\ s[S] \in Int /\ s[S \ {x}] \in Int
<1>1. S \in SUBSET S
  BY Zenon
<1> QED BY <1>1, SumStep

(* The fold of the library, whatever order it takes, computes the sum.     *)
LEMMA SumIsFold ==
    ASSUME NEW S, IsFiniteSet(S), NEW f, \A x \in S : f[x] \in Int, NEW s, IsSum(s, f, S)
    PROVE  SumFunctionOnSet(f, S) = s[S]
<1> DEFINE ch(U) == CHOOSE x \in U : TRUE
           Step(g) == [U \in SUBSET S |-> IF U = {} THEN 0 ELSE f[ch(U)] + g[U \ {ch(U)}]]
           iter == CHOOSE g : g = Step(g)
           F == {T \in SUBSET S : iter[T] # s[T]}
<1>1. SumFunctionOnSet(f, S) = iter[S]
  BY Zenon DEF SumFunctionOnSet, FoldFunctionOnSet, MapThenFoldSet
<1>2. \A U : U # {} => ch(U) \in U
  BY Zenon
<1> HIDE DEF ch
<1>3. ASSUME NEW U \in SUBSET S, U # {}
      PROVE  s[U] = f[ch(U)] + s[U \ {ch(U)}]
  <2>1. ch(U) \in U /\ ch(U) \in S
    BY <1>2, <1>3, Zenon
  <2>2. s[U] = s[U \ {ch(U)}] + f[ch(U)] /\ s[U \ {ch(U)}] \in Int
    BY <2>1, SumStep
  <2> QED BY <2>1, <2>2
<1>4. s = Step(s)
  <2>1. s = [U \in SUBSET S |-> s[U]] /\ s[{}] = 0
    BY Zenon DEF IsSum
  <2>2. \A U \in SUBSET S : s[U] = IF U = {} THEN 0 ELSE f[ch(U)] + s[U \ {ch(U)}]
    BY <1>3, <2>1, Zenon
  <2> QED BY <2>1, <2>2, Zenon
<1>5. iter = Step(iter)
  <2> HIDE DEF Step
  <2> QED BY <1>4, Zenon
<1> HIDE DEF iter
<1>6. F = {}
  <2> SUFFICES ASSUME F # {} PROVE FALSE BY Zenon
  <2>1. PICK T \in F : \A U \in F : ~(U \subseteq T /\ U # T)
    <3>1. F \subseteq SUBSET S BY Zenon
    <3> HIDE DEF F
    <3> QED BY <3>1, MinimalSubset
  <2>2. T \in SUBSET S /\ iter[T] # s[T] BY Zenon
  <2>3. iter[T] = IF T = {} THEN 0 ELSE f[ch(T)] + iter[T \ {ch(T)}]
    BY <1>5, <2>2, Zenon
  <2>4. T # {}
    BY <2>2, <2>3, Zenon DEF IsSum
  <2>5. ch(T) \in T
    BY <1>2, <2>4, Zenon
  <2>6. T \ {ch(T)} \notin F /\ T \ {ch(T)} \in SUBSET S
    <3>1. T \ {ch(T)} \subseteq T /\ T \ {ch(T)} # T
      BY <2>5, Zenon
    <3> QED BY <2>1, <2>2, <3>1, Zenon
  <2>7. iter[T \ {ch(T)}] = s[T \ {ch(T)}]
    BY <2>6, Zenon
  <2> QED BY <2>2, <2>3, <2>4, <2>7, <1>3, Zenon
<1>7. iter[S] = s[S]
  BY <1>6, Zenon
<1> QED BY <1>1, <1>7, Zenon

(* Two tables with the same rows in R have the same sum over R.            *)
LEMMA SumsAgree ==
    ASSUME NEW S, IsFiniteSet(S), NEW f, NEW g, NEW s, NEW t, IsSum(s, f, S), IsSum(t, g, S),
           NEW R \in SUBSET S, \A x \in R : f[x] = g[x]
    PROVE  s[R] = t[R]
<1> DEFINE F == {T \in SUBSET R : s[T] # t[T]}
<1>1. F = {}
  <2> SUFFICES ASSUME F # {} PROVE FALSE BY Zenon
  <2>1. PICK T \in F : \A U \in F : ~(U \subseteq T /\ U # T)
    <3>1. F \subseteq SUBSET S BY Zenon
    <3> HIDE DEF F
    <3> QED BY <3>1, MinimalSubset
  <2>2. T \in SUBSET R /\ T \in SUBSET S /\ s[T] # t[T] BY Zenon
  <2>3. T # {}
    BY <2>2, Zenon DEF IsSum
  <2>4. PICK x \in T : TRUE BY <2>3, Zenon
  <2>5. T \ {x} \notin F
    BY <2>1, <2>4, Zenon
  <2>6. s[T \ {x}] = t[T \ {x}]
    BY <2>2, <2>5, Zenon
  <2>7. s[T] = s[T \ {x}] + f[x] /\ t[T] = t[T \ {x}] + g[x]
    BY <2>2, SumStep
  <2> QED BY <2>2, <2>6, <2>7, Zenon
<1> QED BY <1>1, Zenon

(* Rows that are not negative have sums that are not negative.             *)
LEMMA SumNonNegative ==
    ASSUME NEW S, IsFiniteSet(S), NEW f, NEW s, IsSum(s, f, S), \A x \in S : f[x] \in Nat
    PROVE  \A T \in SUBSET S : s[T] \in Nat
<1> DEFINE F == {T \in SUBSET S : s[T] \notin Nat}
<1>1. F = {}
  <2> SUFFICES ASSUME F # {} PROVE FALSE BY Zenon
  <2>1. PICK T \in F : \A U \in F : ~(U \subseteq T /\ U # T)
    <3>1. F \subseteq SUBSET S BY Zenon
    <3> HIDE DEF F
    <3> QED BY <3>1, MinimalSubset
  <2>2. T \in SUBSET S /\ s[T] \notin Nat BY Zenon
  <2>3. T # {}
    <3>1. s[{}] = 0
      BY Zenon DEF IsSum
    <3> QED BY <2>2, <3>1
  <2>4. PICK x \in T : TRUE BY <2>3, Zenon
  <2>5. s[T \ {x}] \in Nat
    BY <2>1, <2>4, Zenon
  <2>6. s[T] = s[T \ {x}] + f[x] /\ f[x] \in Nat
    BY <2>2, SumStep
  <2> QED BY <2>2, <2>5, <2>6
<1> QED BY <1>1, Zenon

-----------------------------------------------------------------------------
(* SumFunction is the sum over the whole table.                            *)
LEMMA SumFunctionExists ==
    ASSUME NEW S, IsFiniteSet(S), NEW f \in [S -> Int]
    PROVE  \E s : IsSum(s, f, S) /\ SumFunction(f) = s[S]
<1>1. PICK s : IsSum(s, f, S)
  BY SumExists, Zenon
<1>2. SumFunctionOnSet(f, S) = s[S]
  BY <1>1, SumIsFold, Zenon
<1>3. SumFunction(f) = s[S]
  BY <1>2, Zenon DEF SumFunction
<1> QED BY <1>1, <1>3, Zenon

(* The sum of a table of integers is an integer.                           *)
THEOREM SumType ==
    ASSUME NEW S, IsFiniteSet(S), NEW f \in [S -> Int]
    PROVE  SumFunction(f) \in Int
<1>1. PICK s : IsSum(s, f, S) /\ SumFunction(f) = s[S]
  BY SumFunctionExists, Zenon
<1> QED BY <1>1, Zenon DEF IsSum

(* An empty table, one of zeros, has the sum 0.                            *)
THEOREM SumZero ==
    ASSUME NEW S, IsFiniteSet(S), NEW f \in [S -> Int], \A x \in S : f[x] = 0
    PROVE  SumFunction(f) = 0
<1> DEFINE z == [U \in SUBSET S |-> 0]
<1>1. PICK s : IsSum(s, f, S) /\ SumFunction(f) = s[S]
  BY SumFunctionExists, Zenon
<1>2. IsSum(z, f, S)
  <2>1. ASSUME NEW U \in SUBSET S, NEW x \in S \ U PROVE z[U \cup {x}] = z[U] + f[x]
    <3>1. U \cup {x} \in SUBSET S BY Zenon
    <3> QED BY <3>1
  <2> QED BY <2>1 DEF IsSum
<1>3. s[S] = z[S]
  BY <1>1, <1>2, SumsAgree
<1> QED BY <1>1, <1>3, Zenon

(* When one row changes, the sum changes by as much (every modify of a row *)
(* in the contracts).                                                      *)
THEOREM SumChange ==
    ASSUME NEW S, IsFiniteSet(S), NEW f \in [S -> Int], NEW g \in [S -> Int],
           NEW a \in S, \A x \in S \ {a} : g[x] = f[x]
    PROVE  SumFunction(g) = SumFunction(f) + g[a] - f[a]
<1>1. PICK s : IsSum(s, f, S) /\ SumFunction(f) = s[S]
  BY SumFunctionExists, Zenon
<1>2. PICK t : IsSum(t, g, S) /\ SumFunction(g) = t[S]
  BY SumFunctionExists, Zenon
<1>3. s[S \ {a}] = t[S \ {a}]
  BY <1>1, <1>2, SumsAgree
<1>4. s[S] = s[S \ {a}] + f[a]
  BY <1>1, SumLastStep
<1>5. s[S \ {a}] \in Int
  <2>1. S \ {a} \in SUBSET S
    BY Zenon
  <2> QED BY <1>1, <2>1, Zenon DEF IsSum
<1>6. t[S] = t[S \ {a}] + g[a]
  BY <1>2, SumLastStep
<1> QED BY <1>1, <1>2, <1>3, <1>4, <1>5, <1>6

(* A row of a table of amounts is at most the sum of the table.            *)
THEOREM SumBounds ==
    ASSUME NEW S, IsFiniteSet(S), NEW f \in [S -> Nat]
    PROVE  SumFunction(f) \in Nat /\ \A a \in S : f[a] <= SumFunction(f)
<1>1. PICK s : IsSum(s, f, S) /\ SumFunction(f) = s[S]
  BY SumFunctionExists
<1>2. \A T \in SUBSET S : s[T] \in Nat
  BY <1>1, SumNonNegative, Zenon
<1>3. ASSUME NEW a \in S PROVE f[a] <= s[S]
  <2>1. S \in SUBSET S /\ S \ {a} \in SUBSET S
    BY Zenon
  <2>2. s[S] = s[S \ {a}] + f[a]
    BY <1>1, SumLastStep
  <2>3. s[S \ {a}] \in Nat
    BY <1>2, <2>1, Zenon
  <2> QED BY <2>2, <2>3
<1> QED BY <1>1, <1>2, <1>3, Zenon

-------------------------------------------------------------------------------
(* The holders are the accounts and snax.stake (StakingAssumption).        *)
LEMMA HoldersFinite ==
    /\ IsFiniteSet(Holders) /\ IsFiniteSet(Accounts)
    /\ stake \in Holders /\ stake \notin Accounts /\ Accounts \subseteq Holders
BY StakingAssumption, FS_AddElement, Zenon

(* A transfer leaves the sum of the balances (sub_balance, add_balance).   *)
LEMMA MovedSum ==
    ASSUME NEW b \in [Holders -> Int], NEW x \in Holders, NEW y \in Holders, x # y,
           NEW n \in Nat
    PROVE  SumFunction(Moved(b, x, y, n)) = SumFunction(b)
<1> DEFINE c == [b EXCEPT ![x] = @ - n]
           d == Moved(b, x, y, n)
<1>1. c \in [Holders -> Int] /\ d \in [Holders -> Int] /\ b \in [Holders -> Int]
  BY DEF Moved
<1>2. \A h \in Holders \ {x} : c[h] = b[h]
  BY Zenon
<1>3. \A h \in Holders \ {y} : d[h] = c[h]
  BY Zenon DEF Moved
<1>8. c[x] = b[x] - n /\ d[y] = c[y] + n
  BY Zenon DEF Moved
<1>4. b[x] \in Int /\ c[y] \in Int
  BY <1>1, Zenon
<1> HIDE DEF c, d
<1>5. SumFunction(c) = SumFunction(b) + c[x] - b[x]
  BY <1>1, <1>2, HoldersFinite, SumChange
<1>6. SumFunction(d) = SumFunction(c) + d[y] - c[y]
  BY <1>1, <1>3, HoldersFinite, SumChange
<1>7. SumFunction(b) \in Int
  BY <1>1, HoldersFinite, SumType, Zenon
<1>9. SumFunction(d) = SumFunction(b)
  BY <1>4, <1>5, <1>6, <1>7, <1>8
<1> QED BY <1>9, Zenon DEF d

(* A sum over the accounts follows the row that changes.                   *)
LEMMA RowChange ==
    ASSUME NEW f \in [Accounts -> Int], NEW g \in [Accounts -> Int], NEW a \in Accounts,
           NEW n \in Int, g[a] = f[a] + n, \A x \in Accounts \ {a} : g[x] = f[x]
    PROVE  SumFunction(g) = SumFunction(f) + n
<1>1. SumFunction(g) = SumFunction(f) + g[a] - f[a]
  BY HoldersFinite, SumChange
<1>2. SumFunction(f) \in Int
  BY HoldersFinite, SumType, Zenon
<1>3. f[a] \in Int /\ g[a] \in Int
  BY Zenon
<1> QED BY <1>1, <1>2, <1>3

(* The amounts that are summed are natural numbers.                        *)
LEMMA RowTypes ==
    ASSUME TypeOK
    PROVE  /\ Claims \in [Accounts -> Nat]
           /\ \A a \in Accounts : /\ Delegated(a) \in [Accounts -> Nat]
                                  /\ NetTo(a) \in [Accounts -> Nat]
                                  /\ CpuTo(a) \in [Accounts -> Nat]
<1>1. ASSUME NEW a \in Accounts
      PROVE  RefundAmount(a) \in Nat /\ staked[a] \in Nat
  <2>1. IsRequest(refunds[a])
    BY Zenon DEF TypeOK, IsRequest
  <2>2. RefundAmount(a) \in Nat
    BY <2>1, RefundWeightsType DEF RefundAmount
  <2> QED BY <2>2, Zenon DEF TypeOK
<1>2. \A a, b \in Accounts : delband[a][b].net \in Nat /\ delband[a][b].cpu \in Nat
  BY Zenon DEF TypeOK, Weights
<1>3. Claims \in [Accounts -> Nat]
  BY <1>1 DEF Claims
<1>4. \A a \in Accounts : Delegated(a) \in [Accounts -> Nat]
  BY <1>2 DEF Delegated, Amount
<1>5. \A a \in Accounts : NetTo(a) \in [Accounts -> Nat] /\ CpuTo(a) \in [Accounts -> Nat]
  BY <1>2, Zenon DEF NetTo, CpuTo
<1> QED BY <1>3, <1>4, <1>5, Zenon

(* The vote of an owner follows its row of delband (changebw).             *)
LEMMA VoteFollowsRow ==
    ASSUME TypeOK, StakeIsBacked, NEW source \in Accounts, NEW from \in Accounts,
           NEW receiver \in Accounts, NEW net \in Int, NEW cpu \in Int, NEW request,
           NEW payment \in Nat, Booked(source, from, receiver, net, cpu, request, payment),
           NEW a \in Accounts
    PROVE  (staked[a] = SumFunction(Delegated(a)))'
<1>1. /\ delband \in [Accounts -> [Accounts -> Weights]] /\ staked \in [Accounts -> Nat]
      /\ delband' = [delband EXCEPT ![from][receiver] = Plus(@, net, cpu)]
      /\ staked' = [staked EXCEPT ![from] = @ + net + cpu]
      /\ staked[a] = SumFunction(Delegated(a))
  BY Zenon DEF TypeOK, Booked, StakeIsBacked
<1>2. CASE a # from
  <2>1. delband'[a] = delband[a] /\ staked'[a] = staked[a]
    BY <1>1, <1>2, Zenon
  <2>2. Delegated(a)' = Delegated(a)
    BY <2>1, Zenon DEF Delegated
  <2> QED BY <1>1, <2>1, <2>2, Zenon
<1>3. CASE a = from
  <2> DEFINE f == Delegated(a)
             g == [b \in Accounts |-> Amount(delband'[a][b])]
  <2>1. delband'[a][receiver] = Plus(delband[a][receiver], net, cpu)
        /\ \A b \in Accounts \ {receiver} : delband'[a][b] = delband[a][b]
    BY <1>1, <1>3, Zenon
  <2>2. f \in [Accounts -> Int] /\ delband[a][receiver] \in Weights
    BY RowTypes, <1>1
  <2>3. Amount(delband'[a][receiver]) = Amount(delband[a][receiver]) + (net + cpu)
    BY <2>1, <2>2 DEF Amount, Plus, Weights
  <2>4. g[receiver] = f[receiver] + (net + cpu)
    BY <2>3, Zenon DEF Delegated
  <2>5. \A b \in Accounts \ {receiver} : g[b] = f[b]
    BY <2>1, Zenon DEF Delegated
  <2>6. g \in [Accounts -> Int]
    <3>1. f[receiver] \in Int /\ g[receiver] \in Int
      BY <2>2, <2>4
    <3> QED BY <2>2, <2>5, <3>1, Zenon
  <2> HIDE DEF f, g
  <2>7. SumFunction(g) = SumFunction(f) + (net + cpu)
    BY <2>2, <2>4, <2>5, <2>6, RowChange, SMTT(20)
  <2>8. staked'[a] = staked[a] + (net + cpu)
    BY <1>1, <1>3
  <2>9. staked'[a] = SumFunction(g)
    BY <1>1, <2>7, <2>8, Zenon DEF f
  <2> QED BY <2>9, Zenon DEF Delegated, g
<1> QED BY <1>2, <1>3, Zenon

(* The resources of a receiver follow its column of delband (changebw).    *)
LEMMA ResourcesFollowColumn ==
    ASSUME TypeOK, StakeIsBacked, NEW source \in Accounts, NEW from \in Accounts,
           NEW receiver \in Accounts, NEW net \in Int, NEW cpu \in Int, NEW request,
           NEW payment \in Nat, Booked(source, from, receiver, net, cpu, request, payment),
           NEW a \in Accounts
    PROVE  (userres[a].net = SumFunction(NetTo(a)) /\ userres[a].cpu = SumFunction(CpuTo(a)))'
<1>1. /\ delband \in [Accounts -> [Accounts -> Weights]] /\ userres \in [Accounts -> Weights]
      /\ delband' = [delband EXCEPT ![from][receiver] = Plus(@, net, cpu)]
      /\ userres' = [userres EXCEPT ![receiver] = Plus(@, net, cpu)]
      /\ userres[a].net = SumFunction(NetTo(a)) /\ userres[a].cpu = SumFunction(CpuTo(a))
  BY Zenon DEF TypeOK, Booked, StakeIsBacked
<1>2. CASE a # receiver
  <2>1. userres'[a] = userres[a] /\ \A b \in Accounts : delband'[b][a] = delband[b][a]
    BY <1>1, <1>2, Zenon
  <2>2. NetTo(a)' = NetTo(a) /\ CpuTo(a)' = CpuTo(a)
    BY <2>1, Zenon DEF NetTo, CpuTo
  <2> QED BY <1>1, <2>1, <2>2, Zenon
<1>3. CASE a = receiver
  <2> DEFINE f == NetTo(a)
             g == [b \in Accounts |-> delband'[b][a].net]
             p == CpuTo(a)
             q == [b \in Accounts |-> delband'[b][a].cpu]
  <2>1. delband'[from][a] = Plus(delband[from][a], net, cpu)
        /\ \A b \in Accounts \ {from} : delband'[b][a] = delband[b][a]
    BY <1>1, <1>3, Zenon
  <2>2. f \in [Accounts -> Int] /\ p \in [Accounts -> Int]
    BY RowTypes, <1>1
  <2>3. g[from] = f[from] + net /\ q[from] = p[from] + cpu
    BY <2>1 DEF NetTo, CpuTo, Plus
  <2>4. \A b \in Accounts \ {from} : g[b] = f[b]
    BY <2>1, Zenon DEF NetTo
  <2>5. \A b \in Accounts \ {from} : q[b] = p[b]
    BY <2>1, Zenon DEF CpuTo
  <2>6. g \in [Accounts -> Int] /\ q \in [Accounts -> Int]
    <3>1. g[from] \in Int /\ q[from] \in Int
      BY <2>2, <2>3
    <3> QED BY <2>2, <2>4, <2>5, <3>1, Zenon
  <2> HIDE DEF f, g, p, q
  <2>7. SumFunction(g) = SumFunction(f) + net
    BY <2>2, <2>3, <2>4, <2>6, RowChange
  <2>8. SumFunction(q) = SumFunction(p) + cpu
    BY <2>2, <2>3, <2>5, <2>6, RowChange
  <2>9. userres'[a].net = userres[a].net + net /\ userres'[a].cpu = userres[a].cpu + cpu
    BY <1>1, <1>3, Zenon DEF Plus
  <2>10. userres'[a].net = SumFunction(g) /\ userres'[a].cpu = SumFunction(q)
    BY <1>1, <2>7, <2>8, <2>9, Zenon DEF f, p
  <2> QED BY <2>10, Zenon DEF NetTo, CpuTo, g, q
<1> QED BY <1>2, <1>3, Zenon

(* When the claim of one owner changes by n the sum of the claims does.    *)
LEMMA ClaimsChange ==
    ASSUME TypeOK, NEW a \in Accounts, NEW n \in Int,
           RefundAmount(a)' + staked'[a] = RefundAmount(a) + staked[a] + n,
           \A b \in Accounts \ {a} : refunds'[b] = refunds[b] /\ staked'[b] = staked[b]
    PROVE  SumFunction(Claims)' = SumFunction(Claims) + n
<1> DEFINE f == Claims
           g == Claims'
<1>1. f \in [Accounts -> Int]
  BY RowTypes
<1>2. g[a] = f[a] + n
  BY Zenon DEF Claims
<1>3. \A b \in Accounts \ {a} : g[b] = f[b]
  BY Zenon DEF Claims, RefundAmount
<1>5. g \in [Accounts -> Int]
  <2>1. g[a] \in Int
    BY <1>1, <1>2
  <2>2. g = [b \in Accounts |-> g[b]]
    BY Zenon DEF Claims
  <2> HIDE DEF g
  <2> QED BY <1>1, <1>3, <2>1, <2>2, Zenon
<1> HIDE DEF f, g
<1>4. SumFunction(g) = SumFunction(f) + n
  BY <1>1, <1>2, <1>3, <1>5, RowChange, Zenon
<1> QED BY <1>4, Zenon DEF f, g

-----------------------------------------------------------------------------
(* The conservation of tokens *)

(* The tokens of the sums, an invariant that every transaction keeps.      *)
Backed == TokensConserved /\ StakeIsBacked

(* The balance of snax.stake and the sum of the claims on it are numbers.  *)
LEMMA PoolTypes ==
    ASSUME IInv
    PROVE  balance[stake] \in Nat /\ SumFunction(Claims) \in Nat
<1>1. TypeOK /\ stake \in Holders
  BY StakingAssumption, Zenon DEF IInv
<1>2. Claims \in [Accounts -> Nat]
  BY <1>1, RowTypes, Zenon
<1>3. SumFunction(Claims) \in Nat
  BY <1>2, HoldersFinite, SumBounds, Zenon
<1> QED BY <1>1, <1>3, Zenon DEF TypeOK

(* A change of bandwidth moves as much into snax.stake as the claims on it *)
(* grow by (changebw).                                                     *)
LEMMA BookedKeepsBacked ==
    ASSUME IInv, Backed, NEW source \in Accounts, NEW from \in Accounts,
           NEW receiver \in Accounts, NEW net \in Int, NEW cpu \in Int, NEW request,
           IsRequest(request), NEW payment \in Nat,
           Booked(source, from, receiver, net, cpu, request, payment),
           Amount(RefundWeights(request)) - payment = RefundAmount(from) - net - cpu
    PROVE  Backed'
<1>1. /\ TypeOK /\ StakeIsBacked /\ TokensConserved
      /\ balance \in [Holders -> Nat] /\ refunds \in [Accounts -> RefundRequest \cup {NoRefund}]
      /\ staked \in [Accounts -> Nat]
  BY Zenon DEF IInv, Backed, TypeOK
<1>2. /\ payment > 0 => CanTransfer(balance, source, stake, payment)
      /\ balance' = Moved(balance, source, stake, payment)
      /\ staked' = [staked EXCEPT ![from] = @ + net + cpu]
      /\ refunds' = [refunds EXCEPT ![from] = request] /\ supply' = supply
  BY Zenon DEF Booked
<1>3. source \in Holders /\ stake \in Holders /\ source # stake
  BY StakingAssumption, Zenon
<1>4. balance'[stake] = balance[stake] + payment
  BY <1>1, <1>2, <1>3, MovedType, Zenon
<1>5. TokensConserved'
  <2>1. balance \in [Holders -> Int]
    BY <1>1
  <2>2. SumFunction(balance') = SumFunction(balance)
    BY <1>2, <1>3, <2>1, MovedSum, Zenon
  <2> QED BY <1>1, <1>2, <2>2, Zenon DEF TokensConserved
<1>6. SumFunction(Claims)' = SumFunction(Claims) + payment
  <2>1. \A b \in Accounts \ {from} : refunds'[b] = refunds[b] /\ staked'[b] = staked[b]
    BY <1>1, <1>2, Zenon
  <2>2. staked'[from] = staked[from] + net + cpu /\ refunds'[from] = request
        /\ staked[from] \in Nat
    BY <1>1, <1>2, Zenon
  <2> DEFINE m == RefundAmount(from)
             m2 == Amount(RefundWeights(request))
  <2>3. m \in Nat /\ m2 \in Nat
    <3>1. IsRequest(refunds[from])
      BY <1>1, Zenon DEF IsRequest
    <3> QED BY <3>1, RefundWeightsType DEF RefundAmount
  <2>4. m2 - payment = m - net - cpu
    BY Zenon
  <2>5. RefundAmount(from)' = m2
    BY <2>2, Zenon DEF RefundAmount
  <2> HIDE DEF m, m2
  <2>6. m2 + staked'[from] = m + staked[from] + payment
    <3> DEFINE v == staked[from]
               v2 == staked'[from]
    <3>1. v \in Nat /\ v2 = v + net + cpu
      BY <2>2, Zenon
    <3> HIDE DEF v, v2
    <3>2. m2 + v2 = m + v + payment
      BY <2>3, <2>4, <3>1
    <3> QED BY <3>2, Zenon DEF v, v2
  <2>7. RefundAmount(from)' + staked'[from] = RefundAmount(from) + staked[from] + payment
    BY <2>5, <2>6, Zenon DEF m
  <2> QED BY <1>1, <2>1, <2>7, ClaimsChange
<1>7. (balance[stake] >= SumFunction(Claims))'
  <2>1. balance[stake] >= SumFunction(Claims)
    BY <1>1, Zenon DEF StakeIsBacked
  <2> QED BY <1>4, <1>6, <2>1, PoolTypes
<1>8. \A a \in Accounts : (staked[a] = SumFunction(Delegated(a)))'
  BY <1>1, VoteFollowsRow, Zenon
<1>9. \A a \in Accounts :
         (userres[a].net = SumFunction(NetTo(a)) /\ userres[a].cpu = SumFunction(CpuTo(a)))'
  BY <1>1, ResourcesFollowColumn, Zenon
<1> QED BY <1>5, <1>7, <1>8, <1>9, Zenon DEF Backed, StakeIsBacked

(* A change of bandwidth keeps the sums (changebw).                        *)
LEMMA ChangebwKeepsBacked ==
    ASSUME IInv, Backed, NEW source \in Accounts, NEW receiver \in Accounts, NEW net, NEW cpu,
           SameSign(net, cpu), NEW transfer_ \in BOOLEAN, net + cpu < 0 => ~transfer_,
           changebw(source, receiver, net, cpu, transfer_)
    PROVE  Backed'
<1>0. net \in Int /\ cpu \in Int
  BY Zenon DEF SameSign
<1>1. ASSUME NEW request, SettledChange(source, receiver, net, cpu, request)
      PROVE  Backed'
  <2> DEFINE pay == SettledPayment(refunds[source], net, cpu)
  <2>1. /\ IsRequest(request) /\ pay \in Nat
        /\ Amount(RefundWeights(request)) - pay = RefundAmount(source) - net - cpu
    BY <1>1, SettledFacts DEF RefundAmount
  <2>2. Booked(source, source, receiver, net, cpu, request, pay)
    BY <1>1, Zenon DEF SettledChange
  <2> HIDE DEF pay
  <2> QED BY <1>0, <2>1, <2>2, BookedKeepsBacked, Zenon
<1>2. ASSUME NEW from \in Accounts, ~(net + cpu < 0),
             PlainChange(source, from, receiver, net, cpu)
      PROVE  Backed'
  <2> DEFINE n == net + cpu
             m == RefundAmount(from)
  <2>1. n \in Nat
    BY <1>0, <1>2
  <2>2. IsRequest(refunds[from])
    BY Zenon DEF IInv, TypeOK, IsRequest
  <2>3. m \in Nat /\ m = Amount(RefundWeights(refunds[from]))
    BY <2>2, RefundWeightsType DEF RefundAmount
  <2>4. Booked(source, from, receiver, net, cpu, refunds[from], n)
    BY <1>2, Zenon DEF PlainChange
  <2> HIDE DEF m
  <2>5. m - n = m - net - cpu
    BY <1>0, <2>3
  <2>6. Amount(RefundWeights(refunds[from])) - n = RefundAmount(from) - net - cpu
    BY <2>3, <2>5, Zenon DEF m
  <2> HIDE DEF n
  <2> QED BY <1>0, <2>1, <2>2, <2>4, <2>6, BookedKeepsBacked, Zenon
<1> QED BY <1>1, <1>2, ChangeCases

(* The sums stay when nothing that is claimed changes and snax.stake loses *)
(* nothing.                                                                *)
LEMMA SumsKept ==
    ASSUME IInv, StakeIsBacked, NEW n \in Nat, balance'[stake] = balance[stake] + n,
           UNCHANGED <<delband, userres, refunds, staked>>
    PROVE  StakeIsBacked'
<1>1. Claims' = Claims
  BY Zenon DEF Claims, RefundAmount
<1>2. \A a \in Accounts :
         /\ Delegated(a)' = Delegated(a) /\ NetTo(a)' = NetTo(a) /\ CpuTo(a)' = CpuTo(a)
  BY Zenon DEF Delegated, NetTo, CpuTo
<1>3. (balance[stake] >= SumFunction(Claims))'
  <2>1. balance[stake] >= SumFunction(Claims)
    BY Zenon DEF StakeIsBacked
  <2> QED BY <1>1, <2>1, PoolTypes
<1> QED BY <1>2, <1>3, Zenon DEF StakeIsBacked

(* A refund takes out of snax.stake what it takes off the claims (refund). *)
LEMMA RefundKeepsBacked ==
    ASSUME IInv, Backed, NEW owner \in Accounts, PayRefund(owner)
    PROVE  Backed'
<1> DEFINE n == Amount(refunds[owner])
<1>1. /\ n \in Nat /\ n = RefundAmount(owner) /\ balance'[stake] = balance[stake] - n
  BY PaidRefund, Zenon
<1>2. /\ balance' = Moved(balance, stake, owner, n)
      /\ refunds' = [refunds EXCEPT ![owner] = NoRefund]
      /\ supply' = supply /\ delband' = delband /\ userres' = userres /\ staked' = staked
  BY Zenon DEF PayRefund
<1>3. /\ TypeOK /\ StakeIsBacked /\ TokensConserved /\ balance \in [Holders -> Int]
      /\ refunds \in [Accounts -> RefundRequest \cup {NoRefund}] /\ staked \in [Accounts -> Nat]
      /\ balance[stake] \in Int
  <2>1. stake \in Holders
    BY StakingAssumption, Zenon
  <2> QED BY <2>1 DEF IInv, Backed, TypeOK
<1> HIDE DEF n
<1>4. TokensConserved'
  <2>1. owner \in Holders /\ stake \in Holders /\ owner # stake
    BY StakingAssumption, Zenon
  <2>2. SumFunction(balance') = SumFunction(balance)
    BY <1>1, <1>2, <1>3, <2>1, MovedSum, Zenon
  <2> QED BY <1>2, <1>3, <2>2, Zenon DEF TokensConserved
<1>5. SumFunction(Claims)' = SumFunction(Claims) + (-n)
  <2>1. \A b \in Accounts \ {owner} : refunds'[b] = refunds[b] /\ staked'[b] = staked[b]
    BY <1>2, <1>3, Zenon
  <2>2. refunds'[owner] = NoRefund
    BY <1>2, <1>3, Zenon
  <2>3. RefundAmount(owner)' = 0
    BY <2>2 DEF RefundAmount, RefundWeights, Zero, Amount
  <2>4. staked'[owner] = staked[owner] /\ staked[owner] \in Nat
    BY <1>2, <1>3, Zenon
  <2>5. RefundAmount(owner)' + staked'[owner] = RefundAmount(owner) + staked[owner] + (-n)
    BY <1>1, <2>3, <2>4
  <2>6. -n \in Int
    BY <1>1
  <2> QED BY <1>3, <2>1, <2>5, <2>6, ClaimsChange, Zenon
<1>6. (balance[stake] >= SumFunction(Claims))'
  <2>1. balance[stake] >= SumFunction(Claims)
    BY <1>3, Zenon DEF StakeIsBacked
  <2> QED BY <1>1, <1>5, <2>1, PoolTypes
<1>7. \A a \in Accounts :
         /\ Delegated(a)' = Delegated(a) /\ NetTo(a)' = NetTo(a) /\ CpuTo(a)' = CpuTo(a)
  BY <1>2, Zenon DEF Delegated, NetTo, CpuTo
<1> QED BY <1>2, <1>3, <1>4, <1>6, <1>7, Zenon DEF Backed, StakeIsBacked

(* Issued tokens are credited once, transfers move what they take          *)
(* (token::issue, token::transfer).                                        *)
LEMMA TokenKeepsBacked ==
    ASSUME IInv, Backed, tokenAction
    PROVE  Backed'
<1>1. UNCHANGED <<delband, userres, refunds, staked>>
  BY Zenon DEF tokenAction
<1>2. PICK to \in Holders, n \in Amounts :
         issue(to, n) \/ \E a \in Accounts : transfer(a, to, n)
  BY Zenon DEF tokenAction
<1>3. balance \in [Holders -> Int] /\ StakeIsBacked /\ TokensConserved
  BY DEF IInv, TypeOK, Backed
<1>4. n \in Nat /\ \A x \in Accounts : x \in Holders /\ x # stake
  BY StakingAssumption, Zenon
<1>5. stake \in Holders /\ balance[stake] \in Nat
  BY StakingAssumption, PoolTypes, Zenon
<1>8. ASSUME \/ to # stake /\ balance'[stake] = balance[stake]
             \/ balance'[stake] = balance[stake] + n
      PROVE  StakeIsBacked'
  <2>1. \E m \in Nat : balance'[stake] = balance[stake] + m
    BY <1>4, <1>5, <1>8
  <2> QED BY <1>1, <1>3, <2>1, SumsKept, Zenon
<1>6. CASE issue(to, n)
  <2>1. balance' = [balance EXCEPT ![to] = @ + n] /\ supply' = supply + n
    BY <1>6, Zenon DEF issue
  <2>2. /\ balance' \in [Holders -> Int] /\ balance[to] \in Int
        /\ \A h \in Holders \ {to} : balance'[h] = balance[h]
    BY <1>3, <1>4, <2>1
  <2>3. balance'[to] = balance[to] + n
    BY <1>3, <2>1, Zenon
  <2>4. SumFunction(balance') = SumFunction(balance) + balance'[to] - balance[to]
    BY <1>3, <2>2, HoldersFinite, SumChange, SMTT(20)
  <2>5. SumFunction(balance) \in Int
    BY <1>3, HoldersFinite, SumType, Zenon
  <2>6. SumFunction(balance') = SumFunction(balance) + n
    BY <1>4, <2>2, <2>3, <2>4, <2>5, SMTT(20)
  <2>7. TokensConserved'
    BY <1>3, <2>1, <2>6, Zenon DEF TokensConserved
  <2>8. StakeIsBacked'
    BY <1>5, <1>8, <2>2, <2>3, Zenon
  <2> QED BY <2>7, <2>8, Zenon DEF Backed
<1>7. ASSUME NEW a \in Accounts, transfer(a, to, n)
      PROVE  Backed'
  <2>1. balance' = Moved(balance, a, to, n) /\ supply' = supply /\ a # to
    BY <1>7, Zenon DEF transfer, CanTransfer
  <2>2. SumFunction(balance') = SumFunction(balance)
    BY <1>3, <1>4, <2>1, MovedSum, Zenon
  <2>3. TokensConserved'
    BY <1>3, <2>1, <2>2, Zenon DEF TokensConserved
  <2>4. StakeIsBacked'
    <3>1. CASE to = stake
      <4>1. balance'[stake] = balance[stake] + n
        BY <1>3, <1>4, <1>5, <2>1, <3>1, Zenon DEF Moved
      <4> QED BY <1>8, <4>1, Zenon
    <3>2. CASE to # stake
      <4>1. balance'[stake] = balance[stake]
        BY <1>3, <1>4, <1>5, <2>1, <3>2, Zenon DEF Moved
      <4> QED BY <1>8, <3>2, <4>1, Zenon
    <3> QED BY <3>1, <3>2, Zenon
  <2> QED BY <2>3, <2>4, Zenon DEF Backed
<1> QED BY <1>2, <1>6, <1>7, Zenon

(* The sums stay in a step that leaves all of the tables.                  *)
LEMMA TablesKept ==
    ASSUME IInv, Backed, UNCHANGED <<balance, supply, delband, userres, refunds, staked>>
    PROVE  Backed'
<1>1. balance'[stake] = balance[stake] + 0 /\ 0 \in Nat
  BY PoolTypes
<1>2. StakeIsBacked'
  BY <1>1, SumsKept, Zenon DEF Backed
<1> QED BY <1>2, Zenon DEF Backed, TokensConserved

(* Every step keeps the sums.                                              *)
LEMMA NextBacked == IInv /\ Backed /\ [Next]_vars => Backed'
<1> SUFFICES ASSUME IInv, Backed, [Next]_vars PROVE Backed'
  BY Zenon
<1>1. ASSUME NEW from \in Accounts, NEW receiver \in Accounts, NEW net \in Amounts,
             NEW cpu \in Amounts, NEW transfer_ \in BOOLEAN,
             \/ delegatebw(from, receiver, net, cpu, transfer_)
             \/ \E count \in PeriodCounts : escrowbw(from, receiver, net, cpu, transfer_, count)
      PROVE  Backed'
  <2>1. /\ CanDelegate(from, receiver, net, cpu, transfer_)
        /\ changebw(from, receiver, net, cpu, transfer_)
    BY <1>1, Zenon DEF delegatebw, escrowbw
  <2>2. SameSign(net, cpu) /\ ~(net + cpu < 0)
    BY <2>1, DelegationSigns, Zenon
  <2> QED BY <2>1, <2>2, ChangebwKeepsBacked, Zenon
<1>2. ASSUME NEW from \in Accounts, NEW receiver \in Accounts, NEW net \in Amounts,
             NEW cpu \in Amounts, undelegatebw(from, receiver, net, cpu)
      PROVE  Backed'
  <2>1. net + cpu > 0 /\ changebw(from, receiver, -net, -cpu, FALSE)
    BY <1>2, Zenon DEF undelegatebw
  <2>2. SameSign(-net, -cpu)
    BY <2>1, UndelegationSigns, Zenon
  <2> QED BY <2>1, <2>2, ChangebwKeepsBacked, Zenon
<1>3. ASSUME NEW owner \in Accounts, refund(owner)
      PROVE  Backed'
  BY <1>3, RefundKeepsBacked, Zenon DEF refund
<1>4. ASSUME NEW owner \in Accounts, push_scheduled_transaction(owner)
      PROVE  Backed'
  <2>1. CASE PayRefund(owner)
    BY <2>1, RefundKeepsBacked, Zenon
  <2>2. CASE UNCHANGED <<time, balance, supply, delband, userres, refunds, staked>>
    BY <2>2, TablesKept, Zenon
  <2> QED BY <1>4, <2>1, <2>2, PushCases, Zenon
<1>5. CASE NextBlock
  BY <1>5, TablesKept, Zenon DEF NextBlock
<1>6. CASE UNCHANGED vars
  BY <1>6, TablesKept, Zenon DEF vars
<1> QED BY <1>1, <1>2, <1>3, <1>4, <1>5, <1>6, TokenKeepsBacked, Zenon DEF Next

(* Nothing is staked in the first state, and the supply is what was        *)
(* issued.                                                                 *)
LEMMA InitBacked == Init => Backed
<1> SUFFICES ASSUME Init PROVE Backed
  BY Zenon
<1>1. /\ supply = SumFunction(balance)
      /\ delband = [a \in Accounts |-> [b \in Accounts |-> Zero]]
      /\ userres = [a \in Accounts |-> Zero]
      /\ refunds = [a \in Accounts |-> NoRefund]
      /\ staked = [a \in Accounts |-> 0]
  BY Zenon DEF Init
<1>2. balance[stake] = 0
  <2>1. stake \in Holders
    BY StakingAssumption, Zenon
  <2> QED BY <2>1, Zenon DEF Init
<1>3. ASSUME NEW f, f = [a \in Accounts |-> 0]
      PROVE  SumFunction(f) = 0
  <2>1. f \in [Accounts -> Int] /\ \A a \in Accounts : f[a] = 0
    BY <1>3
  <2> QED BY <2>1, HoldersFinite, SumZero, Zenon
<1>4. Zero.net = 0 /\ Zero.cpu = 0 /\ Amount(Zero) = 0
  BY DEF Zero, Amount
<1>5. Claims = [a \in Accounts |-> 0]
  BY <1>1, <1>4 DEF Claims, RefundAmount, RefundWeights
<1>6. ASSUME NEW a \in Accounts
      PROVE  /\ Delegated(a) = [b \in Accounts |-> 0]
             /\ NetTo(a) = [b \in Accounts |-> 0] /\ CpuTo(a) = [b \in Accounts |-> 0]
             /\ staked[a] = 0 /\ userres[a].net = 0 /\ userres[a].cpu = 0
  BY <1>1, <1>4, Zenon DEF Delegated, NetTo, CpuTo
<1>7. balance[stake] >= SumFunction(Claims)
  <2>1. SumFunction(Claims) = 0
    BY <1>3, <1>5, Zenon
  <2> QED BY <1>2, <2>1
<1>8. \A a \in Accounts : /\ staked[a] = SumFunction(Delegated(a))
                          /\ userres[a].net = SumFunction(NetTo(a))
                          /\ userres[a].cpu = SumFunction(CpuTo(a))
  BY <1>3, <1>6, Zenon
<1> QED BY <1>1, <1>7, <1>8, Zenon DEF Backed, TokensConserved, StakeIsBacked

-----------------------------------------------------------------------------
(* For any number of accounts and any amounts, the balances always add up  *)
(* to the supply: no inline transfer of staking, no refund, deferred or    *)
(* claimed, creates or loses a token (token::issue, sub_balance and        *)
(* add_balance).                                                           *)
THEOREM TokensAreConserved == Spec => []TokensConserved
<1>1. Backed => TokensConserved
  BY Zenon DEF Backed
<1> QED BY <1>1, InitBacked, NextBacked, Invariance, PTL DEF Spec

(* For any number of accounts, votes and resources are always the sums of  *)
(* the delegations, and snax.stake holds at least the sum of the votes and *)
(* of the refunds, whoever sends it more (changebw, refund, transfer).     *)
THEOREM StakeBacked == Spec => []StakeIsBacked
<1>1. Backed => StakeIsBacked
  BY Zenon DEF Backed
<1> QED BY <1>1, InitBacked, NextBacked, Invariance, PTL DEF Spec

(* The transfer of a refund out of snax.stake is always covered.           *)
RefundsCovered ==
    \A owner \in Accounts :
        refunds[owner] # NoRefund =>
            CanTransfer(balance, stake, owner, Amount(refunds[owner]))

(* No refund can fail because snax.stake is short of tokens: the inline    *)
(* transfer of refund passes the asserts of transfer and sub_balance in    *)
(* every state, for every owner and whoever was paid before.               *)
THEOREM RefundsAreCovered == Spec => []RefundsCovered
<1>1. IInv /\ Backed => RefundsCovered
  <2> SUFFICES ASSUME IInv, Backed, NEW owner \in Accounts, refunds[owner] # NoRefund
               PROVE  CanTransfer(balance, stake, owner, Amount(refunds[owner]))
    BY Zenon DEF RefundsCovered
  <2> DEFINE n == Amount(refunds[owner])
  <2>1. IsRequest(refunds[owner]) /\ n > 0 /\ TypeOK
    BY Zenon DEF IInv, RequestSound
  <2>2. n \in Nat /\ n = RefundAmount(owner)
    BY <2>1, RefundWeightsType DEF RefundAmount, Amount
  <2>3. Claims \in [Accounts -> Nat] /\ Claims[owner] = RefundAmount(owner) + staked[owner]
        /\ staked[owner] \in Nat
    BY <2>1, RowTypes, Zenon DEF Claims, TypeOK
  <2>4. Claims[owner] <= SumFunction(Claims) /\ SumFunction(Claims) \in Nat
    BY <2>3, HoldersFinite, SumBounds, Zenon
  <2>5. balance[stake] >= SumFunction(Claims) /\ balance[stake] \in Nat
    BY PoolTypes, Zenon DEF Backed, StakeIsBacked
  <2> HIDE DEF n
  <2>6. balance[stake] >= n
    BY <2>2, <2>3, <2>4, <2>5
  <2>7. stake # owner
    BY StakingAssumption, Zenon
  <2> QED BY <2>1, <2>6, <2>7, Zenon DEF CanTransfer, n
<1> QED BY <1>1, InitBacked, NextBacked, Invariance, PTL DEF Spec

==============================================================================
