------------------------------ MODULE AccountProofs ------------------------------
(***************************************************************************)
(* Proofs about accounts and tenants: logins, tokens, the gate of a        *)
(* suspended tenant, signup and billing; for every number of accounts,     *)
(* tenants, requests and failures, every limit and every threshold.        *)
(***************************************************************************)
EXTENDS LoginGuard, TokenSessions, TenantGate, TenantSignup, TenantBilling, Functions,
        FiniteSetTheorems, TLAPS

(***************************************************************************)
(* Sequences without repetition.                                           *)
(***************************************************************************)

Distinct(s) == \A i, j \in DOMAIN s : s[i] = s[j] => i = j

LEMMA AppendRange ==
    ASSUME NEW S, NEW s \in Seq(S), NEW x \in S
    PROVE  /\ Append(s, x) \in Seq(S)
           /\ Range(Append(s, x)) = Range(s) \cup {x}
           /\ Distinct(s) /\ x \notin Range(s) => Distinct(Append(s, x))
<1>1. /\ Append(s, x) \in Seq(S) /\ DOMAIN Append(s, x) = 1..(Len(s) + 1)
      /\ DOMAIN s = 1..Len(s) /\ Len(s) \in Nat
      /\ \A i \in 1..Len(s) : Append(s, x)[i] = s[i]
      /\ Append(s, x)[Len(s) + 1] = x
  OBVIOUS
<1>2. DOMAIN Append(s, x) = DOMAIN s \cup {Len(s) + 1}
  BY <1>1
<1>3. Range(Append(s, x)) = Range(s) \cup {x}
  BY <1>1, <1>2 DEF Range
<1>4. Distinct(s) /\ x \notin Range(s) => Distinct(Append(s, x))
  BY <1>1, <1>2 DEF Distinct, Range
<1>. QED
  BY <1>1, <1>3, <1>4

LEMMA TailRange ==
    ASSUME NEW S, NEW s \in Seq(S), s # <<>>
    PROVE  /\ Head(s) \in S /\ Tail(s) \in Seq(S)
           /\ Range(s) = {Head(s)} \cup Range(Tail(s))
           /\ Distinct(s) => Distinct(Tail(s)) /\ Head(s) \notin Range(Tail(s))
<1>1. /\ Len(s) \in Nat \ {0} /\ DOMAIN s = 1..Len(s) /\ Head(s) = s[1]
      /\ Tail(s) \in Seq(S) /\ DOMAIN Tail(s) = 1..(Len(s) - 1)
      /\ \A i \in 1..(Len(s) - 1) : Tail(s)[i] = s[i + 1]
  OBVIOUS
<1>2. \A i \in DOMAIN s : i = 1 \/ (i - 1 \in DOMAIN Tail(s) /\ s[i] = Tail(s)[i - 1])
  BY <1>1
<1>3. Range(s) = {Head(s)} \cup Range(Tail(s))
  <2>1. \A i \in DOMAIN Tail(s) : \E j \in DOMAIN s : Tail(s)[i] = s[j]
    BY <1>1
  <2>2. \A j \in DOMAIN s : s[j] = Head(s) \/ \E i \in DOMAIN Tail(s) : s[j] = Tail(s)[i]
    BY <1>1, <1>2
  <2>3. \E j \in DOMAIN s : s[j] = Head(s)
    BY <1>1
  <2>. QED
    BY <2>1, <2>2, <2>3 DEF Range
<1>4. Distinct(s) => Distinct(Tail(s))
  BY <1>1 DEF Distinct
<1>5. Distinct(s) => Head(s) \notin Range(Tail(s))
  BY <1>1 DEF Distinct, Range
<1>. QED
  BY <1>1, <1>3, <1>4, <1>5

LEMMA ConcatRange ==
    ASSUME NEW S, NEW s \in Seq(S), NEW t \in Seq(S)
    PROVE  /\ s \o t \in Seq(S)
           /\ Range(s \o t) = Range(s) \cup Range(t)
           /\ Distinct(s) /\ Distinct(t) /\ Range(s) \cap Range(t) = {} => Distinct(s \o t)
<1>1. /\ Len(s) \in Nat /\ Len(t) \in Nat /\ DOMAIN s = 1..Len(s) /\ DOMAIN t = 1..Len(t)
      /\ s \o t \in Seq(S) /\ DOMAIN (s \o t) = 1..(Len(s) + Len(t))
      /\ \A i \in 1..(Len(s) + Len(t)) :
            (s \o t)[i] = IF i <= Len(s) THEN s[i] ELSE t[i - Len(s)]
  OBVIOUS
<1>2. \A i \in DOMAIN (s \o t) : \/ i \in DOMAIN s /\ (s \o t)[i] = s[i]
                                 \/ i - Len(s) \in DOMAIN t /\ (s \o t)[i] = t[i - Len(s)]
  BY <1>1
<1>3. \A i \in DOMAIN s : i \in DOMAIN (s \o t) /\ (s \o t)[i] = s[i]
  BY <1>1
<1>4. \A i \in DOMAIN t : i + Len(s) \in DOMAIN (s \o t) /\ (s \o t)[i + Len(s)] = t[i]
  BY <1>1
<1>5. Range(s \o t) = Range(s) \cup Range(t)
  <2>1. \A k \in DOMAIN (s \o t) : \/ \E i \in DOMAIN s : (s \o t)[k] = s[i]
                                   \/ \E i \in DOMAIN t : (s \o t)[k] = t[i]
    BY <1>2
  <2>2. /\ \A i \in DOMAIN s : \E k \in DOMAIN (s \o t) : (s \o t)[k] = s[i]
        /\ \A i \in DOMAIN t : \E k \in DOMAIN (s \o t) : (s \o t)[k] = t[i]
    BY <1>3, <1>4
  <2>3. ASSUME NEW st, DOMAIN st = DOMAIN (s \o t),
               \A k \in DOMAIN st : \/ \E i \in DOMAIN s : st[k] = s[i]
                                   \/ \E i \in DOMAIN t : st[k] = t[i],
               \A i \in DOMAIN s : \E k \in DOMAIN st : st[k] = s[i],
               \A i \in DOMAIN t : \E k \in DOMAIN st : st[k] = t[i]
        PROVE  Range(st) = Range(s) \cup Range(t)
    <3>1. ASSUME NEW x \in Range(st) PROVE x \in Range(s) \cup Range(t)
      <4>1. PICK k \in DOMAIN st : st[k] = x
        BY DEF Range
      <4>2. (\E i \in DOMAIN s : x = s[i]) \/ (\E i \in DOMAIN t : x = t[i])
        BY <2>3, <4>1
      <4>. QED
        BY <4>2 DEF Range
    <3>2. ASSUME NEW i \in DOMAIN s PROVE s[i] \in Range(st)
      BY <2>3 DEF Range
    <3>3. ASSUME NEW i \in DOMAIN t PROVE t[i] \in Range(st)
      BY <2>3 DEF Range
    <3>. QED
      BY <3>1, <3>2, <3>3 DEF Range
  <2>. QED
    BY <2>1, <2>2, <2>3
<1>6. Distinct(s) /\ Distinct(t) /\ Range(s) \cap Range(t) = {} => Distinct(s \o t)
  <2>. SUFFICES ASSUME Distinct(s), Distinct(t), Range(s) \cap Range(t) = {},
                       NEW i \in DOMAIN (s \o t), NEW j \in DOMAIN (s \o t), (s \o t)[i] = (s \o t)[j]
                PROVE  i = j
    BY DEF Distinct
  <2>1. \A k \in DOMAIN s, l \in DOMAIN t : s[k] # t[l]
    BY DEF Range
  <2>2. i \in Int /\ j \in Int
    BY <1>1
  <2>3. CASE i \in DOMAIN s /\ (s \o t)[i] = s[i]
    BY <1>2, <2>1, <2>3 DEF Distinct
  <2>4. CASE i - Len(s) \in DOMAIN t /\ (s \o t)[i] = t[i - Len(s)]
    <3>1. j - Len(s) \in DOMAIN t /\ (s \o t)[j] = t[j - Len(s)]
      BY <1>2, <2>1, <2>4
    <3>2. i - Len(s) = j - Len(s)
      BY <2>4, <3>1 DEF Distinct
    <3>. QED
      BY <1>1, <2>2, <3>2
  <2>. QED
    BY <1>2, <2>3, <2>4
<1>. QED
  BY <1>1, <1>5, <1>6

LEMMA EmptyRange == Range(<<>>) = {} /\ Distinct(<<>>)
BY DEF Range, Distinct

(***************************************************************************)
(* Logins.  The lock of an account lets only so many wrong passwords through.*)
(***************************************************************************)

\* The requests for account a that are at pc.
Those(logins, pc, a) == {r \in Request : logins[r].pc = pc /\ logins[r].acct = a}

LEMMA ThoseFinite ==
    ASSUME NEW logins, NEW pc, NEW a
    PROVE  /\ IsFiniteSet(Those(logins, pc, a))
           /\ Cardinality(Those(logins, pc, a)) \in Nat
           /\ Cardinality(Request) \in Nat
           /\ Cardinality(Those(logins, pc, a)) <= Cardinality(Request)
<1>1. Those(logins, pc, a) \in SUBSET Request
  BY DEF Those
<1>2. IsFiniteSet(Request) /\ Cardinality(Request) \in Nat
  BY GuardAssumption, FS_CardinalityType
<1>3. /\ IsFiniteSet(Those(logins, pc, a))
      /\ Cardinality(Those(logins, pc, a)) <= Cardinality(Request)
  BY <1>1, <1>2, FS_Subset
<1>. QED
  BY <1>2, <1>3, FS_CardinalityType

\* One request changes: at most one more is at pc ...
LEMMA OneMore ==
    ASSUME NEW old, NEW new, NEW pc, NEW a, NEW r \in Request,
           \A q \in Request \ {r} : new[q] = old[q]
    PROVE  Cardinality(Those(new, pc, a)) <= Cardinality(Those(old, pc, a)) + 1
<1>1. Those(new, pc, a) \in SUBSET (Those(old, pc, a) \cup {r})
  BY DEF Those
<1>2. /\ IsFiniteSet(Those(old, pc, a) \cup {r})
      /\ Cardinality(Those(old, pc, a) \cup {r}) <= Cardinality(Those(old, pc, a)) + 1
  <2>1. IsFiniteSet(Those(old, pc, a)) /\ Cardinality(Those(old, pc, a)) \in Nat
    BY ThoseFinite
  <2>. QED
    BY <2>1, FS_AddElement
<1>3. Cardinality(Those(new, pc, a)) <= Cardinality(Those(old, pc, a) \cup {r})
  BY <1>1, <1>2, FS_Subset
<1>4. Cardinality(Those(old, pc, a) \cup {r}) \in Nat
  BY <1>2, FS_CardinalityType
<1>5. Cardinality(Those(old, pc, a)) \in Nat /\ Cardinality(Those(new, pc, a)) \in Nat
  BY ThoseFinite
<1>. QED
  BY <1>2, <1>3, <1>4, <1>5

\* ... none more, if it is not there ...
LEMMA NoMore ==
    ASSUME NEW old, NEW new, NEW pc, NEW a, NEW r \in Request,
           \A q \in Request \ {r} : new[q] = old[q],
           r \notin Those(new, pc, a)
    PROVE  Cardinality(Those(new, pc, a)) <= Cardinality(Those(old, pc, a))
<1>1. Those(new, pc, a) \in SUBSET Those(old, pc, a)
  BY DEF Those
<1>. QED
  BY <1>1, ThoseFinite, FS_Subset

\* ... and one less, if it was there and is not any more.
LEMMA OneLess ==
    ASSUME NEW old, NEW new, NEW pc, NEW a, NEW r \in Request,
           \A q \in Request \ {r} : new[q] = old[q],
           r \in Those(old, pc, a), r \notin Those(new, pc, a)
    PROVE  Cardinality(Those(new, pc, a)) = Cardinality(Those(old, pc, a)) - 1
<1>1. Those(new, pc, a) = Those(old, pc, a) \ {r}
  BY DEF Those
<1>. QED
  BY <1>1, ThoseFinite, FS_RemoveElement

\* Requests at different places are different requests.
LEMMA EndsApart ==
    ASSUME NEW logins, NEW a, NEW r \in Request, logins[r].pc = "limited"
    PROVE  Cardinality(Those(logins, "wrong", a)) + Cardinality(Those(logins, "open", a)) + 1
             <= Cardinality(Request)
<1> DEFINE W == Those(logins, "wrong", a)
           O == Those(logins, "open", a)
<1>1. W \cap O = {} /\ r \notin W \cup O /\ (W \cup O) \cup {r} \in SUBSET Request
  BY DEF Those
<1>2. IsFiniteSet(W) /\ IsFiniteSet(O)
  BY ThoseFinite
<1>3. IsFiniteSet(W \cup O) /\ Cardinality(W \cup O) = Cardinality(W) + Cardinality(O)
  <2>1. /\ IsFiniteSet(W \cup O)
        /\ Cardinality(W \cup O) = Cardinality(W) + Cardinality(O) - Cardinality(W \cap O)
    BY <1>2, FS_Union
  <2>2. Cardinality(W \cap O) = 0
    BY <1>1, FS_EmptySet
  <2>. QED
    BY <2>1, <2>2, ThoseFinite
<1>4. Cardinality((W \cup O) \cup {r}) = Cardinality(W \cup O) + 1
  BY <1>1, <1>3, FS_AddElement
<1>5. Cardinality((W \cup O) \cup {r}) <= Cardinality(Request)
  BY <1>1, GuardAssumption, FS_Subset
<1>. QED
  BY <1>3, <1>4, <1>5

-----------------------------------------------------------------------------

\* A request that is under way is for an account.
LEMMA AcctOf ==
    ASSUME GuardTypeOK, NEW r \in Request, login[r].pc # "idle"
    PROVE  login[r].acct \in Account /\ login[r] \in [pc : Pcs, acct : Account]
BY DEF GuardTypeOK, Logins, Nobody

LEMMA GuardTypes == GuardSpec => []GuardTypeOK
<1>1. GuardInit => GuardTypeOK
  BY DEF GuardInit, GuardTypeOK, Logins
<1>2. GuardTypeOK /\ [GuardNext]_guardVars => GuardTypeOK'
  <2> SUFFICES ASSUME GuardTypeOK, [GuardNext]_guardVars PROVE GuardTypeOK'
    OBVIOUS
  <2> USE GuardAssumption
  <2>1. ASSUME NEW r \in Request, NEW s \in Surface, NEW a \in Account, Arrive(r, s, a)
        PROVE  GuardTypeOK'
    <3>1. [pc |-> "limited", acct |-> a] \in Logins
      BY DEF Logins, Pcs
    <3>. QED
      BY <2>1, <3>1 DEF Arrive, Counted, GuardTypeOK
  <2>2. ASSUME NEW r \in Request, NEW a \in Account, ArriveUnlimited(r, a)
        PROVE  GuardTypeOK'
    <3>1. [pc |-> "limited", acct |-> a] \in Logins
      BY DEF Logins, Pcs
    <3>. QED
      BY <2>2, <3>1 DEF ArriveUnlimited, Glitch, GuardTypeOK
  <2>3. CASE OtherCall \/ WindowTurns
    BY <2>3 DEF OtherCall, WindowTurns, Counted, GuardTypeOK
  <2>4. ASSUME NEW r \in Request, login[r].pc # "idle",
               NEW pc \in Pcs, Goes(r, pc) \/ Ends(r)
        PROVE  login' \in [Request -> Logins]
    <3>1. [pc |-> pc, acct |-> login[r].acct] \in Logins
      BY <2>4, AcctOf DEF Logins
    <3>. QED
      BY <2>4, <3>1 DEF Goes, Ends, GuardTypeOK, Logins
  <2>5. ASSUME NEW r \in Request, CheckLock(r) \/ CheckLockFails(r) PROVE GuardTypeOK'
    <3>1. login' \in [Request -> Logins]
      BY <2>4, <2>5 DEF CheckLock, CheckLockFails, At, Pcs
    <3>. QED
      BY <2>5, <3>1 DEF CheckLock, CheckLockFails, Glitch, GuardTypeOK
  <2>6. ASSUME NEW r \in Request, NEW p \in Password, CheckPassword(r, p) PROVE GuardTypeOK'
    <3>1. login' \in [Request -> Logins]
      BY <2>4, <2>6 DEF CheckPassword, Password, At, Pcs
    <3>2. tries' \in [Account -> Nat]
      <4>1. login[r].acct \in Account
        BY <2>6, AcctOf DEF CheckPassword, At
      <4>2. \/ tries' = tries
            \/ tries' = [tries EXCEPT ![login[r].acct] = @ + 1]
        BY <2>6 DEF CheckPassword, Password
      <4>. QED
        BY <4>1, <4>2 DEF GuardTypeOK
    <3>. QED
      BY <2>6, <3>1, <3>2 DEF CheckPassword, GuardTypeOK
  <2>7. ASSUME NEW r \in Request, RecordFailure(r) PROVE GuardTypeOK'
    <3>1. login' \in [Request -> Logins]
      BY <2>4, <2>7 DEF RecordFailure, At, Pcs
    <3>. QED
      BY <2>7, <3>1, AcctOf DEF RecordFailure, At, GuardTypeOK
  <2>8. ASSUME NEW r \in Request, ExpireCounter(r) PROVE GuardTypeOK'
    <3>1. login' \in [Request -> Logins]
      BY <2>4, <2>8 DEF ExpireCounter, At, Pcs
    <3>. QED
      BY <2>8, <3>1, AcctOf DEF ExpireCounter, At, GuardTypeOK
  <2>9. ASSUME NEW r \in Request, RecordFails(r) PROVE GuardTypeOK'
    <3>1. login' \in [Request -> Logins]
      BY <2>4, <2>9 DEF RecordFails, At, Pcs
    <3>. QED
      BY <2>9, <3>1 DEF RecordFails, Glitch, GuardTypeOK
  <2>10. ASSUME NEW a \in Account, CounterExpires(a) PROVE GuardTypeOK'
    BY <2>10 DEF CounterExpires, EndsCounter, GuardTypeOK
  <2>11. ASSUME NEW r \in Request, ClearFailures(r) \/ ClearFails(r) \/ FinishLogin(r)
         PROVE  GuardTypeOK'
    <3>1. login' \in [Request -> Logins]
      BY <2>4, <2>11 DEF ClearFailures, ClearFails, FinishLogin, At, Pcs
    <3>. QED
      BY <2>11, <3>1, AcctOf DEF ClearFailures, ClearFails, FinishLogin, EndsCounter, Glitch, GuardTypeOK
  <2>12. CASE UNCHANGED guardVars
    BY <2>12 DEF guardVars, GuardTypeOK
  <2>. QED
    BY <2>1, <2>2, <2>3, <2>5, <2>6, <2>7, <2>8, <2>9, <2>10, <2>11, <2>12 DEF GuardNext
<1>. QED
  BY <1>1, <1>2, PTL DEF GuardSpec

-----------------------------------------------------------------------------

\* A wrong password tried for a is counted, about to be counted, or lost by a
\* failure; and the requests past the lock of a may still try one each.
Kept(a) ==
    /\ tries[a] <= failures[a] + Cardinality(Those(login, "wrong", a)) + glitches
    /\ tries[a] + Cardinality(Those(login, "open", a)) < LockAfter + Cardinality(Request) + glitches

GuardInv == GuardTypeOK /\ CounterEnds /\ \A a \in Account : Kept(a)

\* A request that counts nothing and does not pass the lock.
LEMMA Harmless ==
    ASSUME GuardTypeOK, NEW a \in Account, Kept(a), NEW r \in Request, NEW new, login' = new,
           \A q \in Request \ {r} : new[q] = login[q],
           tries'[a] = tries[a], failures'[a] = failures[a],
           glitches' \in Nat, glitches <= glitches',
           r \in Those(login, "wrong", a) => glitches' = glitches + 1,
           r \notin Those(new, "open", a)
    PROVE  Kept(a)'
<1>1. Cardinality(Those(new, "open", a)) <= Cardinality(Those(login, "open", a))
  BY NoMore
<1>2. Cardinality(Those(login, "wrong", a)) <= Cardinality(Those(new, "wrong", a)) + 1
  BY OneMore
<1>3. r \notin Those(login, "wrong", a) =>
        Cardinality(Those(login, "wrong", a)) <= Cardinality(Those(new, "wrong", a))
  BY NoMore
<1>4. /\ Cardinality(Those(login, "wrong", a)) \in Nat /\ Cardinality(Those(new, "wrong", a)) \in Nat
      /\ Cardinality(Those(login, "open", a)) \in Nat /\ Cardinality(Those(new, "open", a)) \in Nat
      /\ Cardinality(Request) \in Nat
  BY ThoseFinite
<1>5. tries[a] \in Nat /\ failures[a] \in Nat /\ glitches \in Nat /\ LockAfter \in Nat
  BY GuardAssumption DEF GuardTypeOK
<1>. QED
  BY <1>1, <1>2, <1>3, <1>4, <1>5 DEF Kept

\* The counter of a ends.
LEMMA AfterEnd ==
    ASSUME GuardTypeOK, GuardTypeOK', NEW a \in Account, tries'[a] = 0, NEW new, login' = new
    PROVE  Kept(a)'
<1>1. /\ Cardinality(Those(new, "wrong", a)) \in Nat /\ Cardinality(Those(new, "open", a)) \in Nat
      /\ Cardinality(Request) \in Nat
      /\ Cardinality(Those(new, "open", a)) <= Cardinality(Request)
  BY ThoseFinite
<1>2. failures'[a] \in Nat /\ glitches' \in Nat /\ LockAfter \in Nat \ {0}
  BY GuardAssumption DEF GuardTypeOK
<1>. QED
  BY <1>1, <1>2 DEF Kept

\* Goes and Ends change one request only.
LEMMA MovesOne ==
    ASSUME GuardTypeOK, NEW r \in Request, NEW pc, Goes(r, pc) \/ Ends(r)
    PROVE  /\ \A q \in Request \ {r} : login'[q] = login[q]
           /\ Goes(r, pc) => login'[r] = [pc |-> pc, acct |-> login[r].acct]
           /\ ~Goes(r, pc) => login'[r] = Nobody
BY DEF Goes, Ends, GuardTypeOK

LEMMA KeptInit == GuardInit => CounterEnds /\ \A a \in Account : Kept(a)
<1> SUFFICES ASSUME GuardInit PROVE CounterEnds /\ \A a \in Account : Kept(a)
  OBVIOUS
<1>1. CounterEnds
  BY DEF GuardInit, CounterEnds
<1>2. ASSUME NEW a \in Account PROVE Kept(a)
  <2>1. Those(login, "open", a) = {}
    BY DEF GuardInit, Those, Nobody
  <2>2. /\ Cardinality(Those(login, "open", a)) = 0
        /\ Cardinality(Those(login, "wrong", a)) \in Nat /\ Cardinality(Request) \in Nat
    BY <2>1, FS_EmptySet, ThoseFinite
  <2>. QED
    BY <2>2, GuardAssumption DEF GuardInit, Kept
<1>. QED
  BY <1>1, <1>2

LEMMA KeptStep ==
    ASSUME GuardTypeOK, GuardTypeOK', [GuardNext]_guardVars,
           NEW a \in Account, Kept(a)
    PROVE  Kept(a)'
<1> DEFINE new == login'
<1>1. ASSUME NEW r \in Request, NEW b \in Account,
             ArriveUnlimited(r, b) \/ \E s \in Surface : Arrive(r, s, b)
      PROVE  Kept(a)'
  <2>1. /\ At(r, "idle") /\ tries' = tries /\ failures' = failures
        /\ glitches' \in Nat /\ glitches <= glitches'
    BY <1>1 DEF Arrive, ArriveUnlimited, Glitch, GuardTypeOK
  <2>2. \/ new = login
        \/ new = [login EXCEPT ![r] = [pc |-> "limited", acct |-> b]]
    BY <1>1 DEF Arrive, ArriveUnlimited
  <2>3. \A q \in Request \ {r} : new[q] = login[q]
    BY <2>2 DEF GuardTypeOK
  <2>4. r \notin Those(login, "wrong", a) /\ r \notin Those(new, "open", a)
    BY <2>1, <2>2 DEF Those, At, GuardTypeOK
  <2>. QED
    BY <2>1, <2>3, <2>4, Harmless
<1>2. CASE OtherCall \/ WindowTurns \/ UNCHANGED guardVars
  BY <1>2 DEF OtherCall, WindowTurns, guardVars, Kept
<1>3. ASSUME NEW r \in Request, CheckLock(r) PROVE Kept(a)'
  <2>1. /\ login[r].pc = "limited" /\ tries' = tries /\ failures' = failures
        /\ glitches' = glitches /\ glitches' \in Nat
    BY <1>3 DEF CheckLock, At, GuardTypeOK
  <2>2. /\ \A q \in Request \ {r} : new[q] = login[q]
        /\ \/ new[r] = [pc |-> "open", acct |-> login[r].acct] /\ ~IsLocked(login[r].acct)
           \/ new[r] = Nobody
    BY <1>3, MovesOne DEF CheckLock, GuardTypeOK, Goes, Ends
  <2>3. r \notin Those(login, "wrong", a)
    BY <2>1 DEF Those
  <2>4. CASE r \notin Those(new, "open", a)
    BY <2>1, <2>2, <2>3, <2>4, Harmless
  <2>5. CASE r \in Those(new, "open", a)
    <3>1. login[r].acct = a /\ ~IsLocked(a) /\ r \notin Those(new, "wrong", a)
      BY <2>2, <2>5 DEF Those, Nobody
    <3>2. Cardinality(Those(new, "open", a)) <= Cardinality(Those(login, "open", a)) + 1
      BY <2>2, OneMore
    <3>3. Cardinality(Those(login, "wrong", a)) <= Cardinality(Those(new, "wrong", a))
      BY <2>2, <2>3, NoMore
    <3>4. Cardinality(Those(login, "wrong", a)) + Cardinality(Those(login, "open", a)) + 1
            <= Cardinality(Request)
      BY <2>1, EndsApart
    <3>5. /\ Cardinality(Those(login, "wrong", a)) \in Nat /\ Cardinality(Those(new, "wrong", a)) \in Nat
          /\ Cardinality(Those(login, "open", a)) \in Nat /\ Cardinality(Those(new, "open", a)) \in Nat
          /\ Cardinality(Request) \in Nat
      BY ThoseFinite
    <3>6. tries[a] \in Nat /\ failures[a] \in Nat /\ LockAfter \in Nat \ {0} /\ failures[a] < LockAfter
      BY <3>1, GuardAssumption DEF GuardTypeOK, IsLocked
    <3>. QED
      BY <2>1, <3>2, <3>3, <3>4, <3>5, <3>6 DEF Kept
  <2>. QED
    BY <2>4, <2>5
<1>4. ASSUME NEW r \in Request, CheckLockFails(r) PROVE Kept(a)'
  <2>1. /\ login[r].pc = "limited" /\ tries' = tries /\ failures' = failures
        /\ glitches' = glitches + 1 /\ glitches \in Nat
    BY <1>4 DEF CheckLockFails, Glitch, At, GuardTypeOK
  <2>2. \A q \in Request \ {r} : new[q] = login[q]
    BY <1>4, MovesOne DEF CheckLockFails
  <2>3. Cardinality(Those(new, "open", a)) <= Cardinality(Those(login, "open", a)) + 1
    BY <2>2, OneMore
  <2>4. r \notin Those(login, "wrong", a)
    BY <2>1 DEF Those
  <2>5. Cardinality(Those(login, "wrong", a)) <= Cardinality(Those(new, "wrong", a))
    BY <2>2, <2>4, NoMore
  <2>6. /\ Cardinality(Those(login, "wrong", a)) \in Nat /\ Cardinality(Those(new, "wrong", a)) \in Nat
        /\ Cardinality(Those(login, "open", a)) \in Nat /\ Cardinality(Those(new, "open", a)) \in Nat
        /\ Cardinality(Request) \in Nat
    BY ThoseFinite
  <2>7. tries[a] \in Nat /\ failures[a] \in Nat /\ LockAfter \in Nat
    BY GuardAssumption DEF GuardTypeOK
  <2>. QED
    BY <2>1, <2>3, <2>5, <2>6, <2>7 DEF Kept
<1>5. ASSUME NEW r \in Request, NEW p \in Password, CheckPassword(r, p) PROVE Kept(a)'
  <2>1. /\ login[r].pc = "open" /\ failures' = failures /\ glitches' = glitches
        /\ glitches \in Nat /\ glitches' \in Nat
    BY <1>5 DEF CheckPassword, At, GuardTypeOK
  <2>2. \/ Goes(r, "right") /\ tries' = tries
        \/ Ends(r) /\ tries' = tries
        \/ Goes(r, "wrong") /\ tries' = [tries EXCEPT ![login[r].acct] = @ + 1]
    BY <1>5 DEF CheckPassword, Password
  <2>3. /\ \A q \in Request \ {r} : new[q] = login[q]
        /\ \/ tries' = tries
           \/ /\ tries' = [tries EXCEPT ![login[r].acct] = @ + 1]
              /\ new[r] = [pc |-> "wrong", acct |-> login[r].acct]
    BY <2>2, MovesOne DEF Goes, Ends, GuardTypeOK
  <2>4. r \notin Those(login, "wrong", a)
    BY <2>1 DEF Those
  <2>5. r \notin Those(new, "open", a)
    BY <2>2 DEF Those, Goes, Ends, GuardTypeOK, Nobody
  <2>6. CASE tries' = tries \/ a # login[r].acct
    <3>1. tries'[a] = tries[a]
      BY <2>3, <2>6 DEF GuardTypeOK
    <3>. QED
      BY <3>1, <2>1, <2>3, <2>4, <2>5, Harmless
  <2>7. CASE tries' # tries /\ a = login[r].acct
    <3>1. tries'[a] = tries[a] + 1 /\ r \in Those(new, "wrong", a) /\ r \in Those(login, "open", a)
      BY <2>1, <2>3, <2>7 DEF Those, GuardTypeOK
    <3>2. Cardinality(Those(new, "open", a)) = Cardinality(Those(login, "open", a)) - 1
      BY <3>1, <2>3, <2>5, OneLess
    <3>3. Cardinality(Those(login, "wrong", a)) = Cardinality(Those(new, "wrong", a)) - 1
      BY <3>1, <2>3, <2>4, OneLess
    <3>4. /\ Cardinality(Those(login, "wrong", a)) \in Nat /\ Cardinality(Those(new, "wrong", a)) \in Nat
          /\ Cardinality(Those(login, "open", a)) \in Nat /\ Cardinality(Those(new, "open", a)) \in Nat
          /\ Cardinality(Request) \in Nat
      BY ThoseFinite
    <3>5. tries[a] \in Nat /\ failures[a] \in Nat /\ LockAfter \in Nat
      BY GuardAssumption DEF GuardTypeOK
    <3>. QED
      BY <2>1, <3>1, <3>2, <3>3, <3>4, <3>5 DEF Kept
  <2>. QED
    BY <2>6, <2>7
<1>6. ASSUME NEW r \in Request, RecordFailure(r) PROVE Kept(a)'
  <2>1. /\ login[r].pc = "wrong" /\ tries' = tries /\ glitches' = glitches
        /\ failures' = [failures EXCEPT ![login[r].acct] = @ + 1]
        /\ glitches \in Nat /\ glitches' \in Nat
    BY <1>6 DEF RecordFailure, At, GuardTypeOK
  <2>2. /\ \A q \in Request \ {r} : new[q] = login[q]
        /\ r \notin Those(new, "open", a) /\ r \notin Those(new, "wrong", a)
    BY <1>6, MovesOne DEF RecordFailure, Goes, Ends, GuardTypeOK, Those, Nobody
  <2>3. CASE a # login[r].acct
    <3>1. failures'[a] = failures[a] /\ r \notin Those(login, "wrong", a)
      BY <2>1, <2>3 DEF GuardTypeOK, Those
    <3>. QED
      BY <3>1, <2>1, <2>2, Harmless
  <2>4. CASE a = login[r].acct
    <3>1. failures'[a] = failures[a] + 1 /\ r \in Those(login, "wrong", a)
      BY <2>1, <2>4 DEF GuardTypeOK, Those
    <3>2. Cardinality(Those(new, "wrong", a)) = Cardinality(Those(login, "wrong", a)) - 1
      BY <3>1, <2>2, OneLess
    <3>3. Cardinality(Those(new, "open", a)) <= Cardinality(Those(login, "open", a))
      BY <2>2, NoMore
    <3>4. /\ Cardinality(Those(login, "wrong", a)) \in Nat /\ Cardinality(Those(new, "wrong", a)) \in Nat
          /\ Cardinality(Those(login, "open", a)) \in Nat /\ Cardinality(Those(new, "open", a)) \in Nat
          /\ Cardinality(Request) \in Nat
      BY ThoseFinite
    <3>5. tries[a] \in Nat /\ failures[a] \in Nat /\ LockAfter \in Nat
      BY GuardAssumption DEF GuardTypeOK
    <3>. QED
      BY <2>1, <3>1, <3>2, <3>3, <3>4, <3>5 DEF Kept
  <2>. QED
    BY <2>3, <2>4
<1>7. ASSUME NEW r \in Request,
             ExpireCounter(r) \/ RecordFails(r) \/ ClearFails(r) \/ FinishLogin(r)
      PROVE  Kept(a)'
  <2>1. /\ tries' = tries /\ failures' = failures /\ glitches \in Nat /\ glitches' \in Nat
        /\ glitches <= glitches'
        /\ login[r].pc = "wrong" => glitches' = glitches + 1
    BY <1>7 DEF ExpireCounter, RecordFails, ClearFails, FinishLogin, At, Glitch, GuardTypeOK
  <2>2. Goes(r, "cleared") \/ Ends(r)
    BY <1>7 DEF ExpireCounter, RecordFails, ClearFails, FinishLogin
  <2>3. /\ \A q \in Request \ {r} : new[q] = login[q]
        /\ r \notin Those(new, "open", a)
    BY <2>2, MovesOne DEF Goes, Ends, GuardTypeOK, Those, Nobody
  <2>. QED
    BY <2>1, <2>3, Harmless DEF Those
<1>8. ASSUME NEW r \in Request, ClearFailures(r) PROVE Kept(a)'
  <2>1. /\ EndsCounter(login[r].acct) /\ login[r].pc = "right" /\ Goes(r, "cleared")
        /\ glitches' = glitches /\ glitches \in Nat /\ glitches' \in Nat
    BY <1>8 DEF ClearFailures, At, GuardTypeOK
  <2>2. CASE a = login[r].acct
    <3>1. tries'[a] = 0
      BY <2>1, <2>2 DEF EndsCounter, GuardTypeOK
    <3>. QED
      BY <3>1, AfterEnd
  <2>3. CASE a # login[r].acct
    <3>1. tries'[a] = tries[a] /\ failures'[a] = failures[a]
      BY <2>1, <2>3 DEF EndsCounter, GuardTypeOK
    <3>2. /\ \A q \in Request \ {r} : new[q] = login[q]
          /\ r \notin Those(new, "open", a) /\ r \notin Those(login, "wrong", a)
      BY <2>1, MovesOne DEF Those, Goes, GuardTypeOK
    <3>. QED
      BY <2>1, <3>1, <3>2, Harmless
  <2>. QED
    BY <2>2, <2>3
<1>9. ASSUME NEW b \in Account, CounterExpires(b) PROVE Kept(a)'
  <2>1. EndsCounter(b) /\ login' = login /\ glitches' = glitches
    BY <1>9 DEF CounterExpires
  <2>2. CASE a = b
    <3>1. tries'[a] = 0
      BY <2>1, <2>2 DEF EndsCounter, GuardTypeOK
    <3>. QED
      BY <3>1, AfterEnd
  <2>3. CASE a # b
    <3>1. tries'[a] = tries[a] /\ failures'[a] = failures[a]
      BY <2>1, <2>3 DEF EndsCounter, GuardTypeOK
    <3>. QED
      BY <2>1, <3>1 DEF Kept
  <2>. QED
    BY <2>2, <2>3
<1>10. CASE GuardNext
  BY <1>10, <1>1, <1>2, <1>3, <1>4, <1>5, <1>6, <1>7, <1>8, <1>9 DEF GuardNext
<1>. QED
  BY <1>2, <1>10

LEMMA CounterEndsStep ==
    ASSUME GuardTypeOK, GuardTypeOK', CounterEnds, [GuardNext]_guardVars
    PROVE  CounterEnds'
<1> SUFFICES ASSUME NEW a \in Account, failures'[a] > 0, a \notin expiring', ~(glitches' > 0)
             PROVE  \E r \in Request : login'[r].pc = "first" /\ login'[r].acct = a
  BY DEF CounterEnds, At
<1>1. \/ glitches' = glitches + 1
      \/ glitches' = glitches
  BY DEF GuardNext, Arrive, ArriveUnlimited, OtherCall, WindowTurns, CheckLock, CheckLockFails,
         CheckPassword, RecordFailure, ExpireCounter, RecordFails, CounterExpires, ClearFailures,
         ClearFails, FinishLogin, Glitch, guardVars
<1>2. glitches' = glitches /\ ~(glitches > 0)
  BY <1>1 DEF GuardTypeOK
<1>3. failures[a] > 0 /\ a \notin expiring =>
         \E r \in Request : login[r].pc = "first" /\ login[r].acct = a
  BY <1>2 DEF CounterEnds, At
<1>4. ASSUME failures'[a] = failures[a], a \notin expiring,
             NEW r \in Request, login[r].pc # "first", \A q \in Request \ {r} : login'[q] = login[q]
      PROVE  \E q \in Request : login'[q].pc = "first" /\ login'[q].acct = a
  BY <1>3, <1>4
<1>5. ASSUME NEW r \in Request, NEW s \in Surface, NEW b \in Account, Arrive(r, s, b)
      PROVE  \E q \in Request : login'[q].pc = "first" /\ login'[q].acct = a
  <2>1. \A q \in Request \ {r} : login'[q] = login[q]
    BY <1>5 DEF Arrive, GuardTypeOK
  <2>. QED
    BY <1>4, <1>5, <2>1 DEF Arrive, At
<1>6. CASE OtherCall \/ WindowTurns \/ UNCHANGED guardVars
  BY <1>3, <1>6 DEF OtherCall, WindowTurns, guardVars
<1>7. ASSUME NEW r \in Request, CheckLock(r)
      PROVE  \E q \in Request : login'[q].pc = "first" /\ login'[q].acct = a
  <2>1. \A q \in Request \ {r} : login'[q] = login[q]
    BY <1>7, MovesOne DEF CheckLock
  <2>. QED
    BY <1>4, <1>7, <2>1 DEF CheckLock, At
<1>8. ASSUME NEW r \in Request, NEW p \in Password, CheckPassword(r, p)
      PROVE  \E q \in Request : login'[q].pc = "first" /\ login'[q].acct = a
  <2>1. Goes(r, "right") \/ Goes(r, "wrong") \/ Ends(r)
    BY <1>8 DEF CheckPassword, Password
  <2>2. \A q \in Request \ {r} : login'[q] = login[q]
    BY <2>1, MovesOne
  <2>3. failures' = failures /\ expiring' = expiring /\ login[r].pc = "open"
    BY <1>8 DEF CheckPassword, At
  <2>. QED
    BY <1>4, <2>2, <2>3
<1>9. ASSUME NEW r \in Request, RecordFailure(r)
      PROVE  \E q \in Request : login'[q].pc = "first" /\ login'[q].acct = a
  <2>1. /\ \A q \in Request \ {r} : login'[q] = login[q]
        /\ login[r].pc = "wrong" /\ login[r].acct \in Account /\ expiring' = expiring
        /\ failures' = [failures EXCEPT ![login[r].acct] = @ + 1]
    BY <1>9, MovesOne, AcctOf DEF RecordFailure, At
  <2>2. CASE a # login[r].acct \/ failures[a] > 0
    <3>1. failures[a] > 0
      BY <2>1, <2>2 DEF GuardTypeOK
    <3>. QED
      BY <1>3, <2>1, <3>1
  <2>3. CASE a = login[r].acct /\ failures[a] = 0
    <3>1. login'[r] = [pc |-> "first", acct |-> a]
      BY <1>9, <2>3, MovesOne DEF RecordFailure
    <3>. QED
      BY <3>1
  <2>. QED
    BY <2>2, <2>3 DEF GuardTypeOK
<1>10. ASSUME NEW r \in Request, ExpireCounter(r)
       PROVE  \E q \in Request : login'[q].pc = "first" /\ login'[q].acct = a
  <2>1. /\ \A q \in Request \ {r} : login'[q] = login[q]
        /\ failures' = failures
        /\ a \notin expiring /\ a # login[r].acct
    BY <1>10, MovesOne DEF ExpireCounter
  <2>. QED
    BY <1>3, <2>1
<1>11. ASSUME NEW r \in Request, ClearFailures(r) \/ FinishLogin(r)
       PROVE  \E q \in Request : login'[q].pc = "first" /\ login'[q].acct = a
  <2>1. /\ \A q \in Request \ {r} : login'[q] = login[q]
        /\ login[r].pc # "first" /\ failures'[a] = failures[a] /\ a \notin expiring
    BY <1>11, MovesOne DEF ClearFailures, FinishLogin, EndsCounter, At, GuardTypeOK
  <2>. QED
    BY <1>4, <2>1
<1>12. ASSUME NEW b \in Account, CounterExpires(b)
       PROVE  \E q \in Request : login'[q].pc = "first" /\ login'[q].acct = a
  <2>1. login' = login /\ failures'[a] = failures[a] /\ a \notin expiring
    BY <1>12 DEF CounterExpires, EndsCounter, GuardTypeOK
  <2>. QED
    BY <1>3, <2>1
<1>13. ASSUME NEW r \in Request, NEW b \in Account,
              ArriveUnlimited(r, b) \/ CheckLockFails(r) \/ RecordFails(r) \/ ClearFails(r)
       PROVE  FALSE
  BY <1>2, <1>13 DEF ArriveUnlimited, CheckLockFails, RecordFails, ClearFails, Glitch, GuardTypeOK
<1>14. ASSUME NEW r \in Request, CheckLockFails(r) \/ RecordFails(r) \/ ClearFails(r)
       PROVE  FALSE
  BY <1>13, <1>14
<1>15. CASE GuardNext
  BY <1>15, <1>5, <1>6, <1>7, <1>8, <1>9, <1>10, <1>11, <1>12, <1>13, <1>14 DEF GuardNext
<1>. QED
  BY <1>6, <1>15

\* However requests, gateways and failures interleave, an account answers fewer wrong
\* passwords than the threshold, the parallel requests and the failures together
\* between two lives of its counter, and a counter without expiry is the work of a
\* failure (auth.py:167-169, gateway/main.py:432-446).
THEOREM GuardHolds == GuardSpec => []LockoutBound
<1>1. GuardInit /\ GuardTypeOK => GuardInv
  BY KeptInit DEF GuardInv
<1>2. GuardInv /\ GuardTypeOK' /\ [GuardNext]_guardVars => GuardInv'
  BY KeptStep, CounterEndsStep DEF GuardInv
<1>3. GuardInv => LockoutBound
  <2> SUFFICES ASSUME GuardInv, NEW a \in Account
               PROVE  tries[a] < LockAfter + Cardinality(Request) + glitches
    BY DEF GuardInv, LockoutBound, TriesBounded
  <2>1. Cardinality(Those(login, "open", a)) \in Nat /\ Cardinality(Request) \in Nat
    BY ThoseFinite
  <2>. QED
    BY <2>1, GuardAssumption DEF GuardInv, GuardTypeOK, Kept
<1>. QED
  BY <1>1, <1>2, <1>3, GuardTypes, PTL DEF GuardSpec

(***************************************************************************)
(* Tokens.  Whoever comes after an exchange finds the refresh token on the *)
(* blacklist, but for failures.                                            *)
(***************************************************************************)

Refresh(p) == <<p, "refresh">>

\* The requests that are past the check and will exchange the refresh token of p.
RotatingIn(calls, p) == {c \in Call : calls[c].pc = "rotate" /\ calls[c].token = Refresh(p)}

LEMMA RotatingFinite ==
    ASSUME NEW calls, NEW p
    PROVE  /\ IsFiniteSet(RotatingIn(calls, p))
           /\ Cardinality(RotatingIn(calls, p)) \in Nat
           /\ Cardinality(Call) \in Nat
           /\ Cardinality(RotatingIn(calls, p)) <= Cardinality(Call)
<1>1. RotatingIn(calls, p) \in SUBSET Call
  BY DEF RotatingIn
<1>2. IsFiniteSet(Call) /\ Cardinality(Call) \in Nat
  BY TokenAssumption, FS_CardinalityType
<1>3. IsFiniteSet(RotatingIn(calls, p)) /\ Cardinality(RotatingIn(calls, p)) <= Cardinality(Call)
  BY <1>1, <1>2, FS_Subset
<1>. QED
  BY <1>2, <1>3, FS_CardinalityType

\* One request changes: there is at most one more ...
LEMMA OneJoins ==
    ASSUME NEW old, NEW new, NEW p, NEW c \in Call,
           \A d \in Call \ {c} : new[d] = old[d]
    PROVE  Cardinality(RotatingIn(new, p)) <= Cardinality(RotatingIn(old, p)) + 1
<1>1. RotatingIn(new, p) \in SUBSET (RotatingIn(old, p) \cup {c})
  BY DEF RotatingIn
<1>2. /\ IsFiniteSet(RotatingIn(old, p) \cup {c})
      /\ Cardinality(RotatingIn(old, p) \cup {c}) <= Cardinality(RotatingIn(old, p)) + 1
  BY RotatingFinite, FS_AddElement
<1>3. Cardinality(RotatingIn(new, p)) <= Cardinality(RotatingIn(old, p) \cup {c})
  BY <1>1, <1>2, FS_Subset
<1>4. Cardinality(RotatingIn(old, p) \cup {c}) \in Nat
  BY <1>2, FS_CardinalityType
<1>. QED
  BY <1>2, <1>3, <1>4, RotatingFinite

\* ... and one less, if it was among them and is not any more ...
LEMMA OneLeaves ==
    ASSUME NEW old, NEW new, NEW p, NEW c \in Call,
           \A d \in Call \ {c} : new[d] = old[d],
           c \in RotatingIn(old, p), c \notin RotatingIn(new, p)
    PROVE  Cardinality(RotatingIn(new, p)) = Cardinality(RotatingIn(old, p)) - 1
<1>1. RotatingIn(new, p) = RotatingIn(old, p) \ {c}
  BY DEF RotatingIn
<1>. QED
  BY <1>1, RotatingFinite, FS_RemoveElement

\* ... and no more, if it is not among them.
LEMMA NoneJoins ==
    ASSUME NEW old, NEW new, NEW p, NEW c \in Call,
           \A d \in Call \ {c} : new[d] = old[d],
           c \notin RotatingIn(new, p)
    PROVE  Cardinality(RotatingIn(new, p)) <= Cardinality(RotatingIn(old, p))
<1>1. RotatingIn(new, p) \in SUBSET RotatingIn(old, p)
  BY DEF RotatingIn
<1>. QED
  BY <1>1, RotatingFinite, FS_Subset

-----------------------------------------------------------------------------

LEMMA TokenTypes == TokenSpec => []TokenTypeOK
<1>1. TokenInit => TokenTypeOK
  BY DEF TokenInit, TokenTypeOK, NoCall, Calls
<1>2. TokenTypeOK /\ [TokenNext]_tokenVars => TokenTypeOK'
  <2> SUFFICES ASSUME TokenTypeOK, [TokenNext]_tokenVars PROVE TokenTypeOK'
    OBVIOUS
  <2> USE TokenAssumption DEF TokenTypeOK
  <2>1. ASSUME NEW p \in Pair, IssueAtLogin(p) PROVE TokenTypeOK'
    BY <2>1 DEF IssueAtLogin, Issue, Token
  <2>2. ASSUME NEW t \in Token, TokenAges(t) PROVE TokenTypeOK'
    BY <2>2 DEF TokenAges
  <2>3. ASSUME NEW c \in Call, NEW t \in Token, NEW use \in Uses, Start(c, t, use)
        PROVE  TokenTypeOK'
    <3>1. outages' \in Nat
      BY <2>3 DEF Start, Outage
    <3>2. [pc |-> use, token |-> t] \in Calls
      BY DEF Calls
    <3>. QED
      BY <2>3, <3>1, <3>2 DEF Start
  <2>4. ASSUME NEW c \in Call, NEW p \in Pair, Rotate(c, p) PROVE TokenTypeOK'
    <3>1. call[c].token \in Token
      BY <2>4 DEF Rotate, In, Calls, NoCall
    <3>2. outages' \in Nat /\ black' \subseteq Token
      BY <2>4, <3>1 DEF Rotate, Outage, Blacklisted
    <3>3. call' \in [Call -> Calls]
      BY <2>4 DEF Rotate, Answers, Calls
    <3>4. call[c].token[1] \in Pair
      BY <3>1 DEF Token
    <3>5. rotated' \in [Pair -> Nat] /\ life' \in [Token -> {"none", "fresh", "last"}]
      BY <2>4, <3>4 DEF Rotate, Issue
    <3>. QED
      BY <3>2, <3>3, <3>5
  <2>5. ASSUME NEW c \in Call, Logout(c) PROVE TokenTypeOK'
    <3>1. call[c].token \in Token
      BY <2>5 DEF Logout, In, Calls, NoCall
    <3>. QED
      BY <2>5, <3>1 DEF Logout, Outage, Blacklisted, Answers, Calls
  <2>6. ASSUME NEW c \in Call, CallDies(c) PROVE TokenTypeOK'
    BY <2>6 DEF CallDies, Outage, Answers, Calls
  <2>7. CASE UNCHANGED tokenVars
    BY <2>7 DEF tokenVars
  <2>. QED
    BY <2>1, <2>2, <2>3, <2>4, <2>5, <2>6, <2>7 DEF TokenNext
<1>. QED
  BY <1>1, <1>2, PTL DEF TokenSpec

\* Only refresh tokens are exchanged.
RotateRefresh == \A c \in Call : call[c].pc = "rotate" => call[c].token[2] = "refresh"

\* As long as a fresh token is not on the blacklist, each of its exchanges took a
\* failure; once it is, the requests that are past the check may exchange it, too,
\* and further ones only after a failure.
Bounded(p) ==
    /\ rotated[p] <= Cardinality(Call) + outages
    /\ life[Refresh(p)] = "fresh" =>
          IF Refresh(p) \in black
          THEN rotated[p] + Cardinality(RotatingIn(call, p)) <= Cardinality(Call) + outages
          ELSE rotated[p] <= outages

TokenInv == TokenTypeOK /\ RotateRefresh /\ \A p \in Pair : Bounded(p)

LEMMA RotatedInit == TokenInit => RotateRefresh /\ \A p \in Pair : Bounded(p)
<1> SUFFICES ASSUME TokenInit PROVE RotateRefresh /\ \A p \in Pair : Bounded(p)
  OBVIOUS
<1>1. RotateRefresh
  BY DEF TokenInit, RotateRefresh, NoCall
<1>2. ASSUME NEW p \in Pair PROVE Bounded(p)
  <2>1. Refresh(p) \in Token
    BY DEF Token, Refresh
  <2>. QED
    BY <2>1, RotatingFinite DEF TokenInit, Bounded
<1>. QED
  BY <1>1, <1>2

\* A new pair starts with no exchange, and no request holds its tokens.
LEMMA IssueBounded ==
    ASSUME TokenInv, NEW p \in Pair, Unused(p), NEW old, NEW new,
           call = old, call' = new, outages' \in Nat, outages <= outages',
           RotatingIn(new, p) \subseteq RotatingIn(old, p), rotated'[p] = 0
    PROVE  Bounded(p)'
<1>1. \A c \in Call : ~(call[c].pc = "rotate" /\ call[c].token = Refresh(p))
  BY DEF Unused, Refresh, In
<1>2. RotatingIn(new, p) = {}
  BY <1>1 DEF RotatingIn
<1>3. Cardinality(RotatingIn(call', p)) = 0
  BY <1>2, FS_EmptySet
<1>4. Cardinality(Call) \in Nat
  BY RotatingFinite
<1>. QED
  BY <1>3, <1>4 DEF Bounded, TokenInv, TokenTypeOK

LEMMA RotatedStep ==
    ASSUME TokenInv, TokenTypeOK', [TokenNext]_tokenVars
    PROVE  RotateRefresh' /\ \A p \in Pair : Bounded(p)'
<1> USE TokenAssumption
<1>1. ASSUME NEW q \in Pair, IssueAtLogin(q)
      PROVE  RotateRefresh' /\ \A p \in Pair : Bounded(p)'
  <2>1. RotateRefresh'
    BY <1>1 DEF IssueAtLogin, TokenInv, RotateRefresh
  <2>2. ASSUME NEW p \in Pair, p # q PROVE Bounded(p)'
    <3>1. life'[Refresh(p)] = life[Refresh(p)] /\ rotated'[p] = rotated[p]
      BY <1>1, <2>2 DEF IssueAtLogin, Issue, TokenInv, TokenTypeOK, Refresh, Token
    <3>. QED
      BY <3>1, <1>1, <2>2 DEF IssueAtLogin, TokenInv, Bounded
  <2>3. Bounded(q)'
    <3>1. rotated'[q] = 0 /\ Unused(q) /\ call' = call /\ outages' = outages
      BY <1>1 DEF IssueAtLogin, Issue, TokenInv, TokenTypeOK
    <3>. QED
      BY <3>1, IssueBounded DEF TokenInv, TokenTypeOK
  <2>. QED
    BY <2>1, <2>2, <2>3
<1>2. ASSUME NEW t \in Token, TokenAges(t)
      PROVE  RotateRefresh' /\ \A p \in Pair : Bounded(p)'
  <2>1. RotateRefresh'
    BY <1>2 DEF TokenAges, TokenInv, RotateRefresh
  <2>2. ASSUME NEW p \in Pair PROVE Bounded(p)'
    <3>1. Refresh(p) \in Token
      BY DEF Refresh, Token
    <3>2. life'[Refresh(p)] = "fresh" => t # Refresh(p) /\ life[Refresh(p)] = "fresh"
      BY <1>2, <3>1 DEF TokenAges, TokenInv, TokenTypeOK, Valid
    <3>3. t # Refresh(p) => (Refresh(p) \in black' <=> Refresh(p) \in black)
      BY <1>2 DEF TokenAges
    <3>. QED
      BY <1>2, <2>2, <3>2, <3>3 DEF TokenAges, TokenInv, Bounded
  <2>. QED
    BY <2>1, <2>2
<1>3. ASSUME NEW c \in Call, NEW t \in Token, NEW use \in Uses, Start(c, t, use)
      PROVE  RotateRefresh' /\ \A p \in Pair : Bounded(p)'
  <2>1. call' = [call EXCEPT ![c] = [pc |-> use, token |-> t]] /\ call \in [Call -> Calls]
    BY <1>3 DEF Start, TokenInv, TokenTypeOK
  <2>2. RotateRefresh'
    BY <1>3, <2>1 DEF Start, TokenInv, RotateRefresh
  <2>3. ASSUME NEW p \in Pair PROVE Bounded(p)'
    <3> DEFINE now == call
               then == call'
    <3>1. Cardinality(RotatingIn(then, p)) <= Cardinality(RotatingIn(now, p)) + 1
      BY <2>1, OneJoins
    <3>2. CASE t = Refresh(p) /\ use = "rotate"
      <4>1. \/ t \notin black /\ outages' = outages
            \/ outages' = outages + 1
        BY <1>3 DEF Start, Outage
      <4>2. /\ Cardinality(RotatingIn(now, p)) \in Nat /\ Cardinality(RotatingIn(then, p)) \in Nat
            /\ Cardinality(Call) \in Nat
        BY RotatingFinite
      <4>3. rotated'[p] = rotated[p] /\ life' = life /\ black' = black /\ rotated[p] \in Nat
            /\ outages \in Nat
        BY <1>3, <2>3 DEF Start, TokenInv, TokenTypeOK
      <4>. QED
        BY <3>1, <3>2, <4>1, <4>2, <4>3, <2>3 DEF TokenInv, Bounded
    <3>3. CASE ~(t = Refresh(p) /\ use = "rotate")
      <4>1. c \notin RotatingIn(then, p)
        BY <3>3, <2>1 DEF RotatingIn
      <4>2. Cardinality(RotatingIn(then, p)) <= Cardinality(RotatingIn(now, p))
        BY <4>1, <2>1, NoneJoins
      <4>3. /\ Cardinality(RotatingIn(now, p)) \in Nat /\ Cardinality(RotatingIn(then, p)) \in Nat
            /\ Cardinality(Call) \in Nat
        BY RotatingFinite
      <4>4. rotated'[p] = rotated[p] /\ life' = life /\ black' = black /\ rotated[p] \in Nat
            /\ outages \in Nat /\ outages' \in Nat /\ outages <= outages'
        BY <1>3, <2>3 DEF Start, Outage, TokenInv, TokenTypeOK
      <4>. QED
        BY <4>2, <4>3, <4>4, <2>3 DEF TokenInv, Bounded
    <3>. QED
      BY <3>2, <3>3
  <2>. QED
    BY <2>2, <2>3
<1>4. ASSUME NEW c \in Call, NEW q \in Pair, Rotate(c, q)
      PROVE  RotateRefresh' /\ \A p \in Pair : Bounded(p)'
  <2> DEFINE now == call
             then == call'
             old == call[c].token
  <2>1. call' = [call EXCEPT ![c] = NoCall] /\ call \in [Call -> Calls] /\ call[c].pc = "rotate"
    BY <1>4 DEF Rotate, Answers, In, TokenInv, TokenTypeOK
  <2>2. RotateRefresh'
    BY <2>1 DEF TokenInv, RotateRefresh, NoCall
  <2>3. old \in Token /\ old[2] = "refresh" /\ old[1] \in Pair /\ old = Refresh(old[1])
    BY <2>1 DEF TokenInv, RotateRefresh, Calls, NoCall, Token, Refresh
  <2>4. c \notin RotatingIn(then, q) /\ \A p \in Pair : c \notin RotatingIn(then, p)
    BY <2>1 DEF RotatingIn, NoCall
  <2>5. /\ outages \in Nat /\ outages' \in Nat
        /\ \/ black' = Blacklisted(old) /\ outages' = outages
           \/ black' = black /\ outages' = outages + 1
    BY <1>4 DEF Rotate, Outage, TokenInv, TokenTypeOK
  <2>6. /\ Unused(q)
        /\ life' = [t \in Token |-> IF t[1] = q THEN "fresh" ELSE life[t]]
        /\ rotated' = [(IF life[old] = "fresh" THEN [rotated EXCEPT ![old[1]] = @ + 1] ELSE rotated)
                         EXCEPT ![q] = 0]
        /\ rotated \in [Pair -> Nat]
    BY <1>4 DEF Rotate, Issue, TokenInv, TokenTypeOK
  <2>7. q # old[1]
    BY <2>6, <2>1 DEF Unused, In
  <2>8. Bounded(q)'
    <3>1. RotatingIn(then, q) \subseteq RotatingIn(now, q)
      BY <2>1, <2>4 DEF RotatingIn
    <3>2. rotated'[q] = 0
      BY <2>6
    <3>. QED
      BY <3>1, <3>2, <2>5, <2>6, IssueBounded
  <2>9. ASSUME NEW p \in Pair, p # q PROVE Bounded(p)'
    <3>1. life'[Refresh(p)] = life[Refresh(p)]
      BY <2>6, <2>9 DEF Refresh, Token
    <3>2. /\ Cardinality(RotatingIn(now, p)) \in Nat /\ Cardinality(RotatingIn(then, p)) \in Nat
          /\ Cardinality(Call) \in Nat /\ rotated[p] \in Nat
          /\ Cardinality(RotatingIn(now, p)) <= Cardinality(Call)
      BY RotatingFinite, <2>6
    <3>3. CASE p = old[1]
      <4>1. c \in RotatingIn(now, p)
        BY <3>3, <2>1, <2>3 DEF RotatingIn
      <4>2. Cardinality(RotatingIn(then, p)) = Cardinality(RotatingIn(now, p)) - 1
        BY <4>1, <2>1, <2>4, OneLeaves
      <4>3. rotated'[p] = IF life[Refresh(p)] = "fresh" THEN rotated[p] + 1 ELSE rotated[p]
        BY <2>6, <2>9, <3>3, <2>3
      <4>4. CASE life[Refresh(p)] = "fresh"
        <5>1. \/ Refresh(p) \in black' /\ outages' = outages
              \/ black' = black /\ outages' = outages + 1
          BY <2>5, <4>4, <3>3, <2>3 DEF Blacklisted
        <5>. QED
          BY <5>1, <2>5, <4>2, <4>3, <4>4, <3>1, <3>2 DEF TokenInv, Bounded
      <4>5. CASE life[Refresh(p)] # "fresh"
        BY <4>5, <4>3, <3>1, <3>2, <2>5 DEF TokenInv, Bounded
      <4>. QED
        BY <4>4, <4>5
    <3>4. CASE p # old[1]
      <4>1. Cardinality(RotatingIn(then, p)) <= Cardinality(RotatingIn(now, p))
        BY <2>1, <2>4, NoneJoins
      <4>2. rotated'[p] = rotated[p]
        BY <2>6, <2>9, <3>4, <2>3
      <4>3. Refresh(p) \in black' <=> Refresh(p) \in black
        BY <2>5, <3>4, <2>3 DEF Blacklisted, Refresh
      <4>. QED
        BY <4>1, <4>2, <4>3, <3>1, <3>2, <2>5 DEF TokenInv, Bounded
    <3>. QED
      BY <3>3, <3>4
  <2>. QED
    BY <2>2, <2>8, <2>9
<1>5. ASSUME NEW c \in Call, Logout(c) \/ CallDies(c)
      PROVE  RotateRefresh' /\ \A p \in Pair : Bounded(p)'
  <2> DEFINE now == call
             then == call'
  <2>1. call' = [call EXCEPT ![c] = NoCall] /\ call \in [Call -> Calls]
    BY <1>5 DEF Logout, CallDies, Answers, TokenInv, TokenTypeOK
  <2>2. RotateRefresh'
    BY <2>1 DEF TokenInv, RotateRefresh, NoCall
  <2>3. ASSUME NEW p \in Pair PROVE Bounded(p)'
    <3>1. c \notin RotatingIn(then, p)
      BY <2>1 DEF RotatingIn, NoCall
    <3>2. Cardinality(RotatingIn(then, p)) <= Cardinality(RotatingIn(now, p))
      BY <2>1, <3>1, NoneJoins
    <3>3. /\ Cardinality(RotatingIn(now, p)) \in Nat /\ Cardinality(RotatingIn(then, p)) \in Nat
          /\ Cardinality(Call) \in Nat /\ rotated[p] \in Nat
          /\ Cardinality(RotatingIn(now, p)) <= Cardinality(Call)
      BY RotatingFinite DEF TokenInv, TokenTypeOK
    <3>4. /\ life' = life /\ rotated' = rotated /\ black \subseteq black'
          /\ outages \in Nat /\ outages' \in Nat /\ outages <= outages'
      BY <1>5 DEF Logout, CallDies, Outage, Blacklisted, TokenInv, TokenTypeOK
    <3>. QED
      BY <3>2, <3>3, <3>4 DEF TokenInv, Bounded
  <2>. QED
    BY <2>2, <2>3
<1>6. CASE UNCHANGED tokenVars
  BY <1>6 DEF tokenVars, TokenInv, RotateRefresh, Bounded
<1>. QED
  BY <1>1, <1>2, <1>3, <1>4, <1>5, <1>6 DEF TokenNext

\* For any number of refreshes, logouts and pairs: while Redis works, an exchanged
\* refresh token is on the blacklist for as long as it is fresh, and only requests that
\* had passed the check together exchange it (auth.py:278-292).
THEOREM ReplaysRefused == TokenSpec => []ReplayRefused
<1>1. TokenInit /\ TokenTypeOK => TokenInv
  BY RotatedInit DEF TokenInv
<1>2. TokenInv /\ TokenTypeOK' /\ [TokenNext]_tokenVars => TokenInv'
  BY RotatedStep DEF TokenInv
<1>3. TokenInv => ReplayRefused
  <2>. SUFFICES ASSUME TokenInv, outages = 0,
                       NEW t \in Token, life[t] = "fresh", rotated[t[1]] > 0, t[2] = "refresh"
                PROVE  /\ t \in black
                       /\ rotated[t[1]] + Cardinality(Rotating(t)) <= Cardinality(Call)
    BY DEF ReplayRefused
  <2>1. t[1] \in Pair /\ t = Refresh(t[1])
    BY DEF Token, Refresh
  <2>2. Rotating(t) = RotatingIn(call, t[1])
    BY <2>1 DEF Rotating, RotatingIn, In
  <2>3. Bounded(t[1]) /\ rotated[t[1]] \in Nat
    BY <2>1 DEF TokenInv, TokenTypeOK
  <2>4. /\ Cardinality(RotatingIn(call, t[1])) \in Nat
        /\ Cardinality(Call) \in Nat
    BY RotatingFinite
  <2>5. Refresh(t[1]) \in black
    BY <2>1, <2>3 DEF Bounded
  <2>6. rotated[t[1]] + Cardinality(RotatingIn(call, t[1])) <= Cardinality(Call) + 0
    BY <2>1, <2>3, <2>5 DEF Bounded
  <2>. QED
    BY <2>1, <2>2, <2>3, <2>4, <2>5, <2>6
<1>. QED
  BY <1>1, <1>2, <1>3, TokenTypes, PTL DEF TokenSpec

(***************************************************************************)
(* The signup of tenants.                                                  *)
(***************************************************************************)

Entered ==
    /\ owners \in Seq(Email) /\ Distinct(owners) /\ Range(owners) \subseteq users
    /\ signup \in [Signup -> {Waiting} \cup [pc : {"free", "token"}, email : Email]]

LEMMA EnteredStep == Entered /\ [SignupNext]_signupVars => Entered'
<1>. SUFFICES ASSUME Entered, [SignupNext]_signupVars PROVE Entered'
  OBVIOUS
<1>1. ASSUME NEW s \in Signup, NEW e \in Email, StartSignup(s, e) PROVE Entered'
  <2>1. [pc |-> "free", email |-> e] \in [pc : {"free", "token"}, email : Email]
    OBVIOUS
  <2>. QED
    BY <1>1, <2>1 DEF StartSignup, Entered
<1>2. ASSUME NEW s \in Signup, InsertTenant(s) PROVE Entered'
  <2>1. /\ signup[s].pc = "free" /\ signup[s] \in {Waiting} \cup [pc : {"free", "token"}, email : Email]
    BY <1>2 DEF InsertTenant, Entered
  <2>2. PICK e \in Email : signup[s] = [pc |-> "free", email |-> e]
    BY <2>1 DEF Waiting
  <2>3. CASE UNCHANGED <<owners, users>>
    <3>1. signup' = [signup EXCEPT ![s] = Waiting] \/ signup' = [signup EXCEPT ![s].pc = "token"]
      BY <1>2 DEF InsertTenant
    <3>2. [signup[s] EXCEPT !.pc = "token"] \in [pc : {"free", "token"}, email : Email]
      BY <2>2
    <3>. QED
      BY <2>3, <3>1, <3>2 DEF Entered
  <2>4. CASE /\ e \notin users /\ owners' = Append(owners, e) /\ users' = users \cup {e}
             /\ signup' = [signup EXCEPT ![s].pc = "token"]
    <3>1. [signup[s] EXCEPT !.pc = "token"] \in [pc : {"free", "token"}, email : Email]
      BY <2>2
    <3>2. /\ owners' \in Seq(Email) /\ Range(owners') = Range(owners) \cup {e} /\ Distinct(owners')
      BY <2>4, AppendRange DEF Entered
    <3>. QED
      BY <2>4, <3>1, <3>2 DEF Entered
  <2>5. signup[s].email = e
    BY <2>2
  <2>. QED
    BY <1>2, <2>3, <2>4, <2>5 DEF InsertTenant
<1>3. ASSUME NEW s \in Signup, StoreToken(s) PROVE Entered'
  BY <1>3 DEF StoreToken, Entered
<1>4. ASSUME NEW e \in Email, VerifyEmail(e) \/ TokenExpires(e) PROVE Entered'
  BY <1>4 DEF VerifyEmail, TokenExpires, Entered
<1>5. CASE UNCHANGED signupVars
  BY <1>5 DEF signupVars, Entered
<1>. QED
  BY <1>1, <1>2, <1>3, <1>4, <1>5 DEF SignupNext

\* No tenant is left without an owner, and no two have the same (gateway/main.py:325-372),
\* for any number of emails and of signups that race for them: the tenant's row and its
\* user's are written together or not at all.
THEOREM SignupHolds == SignupSpec => []TenantsOwned
<1>1. SignupInit => Entered
  BY EmptyRange DEF SignupInit, Entered
<1>2. Entered => TenantsOwned
  BY DEF Entered, TenantsOwned, Distinct, Range
<1>. QED
  BY <1>1, <1>2, EnteredStep, PTL DEF SignupSpec

(***************************************************************************)
(* The limit of a plan on sensors.                                         *)
(***************************************************************************)

Requests == [pc : {"idle"}] \cup [pc : {"counted"}, tenant : Tenant, count : Nat]
                \cup [pc : {"insert"}, tenant : Tenant]

Accounts ==
    /\ tenants \in [Tenant -> Row]
    /\ sensors \in [Tenant -> Nat] /\ granted \in [Tenant -> Nat]
    /\ create \in [Create -> Requests]
    /\ \A t \in Tenant : granted[t] >= MaxOf[tenants[t].plan] /\ granted[t] >= MaxOf["free"]

\* The requests that may still insert a sensor for t where the limit is h.
Pending(t, h) ==
    {c \in Create : \/ create[c].pc = "insert" /\ create[c].tenant = t
                    \/ create[c].pc = "counted" /\ create[c].tenant = t /\ create[c].count < h}

Within(t, h) ==
    \/ sensors[t] = 0 /\ Pending(t, h) = {}
    \/ sensors[t] + Cardinality(Pending(t, h)) < h + Cardinality(Create)

\* Not only for the limit granted but for every higher one, which may be granted yet.
Capped ==
    \A t \in Tenant : \/ granted[t] >= MaxOf[Unlimited]
                      \/ \A h \in Nat : h >= granted[t] => Within(t, h)

LEMMA PendingCount ==
    ASSUME NEW t, NEW h
    PROVE  /\ IsFiniteSet(Pending(t, h)) /\ Cardinality(Pending(t, h)) \in Nat
           /\ Cardinality(Create) \in Nat
<1>1. IsFiniteSet(Create) /\ Pending(t, h) \subseteq Create
  BY BillingAssumption DEF Pending
<1>2. IsFiniteSet(Pending(t, h))
  BY <1>1, FS_Subset
<1>. QED
  BY <1>1, <1>2, FS_CardinalityType

LEMMA AccountsStart == BillingInit => Accounts /\ Capped
<1>. SUFFICES ASSUME BillingInit PROVE Accounts /\ Capped
  OBVIOUS
<1>f. "free" \in DOMAIN MaxOf /\ MaxOf["free"] \in Nat
  BY BillingAssumption
<1>1. NewTenant \in Row
  BY <1>f DEF NewTenant, Row, Plan, TrialUsers
<1>2. NewTenant.plan = "free"
  BY DEF NewTenant
<1>3. [pc |-> "idle"] \in Requests
  BY DEF Requests
<1>4. Accounts
  <2>1. /\ \A t \in Tenant : tenants[t] = NewTenant /\ granted[t] = MaxOf["free"] /\ sensors[t] = 0
        /\ create \in [Create -> Requests] /\ tenants \in [Tenant -> Row]
        /\ sensors \in [Tenant -> Nat] /\ granted \in [Tenant -> Nat]
    BY <1>f, <1>1, <1>3 DEF BillingInit
  <2>. QED
    BY <1>f, <1>2, <2>1 DEF Accounts
<1>5. ASSUME NEW t \in Tenant, NEW h \in Nat PROVE Within(t, h)
  BY DEF BillingInit, Within, Pending
<1>. QED
  BY <1>4, <1>5 DEF Capped

\* Steps that change what tenants have signed up for.
LEMMA GrantStep ==
    ASSUME Accounts, Capped, UNCHANGED <<create, sensors>>,
           tenants' \in [Tenant -> Row], granted' \in [Tenant -> Nat],
           \A t \in Tenant : granted'[t] >= granted[t] /\ granted'[t] >= MaxOf[tenants'[t].plan]
    PROVE  Accounts' /\ Capped'
<1>f. /\ "free" \in DOMAIN MaxOf /\ "enterprise" \in DOMAIN MaxOf
      /\ MaxOf["free"] \in Nat /\ MaxOf["enterprise"] \in Nat
  BY BillingAssumption
<1>1. Accounts'
  BY <1>f DEF Accounts
<1>2. ASSUME NEW t \in Tenant, NEW h \in Nat, Within(t, h) PROVE Within(t, h)'
  <2>1. Pending(t, h)' = Pending(t, h)
    BY DEF Pending
  <2>. QED
    BY <1>2, <2>1 DEF Within
<1>3. ASSUME NEW t \in Tenant, granted[t] >= MaxOf[Unlimited] PROVE granted'[t] >= MaxOf[Unlimited]
  BY <1>3, <1>f DEF Accounts, Unlimited
<1>4. ASSUME NEW t \in Tenant, NEW h \in Nat, h >= granted'[t] PROVE h >= granted[t]
  BY <1>4 DEF Accounts
<1>5. Capped'
  BY <1>2, <1>3, <1>4 DEF Capped
<1>. QED
  BY <1>1, <1>5

LEMMA OnPlanRow ==
    ASSUME NEW row \in Row, NEW p \in Plan
    PROVE  OnPlan(row, p) \in Row /\ OnPlan(row, p).plan = p
<1>1. MaxOf[p] \in Nat
  BY BillingAssumption DEF Plan
<1>. QED
  BY <1>1 DEF OnPlan, Row

LEMMA ChangesStep ==
    ASSUME Accounts, Capped, NEW t \in Tenant, NEW row \in Row, Changes(t, row)
    PROVE  Accounts' /\ Capped'
<1>1. \A p \in Plan : MaxOf[p] \in Nat
  BY BillingAssumption DEF Plan
<1>2. row.plan \in Plan /\ MaxOf[row.plan] \in Nat
  BY <1>1 DEF Row
<1>3. tenants' = [tenants EXCEPT ![t] = row] /\ tenants' \in [Tenant -> Row]
  BY DEF Changes, Accounts
<1>4. /\ granted' = [granted EXCEPT ![t] = Higher(granted[t], MaxOf[row.plan])]
      /\ granted' \in [Tenant -> Nat]
  BY <1>2 DEF Changes, Accounts, Higher
<1>5. \A u \in Tenant : granted'[u] >= granted[u] /\ granted'[u] >= MaxOf[tenants'[u].plan]
  <2>. SUFFICES ASSUME NEW u \in Tenant
                PROVE  granted'[u] >= granted[u] /\ granted'[u] >= MaxOf[tenants'[u].plan]
    OBVIOUS
  <2>1. CASE u = t
    <3>1. granted'[u] = Higher(granted[t], MaxOf[row.plan]) /\ tenants'[u] = row
      BY <1>3, <1>4, <2>1 DEF Accounts
    <3>. QED
      BY <1>2, <2>1, <3>1 DEF Accounts, Higher
  <2>2. CASE u # t
    BY <1>3, <1>4, <2>2 DEF Accounts
  <2>. QED
    BY <2>1, <2>2
<1>6. UNCHANGED <<create, sensors>>
  BY DEF Changes, sensorVars
<1>. QED
  BY <1>3, <1>4, <1>5, <1>6, GrantStep

LEMMA EventStep ==
    ASSUME Accounts, Capped, NEW t \in Tenant, NEW p \in Plan,
           CheckoutCompleted(t, p) \/ SubscriptionUpdated(t, p) \/ SubscriptionDeleted(t)
    PROVE  Accounts' /\ Capped'
<1>1. tenants[t] \in Row /\ {"free", "pro"} \subseteq Plan
  BY BillingAssumption DEF Accounts, Plan
<1>2. CASE CheckoutCompleted(t, p)
  <2>1. PICK row : row = [tenants[t] EXCEPT !.customer = TRUE, !.status = "active"]
    OBVIOUS
  <2>2. row \in Row
    BY <1>1, <2>1 DEF Row
  <2>3. [row EXCEPT !.plan = "pro"] \in Row
    BY <1>1, <2>2 DEF Row
  <2>4. Changes(t, OnPlan(row, p)) \/ Changes(t, [row EXCEPT !.plan = "pro"])
    BY <1>2, <2>1 DEF CheckoutCompleted
  <2>. QED
    BY <2>2, <2>3, <2>4, OnPlanRow, ChangesStep
<1>3. CASE SubscriptionUpdated(t, p)
  <2>1. PICK base : base = IF p = tenants[t].plan THEN tenants[t] ELSE OnPlan(tenants[t], p)
    OBVIOUS
  <2>2. base \in Row
    BY <1>1, <2>1, OnPlanRow
  <2>3. PICK status \in {tenants[t].status, "active"} : Changes(t, [base EXCEPT !.status = status])
    BY <1>3, <2>1 DEF SubscriptionUpdated
  <2>4. [base EXCEPT !.status = status] \in Row
    BY <1>1, <2>2 DEF Row
  <2>. QED
    BY <2>3, <2>4, ChangesStep
<1>4. CASE SubscriptionDeleted(t)
  <2>1. OnPlan(tenants[t], "free") \in Row
    BY <1>1, OnPlanRow
  <2>2. [OnPlan(tenants[t], "free") EXCEPT !.status = "active"] \in Row
    BY <2>1 DEF Row
  <2>3. Changes(t, [OnPlan(tenants[t], "free") EXCEPT !.status = "active"])
    BY <1>4 DEF SubscriptionDeleted
  <2>. QED
    BY <2>2, <2>3, ChangesStep
<1>. QED
  BY <1>2, <1>3, <1>4

LEMMA TrialStep ==
    ASSUME Accounts, Capped, ExpireTrials \/ \E t \in Tenant : TrialDue(t)
    PROVE  Accounts' /\ Capped'
<1>f. MaxOf["free"] \in Nat /\ "free" \in Plan
  BY BillingAssumption DEF Plan
<1>1. UNCHANGED <<create, sensors, granted>>
  BY DEF ExpireTrials, TrialDue, sensorVars
<1>2. /\ tenants' \in [Tenant -> Row]
      /\ \A t \in Tenant : tenants'[t].plan \in {tenants[t].plan, "free"}
  <2>1. CASE \E t \in Tenant : TrialDue(t)
    <3>1. PICK t \in Tenant : tenants' = [tenants EXCEPT ![t].due = TRUE]
      BY <2>1 DEF TrialDue
    <3>2. [tenants[t] EXCEPT !.due = TRUE] \in Row /\ [tenants[t] EXCEPT !.due = TRUE].plan = tenants[t].plan
      BY DEF Accounts, Row
    <3>. QED
      BY <3>1, <3>2 DEF Accounts
  <2>2. CASE ExpireTrials
    <3>1. ASSUME NEW now \in Row, NEW loaded
          PROVE  Expired(now, loaded) \in Row /\ Expired(now, loaded).plan \in {now.plan, "free"}
      <4>1. PICK p, status, most :
                 /\ p = IF loaded.plan = "free" THEN now.plan ELSE "free"
                 /\ status = IF loaded.status = "active" THEN now.status ELSE "active"
                 /\ most = IF loaded.maxUsers = MaxOf["free"] THEN now.maxUsers ELSE MaxOf["free"]
        OBVIOUS
      <4>2. p \in Plan /\ status \in {"trial", "active"} /\ most \in Nat /\ p \in {now.plan, "free"}
        BY <1>f, <4>1 DEF Row
      <4>3. Expired(now, loaded) = [now EXCEPT !.plan = p, !.status = status, !.maxUsers = most]
        BY <4>1 DEF Expired
      <4>4. /\ [now EXCEPT !.plan = p, !.status = status, !.maxUsers = most] \in Row
            /\ [now EXCEPT !.plan = p, !.status = status, !.maxUsers = most].plan = p
        BY <4>2 DEF Row
      <4>. QED
        BY <4>2, <4>3, <4>4
    <3>2. tenants' = [t \in Tenant |->
                         IF \E s \in seen : s.tenant = t
                         THEN Expired(tenants[t], (CHOOSE s \in seen : s.tenant = t).row)
                         ELSE tenants[t]]
      BY <2>2 DEF ExpireTrials
    <3>3. \A t \in Tenant : tenants'[t] = tenants[t] \/ \E loaded : tenants'[t] = Expired(tenants[t], loaded)
      BY <3>2
    <3>4. \A t \in Tenant : tenants'[t] \in Row /\ tenants'[t].plan \in {tenants[t].plan, "free"}
      BY <3>1, <3>3 DEF Accounts
    <3>5. DOMAIN tenants' = Tenant /\ tenants' = [t \in DOMAIN tenants' |-> tenants'[t]]
      BY <3>2
    <3>. QED
      BY <3>4, <3>5
  <2>. QED
    BY <2>1, <2>2
<1>3. \A t \in Tenant : granted'[t] >= granted[t] /\ granted'[t] >= MaxOf[tenants'[t].plan]
  <2>. SUFFICES ASSUME NEW t \in Tenant
                PROVE  granted[t] >= granted[t] /\ granted[t] >= MaxOf[tenants'[t].plan]
    BY <1>1
  <2>1. granted[t] \in Nat /\ granted[t] >= MaxOf[tenants[t].plan] /\ granted[t] >= MaxOf["free"]
    BY DEF Accounts
  <2>. QED
    BY <1>2, <2>1
<1>4. granted' \in [Tenant -> Nat]
  BY <1>1 DEF Accounts
<1>. QED
  BY <1>1, <1>2, <1>3, <1>4, GrantStep

\* Steps of one request: it changes only what is pending of it.
LEMMA CountStep ==
    ASSUME Accounts, Capped, NEW c \in Create, NEW t \in Tenant, CountSensors(c, t)
    PROVE  Accounts' /\ Capped'
<1>1. /\ create[c].pc = "idle" /\ UNCHANGED <<tenants, sensors, granted>>
      /\ create' = [create EXCEPT ![c] = [pc |-> "counted", tenant |-> t, count |-> sensors[t]]]
  BY DEF CountSensors
<1>2. [pc |-> "counted", tenant |-> t, count |-> sensors[t]] \in Requests /\ sensors[t] \in Nat
  BY DEF Requests, Accounts
<1>3. Accounts'
  BY <1>1, <1>2 DEF Accounts
<1>4. /\ create'[c].pc = "counted" /\ create'[c].tenant = t /\ create'[c].count = sensors[t]
      /\ \A d \in Create \ {c} : create'[d] = create[d]
  BY <1>1 DEF Accounts
<1>5. ASSUME NEW u \in Tenant, NEW h \in Nat, Within(u, h) PROVE Within(u, h)'
  <2>1. CASE u = t /\ sensors[t] < h
    <3>1. c \notin Pending(u, h) /\ Pending(u, h)' = Pending(u, h) \cup {c}
      BY <1>1, <1>4, <2>1 DEF Pending
    <3>2. Pending(u, h)' \subseteq Create
      BY DEF Pending
    <3>3. Cardinality(Pending(u, h)') <= Cardinality(Create) /\ Cardinality(Pending(u, h)') \in Nat
      <4>1. IsFiniteSet(Create)
        BY BillingAssumption
      <4>. QED
        BY <3>2, <4>1, FS_Subset, FS_CardinalityType
    <3>4. Cardinality(Pending(u, h)') < h - sensors[t] + Cardinality(Create)
      BY <1>2, <2>1, <3>3, PendingCount
    <3>. QED
      BY <1>1, <1>2, <2>1, <3>3, <3>4, PendingCount DEF Within
  <2>2. CASE ~(u = t /\ sensors[t] < h)
    <3>1. Pending(u, h)' = Pending(u, h)
      BY <1>1, <1>2, <1>4, <2>2 DEF Pending
    <3>. QED
      BY <1>1, <1>5, <3>1 DEF Within
  <2>. QED
    BY <2>1, <2>2
<1>6. Capped'
  BY <1>1, <1>5 DEF Capped
<1>. QED
  BY <1>3, <1>6

\* Requests that stop pending leave room.
LEMMA FewerPending ==
    ASSUME NEW t \in Tenant, NEW h \in Nat, Accounts, Within(t, h), UNCHANGED sensors,
           Pending(t, h)' \subseteq Pending(t, h)
    PROVE  Within(t, h)'
<1>1. /\ IsFiniteSet(Pending(t, h)) /\ Cardinality(Pending(t, h)) \in Nat
      /\ Cardinality(Create) \in Nat
  BY PendingCount
<1>2. Cardinality(Pending(t, h)') <= Cardinality(Pending(t, h)) /\ Cardinality(Pending(t, h)') \in Nat
  BY <1>1, FS_Subset, FS_CardinalityType
<1>3. sensors[t] \in Nat
  BY DEF Accounts
<1>. QED
  BY <1>1, <1>2, <1>3 DEF Within

LEMMA CheckStep ==
    ASSUME Accounts, Capped, NEW c \in Create, CheckLimit(c)
    PROVE  Accounts' /\ Capped'
<1>1. create[c].pc = "counted" /\ UNCHANGED <<tenants, sensors, granted>>
  BY DEF CheckLimit
<1>2. create[c] \in Requests
  BY DEF Accounts
<1>3. PICK t \in Tenant, n \in Nat : create[c].tenant = t /\ create[c].count = n
  BY <1>1, <1>2 DEF Requests
<1>4. PICK next : next = IF OverLimit(tenants[t].plan, n)
                         THEN [pc |-> "idle"] ELSE [pc |-> "insert", tenant |-> t]
  OBVIOUS
<1>5. create' = [create EXCEPT ![c] = next] /\ next \in Requests
  BY <1>3, <1>4 DEF CheckLimit, Requests
<1>6. create'[c] = next /\ \A d \in Create \ {c} : create'[d] = create[d]
  BY <1>5 DEF Accounts
<1>7. Accounts'
  BY <1>1, <1>5 DEF Accounts
<1>8. tenants[t].plan \in Plan /\ MaxOf[tenants[t].plan] \in Nat
  BY BillingAssumption DEF Accounts, Row, Plan
<1>9. ASSUME NEW u \in Tenant, granted[u] < MaxOf[Unlimited],
             NEW h \in Nat, h >= granted[u], Within(u, h)
      PROVE  Within(u, h)'
  <2>1. CASE next = [pc |-> "idle"]
    <3>1. Pending(u, h)' \subseteq Pending(u, h)
      BY <1>6, <2>1 DEF Pending
    <3>. QED
      BY <1>1, <1>9, <3>1, FewerPending
  <2>2. CASE next = [pc |-> "insert", tenant |-> t] /\ u # t
    <3>1. Pending(u, h)' \subseteq Pending(u, h)
      BY <1>6, <2>2 DEF Pending
    <3>. QED
      BY <1>1, <1>9, <3>1, FewerPending
  <2>3. CASE next = [pc |-> "insert", tenant |-> t] /\ u = t
    <3>1. ~OverLimit(tenants[t].plan, n)
      BY <1>4, <2>3
    <3>2. granted[t] >= MaxOf[tenants[t].plan] /\ granted[t] \in Nat
      BY DEF Accounts
    <3>3. tenants[t].plan # Unlimited
      <4>1. MaxOf[Unlimited] \in Nat
        BY BillingAssumption DEF Unlimited
      <4>. QED
        BY <1>8, <1>9, <2>3, <3>2, <4>1
    <3>4. n < h
      BY <1>3, <1>8, <1>9, <2>3, <3>1, <3>2, <3>3 DEF OverLimit
    <3>5. Pending(u, h)' \subseteq Pending(u, h)
      BY <1>1, <1>3, <1>6, <2>3, <3>4 DEF Pending
    <3>. QED
      BY <1>1, <1>9, <3>5, FewerPending
  <2>. QED
    BY <1>4, <2>1, <2>2, <2>3
<1>10. Capped'
  <2>1. \A u \in Tenant : granted[u] \in Nat
    BY DEF Accounts
  <2>2. MaxOf[Unlimited] \in Nat
    BY BillingAssumption DEF Unlimited
  <2>. SUFFICES ASSUME NEW u \in Tenant, ~(granted[u] >= MaxOf[Unlimited]),
                       NEW h \in Nat, h >= granted[u]
                PROVE  Within(u, h)'
    BY <1>1 DEF Capped
  <2>3. granted[u] < MaxOf[Unlimited] /\ Within(u, h)
    BY <2>1, <2>2 DEF Capped
  <2>. QED
    BY <1>9, <2>3
<1>. QED
  BY <1>7, <1>10

LEMMA InsertStep ==
    ASSUME Accounts, Capped, NEW c \in Create, InsertSensor(c)
    PROVE  Accounts' /\ Capped'
<1>1. create[c].pc = "insert" /\ UNCHANGED <<tenants, granted>>
  BY DEF InsertSensor
<1>2. PICK t \in Tenant : create[c].tenant = t
  BY <1>1 DEF Accounts, Requests
<1>3. /\ sensors' = [sensors EXCEPT ![t] = sensors[t] + 1]
      /\ create' = [create EXCEPT ![c] = [pc |-> "idle"]]
  BY <1>2 DEF InsertSensor
<1>4. [pc |-> "idle"] \in Requests /\ sensors[t] + 1 \in Nat
  BY DEF Requests, Accounts
<1>5. Accounts'
  BY <1>1, <1>3, <1>4 DEF Accounts
<1>6. /\ create'[c].pc = "idle" /\ \A d \in Create \ {c} : create'[d] = create[d]
      /\ sensors'[t] = sensors[t] + 1 /\ \A u \in Tenant \ {t} : sensors'[u] = sensors[u]
  BY <1>3 DEF Accounts
<1>7. ASSUME NEW u \in Tenant, NEW h \in Nat, Within(u, h) PROVE Within(u, h)'
  <2>1. CASE u # t
    <3>1. Pending(u, h)' = Pending(u, h)
      BY <1>1, <1>2, <1>6, <2>1 DEF Pending
    <3>. QED
      BY <1>6, <1>7, <2>1, <3>1 DEF Within
  <2>2. CASE u = t
    <3>1. c \in Pending(u, h) /\ Pending(u, h)' = Pending(u, h) \ {c}
      BY <1>1, <1>2, <1>6, <2>2 DEF Pending
    <3>2. /\ IsFiniteSet(Pending(u, h)) /\ Cardinality(Pending(u, h)) \in Nat
          /\ Cardinality(Create) \in Nat
      BY PendingCount
    <3>3. Cardinality(Pending(u, h)') = Cardinality(Pending(u, h)) - 1
      BY <3>1, <3>2, FS_RemoveElement
    <3>4. sensors[t] \in Nat
      BY DEF Accounts
    <3>. QED
      BY <1>6, <1>7, <2>2, <3>1, <3>2, <3>3, <3>4 DEF Within
  <2>. QED
    BY <2>1, <2>2
<1>8. Capped'
  BY <1>1, <1>7 DEF Capped
<1>. QED
  BY <1>5, <1>8

LEMMA AccountsStep == Accounts /\ Capped /\ [BillingNext]_billingVars => Accounts' /\ Capped'
<1>. SUFFICES ASSUME Accounts, Capped, [BillingNext]_billingVars PROVE Accounts' /\ Capped'
  OBVIOUS
<1>1. ASSUME UNCHANGED <<tenants, create, sensors, granted>> PROVE Accounts' /\ Capped'
  BY <1>1 DEF Accounts, Capped, Within, Pending
<1>2. CASE \/ \E event \in Event : StripeSends(event)
           \/ SelectExpired \/ ExpireFails \/ UNCHANGED billingVars
  BY <1>1, <1>2 DEF StripeSends, SelectExpired, ExpireFails, sensorVars, billingVars
<1>3. ASSUME NEW t \in Tenant, NEW p \in Plan, CheckoutCompleted(t, p) \/ SubscriptionUpdated(t, p)
      PROVE  Accounts' /\ Capped'
  BY <1>3, EventStep
<1>4. ASSUME NEW t \in Tenant, SubscriptionDeleted(t) PROVE Accounts' /\ Capped'
  <2>1. "free" \in Plan
    BY BillingAssumption DEF Plan
  <2>. QED
    BY <1>4, <2>1, EventStep
<1>5. CASE ExpireTrials \/ \E t \in Tenant : TrialDue(t)
  BY <1>5, TrialStep
<1>6. ASSUME NEW c \in Create, NEW t \in Tenant, CountSensors(c, t) PROVE Accounts' /\ Capped'
  BY <1>6, CountStep
<1>7. ASSUME NEW c \in Create, CheckLimit(c) \/ InsertSensor(c) PROVE Accounts' /\ Capped'
  BY <1>7, CheckStep, InsertStep
<1>. QED
  BY <1>2, <1>3, <1>4, <1>5, <1>6, <1>7 DEF BillingNext

\* A tenant without the unlimited plan never has more sensors than the highest limit it
\* has had and the requests handled at a time, less one (gateway/main.py:588-610), for any
\* number of tenants, requests, events of Stripe and whatever the limits of the plans: for
\* every limit, what there is and what may still be inserted under it stay below.
THEOREM SensorLimit == BillingSpec => []SensorCap
<1>1. Accounts /\ Capped => SensorCap
  <2>. SUFFICES ASSUME Accounts, Capped, NEW t \in Tenant, ~(granted[t] >= MaxOf[Unlimited])
                PROVE  sensors[t] < granted[t] + Cardinality(Create) \/ sensors[t] = 0
    BY DEF SensorCap
  <2>1. granted[t] \in Nat /\ sensors[t] \in Nat
    BY DEF Accounts
  <2>2. Within(t, granted[t])
    BY <2>1 DEF Capped
  <2>. QED
    BY <2>1, <2>2, PendingCount DEF Within
<1>. QED
  BY <1>1, AccountsStart, AccountsStep, PTL DEF BillingSpec

(***************************************************************************)
(* The gate of a tenant, and the types that are left.                      *)
(***************************************************************************)

LEMMA GateTypes == GateSpec => []GateTypeOK
<1>1. GateInit => GateTypeOK
  BY DEF GateInit, GateTypeOK, Outside, Visits, TenantStatus
<1>2. GateTypeOK /\ [GateNext]_gateVars => GateTypeOK'
  <2> SUFFICES ASSUME GateTypeOK, [GateNext]_gateVars PROVE GateTypeOK'
    OBVIOUS
  <2> USE GateAssumption DEF GateTypeOK
  <2>1. Outside \in Visits
    BY DEF Outside, Visits
  <2>2. ASSUME NEW v \in Visit, NEW pc \in {"lookup", "miss", "read"},
               NEW status \in TenantStatus \cup {Uncached}, Walks(v, pc, status)
        PROVE  visit' \in [Visit -> Visits]
    <3>1. [pc |-> pc, status |-> status] \in Visits
      BY DEF Visits
    <3>. QED
      BY <2>2, <3>1 DEF Walks
  <2>3. ASSUME NEW v \in Visit, Leaves(v) PROVE visit' \in [Visit -> Visits]
    BY <2>1, <2>3 DEF Leaves
  <2>4. ASSUME Breaks PROVE breaks' \in Nat
    BY <2>4 DEF Breaks
  <2>5. ASSUME NEW v \in Visit, Enter(v) PROVE GateTypeOK'
    <3>1. visit' \in [Visit -> Visits]
      BY <2>2, <2>5 DEF Enter
    <3>. QED
      BY <2>5, <3>1 DEF Enter
  <2>6. ASSUME NEW v \in Visit, LookUp(v) PROVE GateTypeOK'
    <3>1. visit' \in [Visit -> Visits] /\ breaks' \in Nat
      BY <2>2, <2>3, <2>4, <2>6 DEF LookUp
    <3>. QED
      BY <2>6, <3>1 DEF LookUp
  <2>7. ASSUME NEW v \in Visit, ReadStanding(v) PROVE GateTypeOK'
    <3>1. visit' \in [Visit -> Visits]
      BY <2>2, <2>7 DEF ReadStanding
    <3>. QED
      BY <2>7, <3>1 DEF ReadStanding
  <2>8. ASSUME NEW v \in Visit, ReadFails(v) PROVE GateTypeOK'
    <3>1. visit' \in [Visit -> Visits] /\ breaks' \in Nat
      BY <2>3, <2>4, <2>8 DEF ReadFails
    <3>. QED
      BY <2>8, <3>1 DEF ReadFails
  <2>9. ASSUME NEW v \in Visit, CacheStanding(v) PROVE GateTypeOK'
    <3>1. visit' \in [Visit -> Visits] /\ breaks' \in Nat
      BY <2>3, <2>4, <2>9 DEF CacheStanding
    <3>2. visit[v].status \in TenantStatus \cup {Uncached}
      BY DEF Visits
    <3>. QED
      BY <2>9, <3>1, <3>2 DEF CacheStanding
  <2>10. CASE StatusExpires
    BY <2>10 DEF StatusExpires
  <2>11. CASE ChangeStatus
    BY <2>11 DEF ChangeStatus
  <2>12. CASE UNCHANGED gateVars
    BY <2>12 DEF gateVars
  <2>. QED
    BY <2>5, <2>6, <2>7, <2>8, <2>9, <2>10, <2>11, <2>12 DEF GateNext
<1>. QED
  BY <1>1, <1>2, PTL DEF GateSpec

LEMMA SignupTypes == SignupSpec => []SignupTypeOK
<1>1. SignupInit => SignupTypeOK
  BY DEF SignupInit, SignupTypeOK
<1>2. SignupTypeOK /\ [SignupNext]_signupVars => SignupTypeOK'
  <2> SUFFICES ASSUME SignupTypeOK, [SignupNext]_signupVars PROVE SignupTypeOK'
    OBVIOUS
  <2> DEFINE Steps == {Waiting} \cup [pc : {"free", "token"}, email : Email]
  <2>0. /\ owners \in Seq(Email \cup {NoOwner}) /\ users \subseteq Email /\ tokens \subseteq Email
        /\ verified \subseteq Email /\ signup \in [Signup -> Steps] /\ slips \in Nat
    BY DEF SignupTypeOK
  <2>s. ASSUME Slip PROVE slips' \in Nat
    BY <2>0, <2>s DEF Slip
  <2>e. ASSUME NEW s \in Signup, signup[s].pc # "idle"
        PROVE  \E e \in Email, pc \in {"free", "token"} : signup[s] = [pc |-> pc, email |-> e]
    <3>1. signup[s] \in Steps
      BY <2>0
    <3>. QED
      BY <2>e, <3>1 DEF Waiting
  <2>1. ASSUME NEW s \in Signup, NEW e \in Email, StartSignup(s, e) PROVE SignupTypeOK'
    <3>1. [pc |-> "free", email |-> e] \in Steps
      OBVIOUS
    <3>2. signup' \in [Signup -> Steps]
      BY <2>0, <2>1, <3>1 DEF StartSignup
    <3>. QED
      BY <2>0, <2>1, <3>2 DEF StartSignup, SignupTypeOK
  <2>2. ASSUME NEW s \in Signup, InsertTenant(s) PROVE SignupTypeOK'
    <3>1. PICK e \in Email, pc \in {"free", "token"} : signup[s] = [pc |-> pc, email |-> e]
      BY <2>2, <2>e DEF InsertTenant
    <3>2. signup[s].email = e
      BY <3>1
    <3>3. [signup[s] EXCEPT !.pc = "token"] \in Steps /\ Waiting \in Steps
      BY <3>1
    <3>4. signup' \in [Signup -> Steps]
      <4>1. signup' = [signup EXCEPT ![s] = Waiting] \/ signup' = [signup EXCEPT ![s].pc = "token"]
        BY <2>2 DEF InsertTenant
      <4>. QED
        BY <2>0, <3>3, <4>1
    <3>5. owners' \in Seq(Email \cup {NoOwner}) /\ users' \subseteq Email
      <4>1. \/ UNCHANGED <<owners, users>>
            \/ owners' = Append(owners, e) /\ users' = users \cup {e}
        BY <2>2, <3>2 DEF InsertTenant
      <4>. QED
        BY <2>0, <4>1
    <3>. QED
      BY <2>0, <2>2, <3>4, <3>5 DEF InsertTenant, SignupTypeOK
  <2>3. ASSUME NEW s \in Signup, StoreToken(s) PROVE SignupTypeOK'
    <3>1. signup[s].email \in Email
      <4>1. PICK e \in Email, pc \in {"free", "token"} : signup[s] = [pc |-> pc, email |-> e]
        BY <2>3, <2>e DEF StoreToken
      <4>. QED
        BY <4>1
    <3>2. signup' \in [Signup -> Steps]
      BY <2>0, <2>3 DEF StoreToken
    <3>3. tokens' \subseteq Email /\ slips' \in Nat
      BY <2>0, <2>3, <2>s, <3>1 DEF StoreToken
    <3>. QED
      BY <2>0, <2>3, <3>2, <3>3 DEF StoreToken, SignupTypeOK
  <2>4. ASSUME NEW e \in Email, VerifyEmail(e) PROVE SignupTypeOK'
    <3>1. tokens' \subseteq Email /\ slips' \in Nat
      BY <2>0, <2>4, <2>s DEF VerifyEmail
    <3>. QED
      BY <2>0, <2>4, <3>1 DEF VerifyEmail, SignupTypeOK
  <2>5. ASSUME NEW e \in Email, TokenExpires(e) PROVE SignupTypeOK'
    BY <2>0, <2>5 DEF TokenExpires, SignupTypeOK
  <2>6. CASE UNCHANGED signupVars
    BY <2>6 DEF signupVars, SignupTypeOK
  <2>. QED
    BY <2>1, <2>2, <2>3, <2>4, <2>5, <2>6 DEF SignupNext
<1>. QED
  BY <1>1, <1>2, PTL DEF SignupSpec

LEMMA BillingTypes == BillingSpec => []BillingTypeOK
<1>1. BillingInit => Accounts /\ Capped /\ stripe \subseteq Event
  BY AccountsStart DEF BillingInit
<1>2. Accounts /\ Capped /\ [BillingNext]_billingVars => Accounts' /\ Capped'
  BY AccountsStep
<1>3. stripe \subseteq Event /\ [BillingNext]_billingVars => (stripe \subseteq Event)'
  <2> SUFFICES ASSUME stripe \subseteq Event, [BillingNext]_billingVars PROVE stripe' \subseteq Event
    OBVIOUS
  <2>1. ASSUME NEW event \in Event, StripeSends(event) PROVE stripe' \subseteq Event
    BY <2>1 DEF StripeSends
  <2>2. ASSUME NEW t \in Tenant, NEW p \in Plan, CheckoutCompleted(t, p) \/ SubscriptionUpdated(t, p)
        PROVE  stripe' = stripe
    BY <2>2 DEF CheckoutCompleted, SubscriptionUpdated, Changes
  <2>3. ASSUME NEW t \in Tenant, SubscriptionDeleted(t) \/ TrialDue(t) PROVE stripe' = stripe
    BY <2>3 DEF SubscriptionDeleted, TrialDue, Changes
  <2>4. CASE SelectExpired \/ ExpireTrials \/ ExpireFails
    BY <2>4 DEF SelectExpired, ExpireTrials, ExpireFails
  <2>5. ASSUME NEW c \in Create, NEW t \in Tenant, CountSensors(c, t) PROVE stripe' = stripe
    BY <2>5 DEF CountSensors
  <2>6. ASSUME NEW c \in Create, CheckLimit(c) \/ InsertSensor(c) PROVE stripe' = stripe
    BY <2>6 DEF CheckLimit, InsertSensor
  <2>7. CASE UNCHANGED billingVars
    BY <2>7 DEF billingVars
  <2>. QED
    BY <2>1, <2>2, <2>3, <2>4, <2>5, <2>6, <2>7 DEF BillingNext
<1>4. Accounts /\ stripe \subseteq Event => BillingTypeOK
  BY DEF Accounts, BillingTypeOK
<1>. QED
  BY <1>1, <1>2, <1>3, <1>4, PTL DEF BillingSpec

(***************************************************************************)
(* The checker of trials.                                                  *)
(***************************************************************************)

\* Trials are of the free plan and have no customer, and so are the rows loaded.
Unpaid == /\ \A t \in Tenant : tenants[t].customer => tenants[t].status = "active"
          /\ \A t \in Tenant : tenants[t].status = "trial" => tenants[t].plan = "free"
          /\ \A s \in seen : s.row.plan = "free"

LEMMA UnpaidStart == BillingInit => Unpaid
<1>. SUFFICES ASSUME BillingInit PROVE Unpaid
  OBVIOUS
<1>1. \A t \in Tenant : tenants[t] = NewTenant
  BY DEF BillingInit
<1>2. ~NewTenant.customer /\ NewTenant.plan = "free"
  BY DEF NewTenant
<1>. QED
  BY <1>1, <1>2 DEF BillingInit, Unpaid

LEMMA ChangedPaid ==
    ASSUME Unpaid, tenants \in [Tenant -> Row], NEW t \in Tenant, NEW row,
           Changes(t, row), row.status = "active"
    PROVE  Unpaid'
<1>1. /\ tenants' = [tenants EXCEPT ![t] = row] /\ seen' = seen
  BY DEF Changes
<1>2. \A u \in Tenant : tenants'[u] = IF u = t THEN row ELSE tenants[u]
  BY <1>1
<1>. QED
  BY <1>1, <1>2 DEF Unpaid

LEMMA UnpaidEvents ==
    ASSUME Unpaid, tenants \in [Tenant -> Row], NEW t \in Tenant, NEW p \in Plan,
           CheckoutCompleted(t, p) \/ SubscriptionUpdated(t, p) \/ SubscriptionDeleted(t)
    PROVE  Unpaid'
<1>1. tenants[t] \in Row
  OBVIOUS
<1>2. CASE CheckoutCompleted(t, p)
  <2> DEFINE row == [tenants[t] EXCEPT !.customer = TRUE, !.status = "active"]
  <2>1. Changes(t, OnPlan(row, p)) \/ Changes(t, [row EXCEPT !.plan = "pro"])
    BY <1>2 DEF CheckoutCompleted
  <2>2. OnPlan(row, p).status = "active" /\ [row EXCEPT !.plan = "pro"].status = "active"
    BY <1>1 DEF OnPlan, Row
  <2> HIDE DEF row
  <2>. QED
    BY <2>1, <2>2, ChangedPaid
<1>3. CASE SubscriptionUpdated(t, p)
  <2> DEFINE new == IF p = tenants[t].plan THEN tenants[t] ELSE OnPlan(tenants[t], p)
  <2>1. tenants[t].status = "active"
    BY <1>3 DEF SubscriptionUpdated, Unpaid
  <2>2. Changes(t, [new EXCEPT !.status = "active"])
    BY <1>3, <2>1 DEF SubscriptionUpdated
  <2>3. [new EXCEPT !.status = "active"].status = "active"
    BY <1>1 DEF OnPlan, Row
  <2> HIDE DEF new
  <2>. QED
    BY <2>2, <2>3, ChangedPaid
<1>4. CASE SubscriptionDeleted(t)
  <2>1. Changes(t, [OnPlan(tenants[t], "free") EXCEPT !.status = "active"])
    BY <1>4 DEF SubscriptionDeleted
  <2>2. [OnPlan(tenants[t], "free") EXCEPT !.status = "active"].status = "active"
    BY <1>1 DEF OnPlan, Row
  <2>. QED
    BY <2>1, <2>2, ChangedPaid
<1>. QED
  BY <1>2, <1>3, <1>4

LEMMA UnpaidExpire ==
    ASSUME Unpaid, tenants \in [Tenant -> Row], ExpireTrials
    PROVE  Unpaid' /\ \A t \in Tenant : tenants'[t].plan = tenants[t].plan
<1>1. ASSUME NEW t \in Tenant
      PROVE  /\ tenants'[t].plan = tenants[t].plan /\ tenants'[t].customer = tenants[t].customer
             /\ tenants'[t].status \in {tenants[t].status, "active"}
  <2>1. CASE \E s \in seen : s.tenant = t
    <3> DEFINE s == CHOOSE s \in seen : s.tenant = t
    <3>1. s \in seen
      BY <2>1
    <3>2. tenants'[t] = Expired(tenants[t], s.row)
      BY <2>1 DEF ExpireTrials
    <3>3. s.row.plan = "free"
      BY <3>1 DEF Unpaid
    <3> HIDE DEF s
    <3>. QED
      BY <3>2, <3>3 DEF Expired, Row
  <2>2. CASE ~\E s \in seen : s.tenant = t
    BY <2>2 DEF ExpireTrials
  <2>. QED
    BY <2>1, <2>2
<1>2. seen' = {}
  BY DEF ExpireTrials
<1>. QED
  BY <1>1, <1>2 DEF Unpaid

\* Steps of others leave the plans alone, or the rows loaded.
LEMMA UnpaidStep ==
    ASSUME Unpaid, tenants \in [Tenant -> Row], [BillingNext]_billingVars
    PROVE  Unpaid' /\ (seen' # seen => \A t \in Tenant : tenants'[t].plan = tenants[t].plan)
<1>1. ASSUME UNCHANGED <<tenants, seen>> PROVE Unpaid' /\ seen' = seen
  BY <1>1 DEF Unpaid
<1>2. ASSUME NEW event \in Event, StripeSends(event) PROVE Unpaid' /\ seen' = seen
  BY <1>1, <1>2 DEF StripeSends
<1>3. ASSUME NEW t \in Tenant, NEW p \in Plan, CheckoutCompleted(t, p) \/ SubscriptionUpdated(t, p)
      PROVE  Unpaid' /\ seen' = seen
  <2>1. seen' = seen
    BY <1>3 DEF CheckoutCompleted, SubscriptionUpdated, Changes
  <2>. QED
    BY <1>3, <2>1, UnpaidEvents
<1>4. ASSUME NEW t \in Tenant, SubscriptionDeleted(t) PROVE Unpaid' /\ seen' = seen
  <2>1. "free" \in Plan
    BY BillingAssumption DEF Plan
  <2>2. seen' = seen
    BY <1>4 DEF SubscriptionDeleted, Changes
  <2>. QED
    BY <1>4, <2>1, <2>2, UnpaidEvents
<1>5. ASSUME NEW t \in Tenant, TrialDue(t) PROVE Unpaid' /\ seen' = seen
  <2>1. /\ tenants' = [tenants EXCEPT ![t].due = TRUE] /\ seen' = seen
    BY <1>5 DEF TrialDue
  <2>2. \A u \in Tenant : /\ tenants'[u].plan = tenants[u].plan
                          /\ tenants'[u].status = tenants[u].status
                          /\ tenants'[u].customer = tenants[u].customer
    BY <2>1 DEF Row
  <2>. QED
    BY <2>1, <2>2 DEF Unpaid
<1>6. CASE SelectExpired
  <2>1. tenants' = tenants
    BY <1>6 DEF SelectExpired
  <2>2. ASSUME NEW s \in seen' PROVE s.row.plan = "free"
    <3>1. PICK t \in Tenant : tenants[t].status = "trial" /\ s = [tenant |-> t, row |-> tenants[t]]
      BY <1>6, <2>2 DEF SelectExpired
    <3>. QED
      BY <3>1 DEF Unpaid
  <2>. QED
    BY <2>1, <2>2 DEF Unpaid
<1>7. CASE ExpireTrials
  BY <1>7, UnpaidExpire
<1>8. CASE ExpireFails
  BY <1>8 DEF ExpireFails, Unpaid
<1>9. ASSUME NEW c \in Create, NEW t \in Tenant, CountSensors(c, t) PROVE Unpaid' /\ seen' = seen
  BY <1>1, <1>9 DEF CountSensors
<1>10. ASSUME NEW c \in Create, CheckLimit(c) \/ InsertSensor(c) PROVE Unpaid' /\ seen' = seen
  BY <1>1, <1>10 DEF CheckLimit, InsertSensor
<1>11. CASE UNCHANGED billingVars
  BY <1>1, <1>11 DEF billingVars
<1>. QED
  BY <1>2, <1>3, <1>4, <1>5, <1>6, <1>7, <1>8, <1>9, <1>10, <1>11 DEF BillingNext

\* The checker of trials never takes a plan away that a checkout brought in between its
\* two reads (trial_checker.py:65-96), for any number of tenants and events in any order:
\* it writes the plan of no row, since the rows it loads have the plan it wants.
THEOREM PlansKept == BillingSpec => PlanKeptByChecker
<1>1. BillingInit => Accounts /\ Capped /\ Unpaid
  BY AccountsStart, UnpaidStart
<1>2. Accounts /\ Capped /\ Unpaid /\ [BillingNext]_billingVars
         => Accounts' /\ Capped' /\ Unpaid'
  BY AccountsStep, UnpaidStep DEF Accounts
<1>3. Accounts /\ Unpaid /\ [BillingNext]_billingVars
         => [seen' # seen => \A t \in Tenant : tenants'[t].plan = tenants[t].plan]_billingVars
  BY UnpaidStep DEF Accounts
<1>. QED
  BY <1>1, <1>2, <1>3, PTL DEF BillingSpec, PlanKeptByChecker

(***************************************************************************)
(* The gate of a suspended tenant.                                         *)
(***************************************************************************)

\* Calls that have read "active" in the database and not written it to the cache yet.
Latecomers == {v \in Visit : visit[v].pc = "read" /\ visit[v].status = "active"}

\* While the tenant is suspended no call becomes a latecomer, and "active" comes into the
\* cache only from one of them, which is none any more: each brings it back once at most
\* (middleware.py:95-112).
SuspensionWears ==
    [][standing = "suspended" /\ standing' = "suspended"
         => /\ Latecomers' \subseteq Latecomers
            /\ cached # "active" /\ cached' = "active" => Latecomers' # Latecomers]_gateVars

\* What makes SuspensionBites true once the cache expires and the calls go on: for any
\* number of calls, changes of the status and failures.
THEOREM SuspensionHolds == GateSpec => SuspensionWears
<1> DEFINE Wears == standing = "suspended" /\ standing' = "suspended"
                      => /\ Latecomers' \subseteq Latecomers
                         /\ cached # "active" /\ cached' = "active" => Latecomers' # Latecomers
<1>1. GateTypeOK /\ [GateNext]_gateVars => [Wears]_gateVars
  <2>. SUFFICES ASSUME GateTypeOK, GateNext, standing = "suspended", standing' = "suspended"
                PROVE  /\ Latecomers' \subseteq Latecomers
                       /\ cached # "active" /\ cached' = "active" => Latecomers' # Latecomers
    OBVIOUS
  <2>1. DOMAIN visit = Visit
    BY DEF GateTypeOK
  <2>2. ASSUME NEW v \in Visit, NEW p, NEW s, p # "read" \/ s # "active",
               Walks(v, p, s)
        PROVE  Latecomers' \subseteq Latecomers /\ v \notin Latecomers'
    BY <2>1, <2>2 DEF Walks, Latecomers
  <2>3. Outside.pc = "idle"
    BY DEF Outside
  <2>4. ASSUME NEW v \in Visit, Leaves(v)
        PROVE  Latecomers' \subseteq Latecomers /\ v \notin Latecomers'
    BY <2>1, <2>3, <2>4 DEF Leaves, Latecomers
  <2>5. ASSUME visit' = visit PROVE Latecomers' = Latecomers
    BY <2>5 DEF Latecomers
  <2>6. ASSUME NEW v \in Visit, Enter(v) \/ LookUp(v) \/ ReadStanding(v) \/ ReadFails(v)
        PROVE  Latecomers' \subseteq Latecomers /\ cached' = cached
    <3>1. CASE Enter(v)
      BY <2>2, <3>1 DEF Enter
    <3>2. CASE LookUp(v)
      BY <2>2, <2>4, <3>2 DEF LookUp
    <3>3. CASE ReadStanding(v)
      BY <2>2, <3>3 DEF ReadStanding
    <3>4. CASE ReadFails(v)
      BY <2>4, <3>4 DEF ReadFails
    <3>. QED
      BY <2>6, <3>1, <3>2, <3>3, <3>4
  <2>7. ASSUME NEW v \in Visit, CacheStanding(v)
        PROVE  /\ Latecomers' \subseteq Latecomers
               /\ cached # "active" /\ cached' = "active" => Latecomers' # Latecomers
    <3>1. Latecomers' \subseteq Latecomers /\ v \notin Latecomers'
      BY <2>4, <2>7 DEF CacheStanding
    <3>2. cached # "active" /\ cached' = "active" => v \in Latecomers
      BY <2>7 DEF CacheStanding, Stands, Latecomers
    <3>. QED
      BY <3>1, <3>2
  <2>8. CASE StatusExpires \/ ChangeStatus
    BY <2>5, <2>8 DEF StatusExpires, ChangeStatus, Uncached
  <2>. QED
    BY <2>6, <2>7, <2>8 DEF GateNext
<1>. QED
  BY <1>1, GateTypes, PTL DEF GateSpec, SuspensionWears
=============================================================================
