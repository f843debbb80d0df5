------------------------------- MODULE LoginGuard -------------------------------
(***************************************************************************)
(* A login at the web or the mobile gateway: the limiter of requests per   *)
(* client, the lock of the account after too many wrong passwords, the     *)
(* password, the status of the tenant.  Every await of the handler is a    *)
(* step, so requests interleave between the check of the lock, the check   *)
(* of the password and the count of the failure.  Redis may fail: every    *)
(* guard then lets the request pass, and a count may be lost.              *)
(***************************************************************************)
EXTENDS Naturals, FiniteSets

CONSTANTS
    Account,     \* emails with an account
    Request,     \* requests handled at a time
    Surface,     \* the gateways
    Limit,       \* per gateway: logins per client and window (max_requests)
    LockAfter,   \* ACCOUNT_LOCKOUT_THRESHOLD
    GuardFaults  \* bound on failures of Redis and crashes of a gateway

ASSUME GuardAssumption ==
    /\ IsFiniteSet(Request)
    /\ Limit \in [Surface -> Nat]
    /\ LockAfter \in Nat \ {0}
    /\ GuardFaults \in Nat

VARIABLES
    hits,      \* rate_limit:{ip}:{window}, one counter for every limiter
    failures,  \* auth:lockout:{email}; 0 when there is no key
    expiring,  \* the accounts whose counter has a time to live
    login,     \* per request: its progress, account and password
    tries,     \* history: wrong passwords checked since the counter last ended
    glitches   \* failures and crashes so far

guardVars == <<hits, failures, expiring, login, tries, glitches>>

Nobody  == [pc |-> "idle"]
Pcs     == {"limited", "open", "wrong", "first", "right", "cleared"}
Logins  == {Nobody} \cup [pc : Pcs, acct : Account]
Password == {"right", "wrong", "unknown"}  \* unknown: no active user of that email

GuardInit ==
    /\ hits = 0
    /\ failures = [a \in Account |-> 0]
    /\ expiring = {}
    /\ login = [r \in Request |-> Nobody]
    /\ tries = [a \in Account |-> 0]
    /\ glitches = 0

Highest == CHOOSE n \in {Limit[s] : s \in Surface} : \A s \in Surface : Limit[s] <= n

At(r, pc) == login[r].pc = pc
Goes(r, pc) == login' = [login EXCEPT ![r] = [pc |-> pc, acct |-> login[r].acct]]
Ends(r)     == login' = [login EXCEPT ![r] = Nobody]

Glitch == glitches < GuardFaults /\ glitches' = glitches + 1

(***************************************************************************)
(* The limiter.                                                            *)
(***************************************************************************)

\* A request counts, and counts also when it is refused.  Above the highest limit
\* the count makes no difference any more.
Counted == hits' = IF hits > Highest THEN hits ELSE hits + 1

Arrive(r, s, a) ==
    /\ At(r, "idle")
    /\ Counted
    /\ login' = IF hits + 1 > Limit[s] THEN login ELSE [login EXCEPT ![r] = [pc |-> "limited", acct |-> a]]
    /\ UNCHANGED <<failures, expiring, tries, glitches>>

\* Any other limited call of the client counts in the same key.
OtherCall ==
    /\ Counted
    /\ UNCHANGED <<failures, expiring, login, tries, glitches>>

\* Redis fails in the limiter: the request passes uncounted.
ArriveUnlimited(r, a) ==
    /\ At(r, "idle")
    /\ Glitch
    /\ login' = [login EXCEPT ![r] = [pc |-> "limited", acct |-> a]]
    /\ UNCHANGED <<hits, failures, expiring, tries>>

WindowTurns ==
    /\ hits > 0
    /\ hits' = 0
    /\ UNCHANGED <<failures, expiring, login, tries, glitches>>

(***************************************************************************)
(* The lock of the account.                                                *)
(***************************************************************************)

\* Mutant: locked above the threshold, not at it.
IsLockedLate(a) == failures[a] > LockAfter

IsLocked(a) == failures[a] >= LockAfter

CheckLock(r) ==
    /\ At(r, "limited")
    /\ \/ ~IsLocked(login[r].acct) /\ Goes(r, "open")
       \/ IsLocked(login[r].acct) /\ Ends(r)
    /\ UNCHANGED <<hits, failures, expiring, tries, glitches>>

CheckLockFails(r) ==
    /\ At(r, "limited")
    /\ Glitch
    /\ Goes(r, "open")
    /\ UNCHANGED <<hits, failures, expiring, tries>>

\* The user is read and the password checked; a right one is committed as the
\* last login.
CheckPassword(r, p) ==
    /\ At(r, "open")
    /\ CASE p = "right"   -> Goes(r, "right") /\ UNCHANGED tries
         [] p = "wrong"   -> Goes(r, "wrong") /\ tries' = [tries EXCEPT ![login[r].acct] = @ + 1]
         [] p = "unknown" -> Ends(r) /\ UNCHANGED tries
    /\ UNCHANGED <<hits, failures, expiring, glitches>>

\* record_failed_login: INCR, and EXPIRE by the request that found no key.
RecordFailure(r) ==
    /\ At(r, "wrong")
    /\ failures' = [failures EXCEPT ![login[r].acct] = @ + 1]
    /\ IF failures[login[r].acct] = 0 THEN Goes(r, "first") ELSE Ends(r)
    /\ UNCHANGED <<hits, expiring, tries, glitches>>

ExpireCounter(r) ==
    /\ At(r, "first")
    /\ expiring' = IF failures[login[r].acct] > 0 THEN expiring \cup {login[r].acct} ELSE expiring
    /\ Ends(r)
    /\ UNCHANGED <<hits, failures, tries, glitches>>

\* Either call may fail, or the gateway crash in between: the error is swallowed.
RecordFails(r) ==
    /\ At(r, "wrong") \/ At(r, "first")
    /\ Glitch
    /\ Ends(r)
    /\ UNCHANGED <<hits, failures, expiring, tries>>

EndsCounter(a) ==
    /\ failures' = [failures EXCEPT ![a] = 0]
    /\ expiring' = expiring \ {a}
    /\ tries' = [tries EXCEPT ![a] = 0]

CounterExpires(a) ==
    /\ a \in expiring
    /\ EndsCounter(a)
    /\ UNCHANGED <<hits, login, glitches>>

\* clear_failed_logins
ClearFailures(r) ==
    /\ At(r, "right")
    /\ EndsCounter(login[r].acct)
    /\ Goes(r, "cleared")
    /\ UNCHANGED <<hits, glitches>>

ClearFails(r) ==
    /\ At(r, "right")
    /\ Glitch
    /\ Goes(r, "cleared")
    /\ UNCHANGED <<hits, failures, expiring, tries>>

\* The tenant's status is read; the tokens are made, or the login refused.
FinishLogin(r) ==
    /\ At(r, "cleared")
    /\ Ends(r)
    /\ UNCHANGED <<hits, failures, expiring, tries, glitches>>

GuardNext ==
    \/ \E r \in Request, s \in Surface, a \in Account : Arrive(r, s, a)
    \/ \E r \in Request, a \in Account : ArriveUnlimited(r, a)
    \/ OtherCall \/ WindowTurns
    \/ \E r \in Request : CheckLock(r) \/ CheckLockFails(r)
    \/ \E r \in Request, p \in Password : CheckPassword(r, p)
    \/ \E r \in Request : RecordFailure(r) \/ ExpireCounter(r) \/ RecordFails(r)
    \/ \E a \in Account : CounterExpires(a)
    \/ \E r \in Request : ClearFailures(r) \/ ClearFails(r) \/ FinishLogin(r)

GuardSpec == GuardInit /\ [][GuardNext]_guardVars

-----------------------------------------------------------------------------

GuardTypeOK ==
    /\ hits \in Nat
    /\ failures \in [Account -> Nat]
    /\ expiring \subseteq Account
    /\ login \in [Request -> Logins]
    /\ tries \in [Account -> Nat]
    /\ glitches \in Nat

\* However the requests interleave, an account answers fewer wrong passwords
\* between two lives of its counter than the threshold and the requests handled at
\* a time together; every failure of Redis may add one.  The lock is checked before
\* the password and counted after it (gateway/main.py:432-446).
TriesBounded ==
    \A a \in Account : tries[a] < LockAfter + Cardinality(Request) + glitches

\* A counter that will never expire, which would lock the account for good, is left
\* only by a failure between INCR and EXPIRE (auth.py:167-169).
CounterEnds ==
    \A a \in Account :
        failures[a] > 0 /\ a \notin expiring =>
            glitches > 0 \/ \E r \in Request : At(r, "first") /\ login[r].acct = a

\* The lockout comes in time, and ends: TriesBounded and CounterEnds.
LockoutBound == TriesBounded /\ CounterEnds
=============================================================================
