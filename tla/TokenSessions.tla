------------------------------ MODULE TokenSessions ------------------------------
(***************************************************************************)
(* What a login gives: a pair of an access and a refresh token, the        *)
(* exchange of the refresh token for a new pair, and the blacklist in      *)
(* Redis.  Tokens are signed and stateless: only their expiry and the      *)
(* blacklist end them.  A pair has a name while one of its tokens lives or *)
(* a request holds one.                                                    *)
(***************************************************************************)
EXTENDS Naturals, FiniteSets

CONSTANTS
    Pair,         \* names of pairs
    Call,         \* requests handled at a time
    TokenFaults   \* bound on failures of Redis and crashes of a gateway

ASSUME TokenAssumption ==
    /\ IsFiniteSet(Call)
    /\ TokenFaults \in Nat

Token == Pair \X {"access", "refresh"}

VARIABLES
    life,    \* per token: "none", "fresh", or "last" in the fraction of a second
             \* that int(exp - now) cuts off
    black,   \* token:blacklist:{jti}
    call,    \* per request: its progress and its token
    rotated, \* history: exchanges of each refresh token while it was fresh
    outages  \* failures so far

tokenVars == <<life, black, call, rotated, outages>>

NoCall == [pc |-> "idle"]
Uses   == {"rotate", "logout"}
Calls  == {NoCall} \cup [pc : Uses, token : Token]

TokenInit ==
    /\ life = [t \in Token |-> "none"]
    /\ black = {}
    /\ call = [c \in Call |-> NoCall]
    /\ rotated = [p \in Pair |-> 0]
    /\ outages = 0

In(c, pc)  == call[c].pc = pc
Answers(c) == call' = [call EXCEPT ![c] = NoCall]
Outage     == outages < TokenFaults /\ outages' = outages + 1

\* decode_jwt accepts a token until it expires.
Valid(t) == life[t] # "none"

\* The names that are free.
Unused(p) ==
    /\ \A t \in Token : t[1] = p => ~Valid(t)
    /\ \A c \in Call : ~In(c, "idle") => call[c].token[1] # p

\* create_access_token and create_refresh_token; counted is the history so far.
Issue(p, counted) ==
    /\ Unused(p)
    /\ life' = [t \in Token |-> IF t[1] = p THEN "fresh" ELSE life[t]]
    /\ rotated' = [counted EXCEPT ![p] = 0]

\* Mutant: the old token stays good.
BlacklistedNever(t) == black

\* blacklist_token: nothing to do for less than a second.
Blacklisted(t) == IF life[t] = "fresh" THEN black \cup {t} ELSE black

IssueAtLogin(p) ==
    /\ Issue(p, rotated)
    /\ UNCHANGED <<black, call, outages>>

\* The key on the blacklist lives a whole number of seconds, so it is gone in the
\* last fraction of the token's life.
TokenAges(t) ==
    /\ Valid(t)
    /\ life' = [life EXCEPT ![t] = IF @ = "fresh" THEN "last" ELSE "none"]
    /\ black' = black \ {t}
    /\ UNCHANGED <<call, rotated, outages>>

\* refresh_access_token and verify_jwt begin alike: the token is decoded, its type
\* is as it must be, and it is not on the blacklist, which a failing Redis skips.
Start(c, t, use) ==
    /\ In(c, "idle")
    /\ Valid(t)
    /\ t[2] = IF use = "rotate" THEN "refresh" ELSE "access"
    /\ \/ t \notin black /\ UNCHANGED outages
       \/ Outage
    /\ call' = [call EXCEPT ![c] = [pc |-> use, token |-> t]]
    /\ UNCHANGED <<life, black, rotated>>

\* The old token is blacklisted, then a new pair is made.
Rotate(c, p) ==
    /\ In(c, "rotate")
    /\ LET old == call[c].token
       IN  /\ \/ black' = Blacklisted(old) /\ UNCHANGED outages
              \/ black' = black /\ Outage
           /\ Issue(p, IF life[old] = "fresh" THEN [rotated EXCEPT ![old[1]] = @ + 1] ELSE rotated)
    /\ Answers(c)

\* The access token only: the refresh token of the pair stays good.
Logout(c) ==
    /\ In(c, "logout")
    /\ \/ black' = Blacklisted(call[c].token) /\ UNCHANGED outages
       \/ black' = black /\ Outage
    /\ Answers(c)
    /\ UNCHANGED <<life, rotated>>

CallDies(c) ==
    /\ ~In(c, "idle")
    /\ Outage
    /\ Answers(c)
    /\ UNCHANGED <<life, black, rotated>>

TokenNext ==
    \/ \E p \in Pair : IssueAtLogin(p)
    \/ \E t \in Token : TokenAges(t)
    \/ \E c \in Call, t \in Token, use \in Uses : Start(c, t, use)
    \/ \E c \in Call, p \in Pair : Rotate(c, p)
    \/ \E c \in Call : Logout(c) \/ CallDies(c)

TokenSpec == TokenInit /\ [][TokenNext]_tokenVars

-----------------------------------------------------------------------------

TokenTypeOK ==
    /\ life \in [Token -> {"none", "fresh", "last"}]
    /\ black \subseteq Token
    /\ call \in [Call -> Calls]
    /\ rotated \in [Pair -> Nat]
    /\ outages \in Nat

\* "the old refresh token is blacklisted and a new one is issued, preventing replay
\* attacks" (auth.py:265-266; "one-time use", auth.py:7): no refresh token is
\* exchanged twice.
SingleUse == \A p \in Pair : rotated[p] <= 1

\* The requests past the check with a refresh token in hand.
Rotating(t) == {c \in Call : In(c, "rotate") /\ call[c].token = t}

\* What rotation does achieve (auth.py:278-292): while Redis works, an exchanged token
\* that has more than its last fraction of a second to live is refused to whoever
\* comes later; only requests that had passed the check together can exchange it.
ReplayRefused ==
    outages = 0 =>
        \A t \in Token :
            life[t] = "fresh" /\ rotated[t[1]] > 0 /\ t[2] = "refresh" =>
                /\ t \in black
                /\ rotated[t[1]] + Cardinality(Rotating(t)) <= Cardinality(Call)
=============================================================================
