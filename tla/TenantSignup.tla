------------------------------ MODULE TenantSignup ------------------------------
(***************************************************************************)
(* The signup of a tenant with its owner, and the verification of the      *)
(* owner's email.  Signups of one email race; the user's email is unique   *)
(* in the database.                                                        *)
(***************************************************************************)
EXTENDS Naturals, Sequences

CONSTANTS
    Email,        \* emails that sign up
    Signup,       \* signups handled at a time
    Tenants,      \* bound on the tenants
    SignupFaults  \* bound on failures of Redis and of the mail

ASSUME SignupAssumption == Tenants \in Nat /\ SignupFaults \in Nat

VARIABLES
    owners,   \* the table tenants, as far as it matters: per tenant its owner's email
    users,    \* the emails in the table users
    tokens,   \* verify:{token} in Redis, by email
    verified, \* the emails verified
    signup,   \* per signup: its progress and email
    slips     \* failures so far

signupVars == <<owners, users, tokens, verified, signup, slips>>

Waiting == [pc |-> "idle"]
NoOwner == "none"

SignupInit ==
    /\ owners = <<>>
    /\ users = {}
    /\ tokens = {}
    /\ verified = {}
    /\ signup = [s \in Signup |-> Waiting]
    /\ slips = 0

Slip == slips < SignupFaults /\ slips' = slips + 1

\* The email is looked up in a session of its own.
StartSignup(s, e) ==
    /\ signup[s].pc = "idle"
    /\ e \notin users
    /\ signup' = [signup EXCEPT ![s] = [pc |-> "free", email |-> e]]
    /\ UNCHANGED <<owners, users, tokens, verified, slips>>

\* Mutant: the tenant is committed before the user is added.
InsertTenantFirst(s) ==
    LET e == signup[s].email
    IN  /\ signup[s].pc = "free"
        /\ Len(owners) < Tenants
        /\ owners' = Append(owners, IF e \in users THEN NoOwner ELSE e)
        /\ users' = users \cup {e}
        /\ signup' = [signup EXCEPT ![s] = IF e \in users THEN Waiting ELSE [@ EXCEPT !.pc = "token"]]
        /\ UNCHANGED <<tokens, verified, slips>>

\* Tenant and owner are inserted in one transaction, which is rolled back if the
\* email has been taken meanwhile.
InsertTenant(s) ==
    LET e == signup[s].email
    IN  /\ signup[s].pc = "free"
        /\ Len(owners) < Tenants
        /\ \/ /\ e \notin users
              /\ owners' = Append(owners, e)
              /\ users' = users \cup {e}
              /\ signup' = [signup EXCEPT ![s].pc = "token"]
           \/ /\ e \in users
              /\ signup' = [signup EXCEPT ![s] = Waiting]
              /\ UNCHANGED <<owners, users>>
        /\ UNCHANGED <<tokens, verified, slips>>

\* The token is put into Redis and mailed; if that fails the account stays, and no
\* other request makes a token.
StoreToken(s) ==
    /\ signup[s].pc = "token"
    /\ \/ tokens' = tokens \cup {signup[s].email} /\ UNCHANGED slips
       \/ tokens' = tokens /\ Slip
    /\ signup' = [signup EXCEPT ![s] = Waiting]
    /\ UNCHANGED <<owners, users, verified>>

\* verify_email: the user first, then the token is deleted, which may fail.
VerifyEmail(e) ==
    /\ e \in tokens
    /\ verified' = verified \cup {e}
    /\ \/ tokens' = tokens \ {e} /\ UNCHANGED slips
       \/ tokens' = tokens /\ Slip
    /\ UNCHANGED <<owners, users, signup>>

TokenExpires(e) ==
    /\ e \in tokens
    /\ tokens' = tokens \ {e}
    /\ UNCHANGED <<owners, users, verified, signup, slips>>

SignupNext ==
    \/ \E s \in Signup, e \in Email : StartSignup(s, e)
    \/ \E s \in Signup : InsertTenant(s) \/ StoreToken(s)
    \/ \E e \in Email : VerifyEmail(e) \/ TokenExpires(e)

SignupSpec == SignupInit /\ [][SignupNext]_signupVars

-----------------------------------------------------------------------------

SignupTypeOK ==
    /\ owners \in Seq(Email \cup {NoOwner})
    /\ users \subseteq Email
    /\ tokens \subseteq Email
    /\ verified \subseteq Email
    /\ signup \in [Signup -> {Waiting} \cup [pc : {"free", "token"}, email : Email]]
    /\ slips \in Nat

\* Every tenant has an owner of its own, a user of it: whatever signups race for an
\* email, none leaves a tenant behind that nobody can enter (gateway/main.py:325-372).
TenantsOwned ==
    /\ \A t \in DOMAIN owners : owners[t] \in users
    /\ \A t, u \in DOMAIN owners : owners[t] = owners[u] => t = u
=============================================================================
