------------------------------- MODULE OfflineQueue -------------------------------
(***************************************************************************)
(* The mobile app's queue of decisions that could not be sent: it is kept  *)
(* in the preferences, flushed when the network is back, at a start of the *)
(* app and after a login, and cleared by a logout.  The app runs one event *)
(* loop: handlers are interrupted only where they await.                   *)
(***************************************************************************)
EXTENDS Naturals, Sequences, SequencesExt, FiniteSets

CONSTANTS
    Decision,  \* decisions of analysts, each submitted once
    Sessions,  \* bound on logins: session n is of the analyst of login n
    NetFaults, \* bound on network errors
    Kills      \* bound on ends of the app

ASSUME QueueAssumption == {Sessions, NetFaults, Kills} \subseteq Nat

VARIABLES
    session,  \* whose token is in the secure storage; 0 for nobody's
    logins,   \* logins so far
    leaving,  \* how far logout is
    active,   \* _active: flushing is not paused
    queue,    \* the queue in the preferences
    flush,    \* the flush going on: what it has read and not sent, what it keeps
    made,     \* per decision: who made it, and what became of the first attempt
    served,   \* per decision: in whose name the server took it, one entry each time
    fate,     \* decisions that the server refused, or a logout cleared
    during,     \* decisions queued while a flush was going on
    netFaults, kills

queueVars == <<session, logins, leaving, active, queue, flush, made, served, fate, during,
               netFaults, kills>>

NoFlush == [pc |-> "idle", rest |-> <<>>, survivors |-> <<>>, as |-> 0]

QueueInit ==
    /\ session = 0 /\ logins = 0 /\ leaving = "no" /\ active = TRUE
    /\ queue = <<>> /\ flush = NoFlush
    /\ made = [d \in Decision |-> [by |-> 0, pc |-> "new"]]
    /\ served = [d \in Decision |-> <<>>]
    /\ fate = [refused |-> {}, cleared |-> {}]
    /\ during = {}
    /\ netFaults = 0 /\ kills = 0

NetFault == netFaults < NetFaults /\ netFaults' = netFaults + 1
Idle == flush.pc = "idle"

Take(d, as) == served' = [served EXCEPT ![d] = Append(@, as)]

\* A timeout may come after the server has taken the decision.
Unreached(d, as) ==
    /\ NetFault
    /\ \/ UNCHANGED served
       \/ as > 0 /\ Take(d, as)

-----------------------------------------------------------------------------

SubmitDecision(d) ==
    /\ session > 0 /\ made[d].pc = "new"
    /\ made' = [made EXCEPT ![d] = [by |-> session, pc |-> "asking"]]
    /\ UNCHANGED <<session, logins, leaving, active, queue, flush, served, fate, during,
                   netFaults, kills>>

Answered(d) ==
    /\ made[d].pc = "asking"
    /\ \/ made' = [made EXCEPT ![d].pc = "done"] /\ Take(d, made[d].by)
       \/ made' = [made EXCEPT ![d].pc = "refused"] /\ UNCHANGED served
    /\ UNCHANGED <<session, logins, leaving, active, queue, flush, fate, during, netFaults, kills>>

\* The user is told that the decision is saved; whoever is logged in by now.
Enqueue(d) ==
    /\ made[d].pc = "asking"
    /\ Unreached(d, made[d].by)
    /\ made' = [made EXCEPT ![d].pc = "saved"]
    /\ queue' = Append(queue, d)
    /\ during' = IF Idle THEN during ELSE during \cup {d}
    /\ UNCHANGED <<session, logins, leaving, active, flush, fate, kills>>

\* _flush reads the queue; active and _isFlushing were checked.
Flushing == IF Idle /\ queue # <<>> THEN [NoFlush EXCEPT !.pc = "token", !.rest = queue] ELSE flush

Connected ==
    /\ active
    /\ flush' = Flushing
    /\ UNCHANGED <<session, logins, leaving, active, queue, made, served, fate, during,
                   netFaults, kills>>

\* The interceptor reads the token that is stored by now.
FlushSend ==
    /\ flush.pc = "token"
    /\ flush' = [flush EXCEPT !.pc = "sending", !.as = session]
    /\ UNCHANGED <<session, logins, leaving, active, queue, made, served, fate, during,
                   netFaults, kills>>

\* Mutant: a flush that was paused writes only what it has tried.
LoopTried(rest, survivors) ==
    IF rest = <<>> \/ ~active
    THEN queue' = survivors /\ flush' = NoFlush
    ELSE /\ flush' = [pc |-> "token", rest |-> rest, survivors |-> survivors, as |-> 0]
         /\ UNCHANGED queue

\* All were tried, or the flush was paused: the queue is replaced by what is left of the
\* one that was read.
Loop(rest, survivors) ==
    IF rest = <<>> \/ ~active
    THEN queue' = survivors \o rest /\ flush' = NoFlush
    ELSE /\ flush' = [pc |-> "token", rest |-> rest, survivors |-> survivors, as |-> 0]
         /\ UNCHANGED queue

\* The decision was taken, or refused for good (a missing or expired token is refused,
\* too); or the network failed and the decision stays.
FlushSent ==
    LET d == Head(flush.rest)
    IN  /\ flush.pc = "sending"
        /\ \/ /\ flush.as > 0 /\ Take(d, flush.as)
              /\ Loop(Tail(flush.rest), flush.survivors)
              /\ UNCHANGED <<fate, netFaults>>
           \/ /\ fate' = [fate EXCEPT !.refused = @ \cup {d}]
              /\ Loop(Tail(flush.rest), flush.survivors)
              /\ UNCHANGED <<served, netFaults>>
           \/ /\ Unreached(d, flush.as)
              /\ Loop(Tail(flush.rest), Append(flush.survivors, d))
              /\ UNCHANGED fate
        /\ UNCHANGED <<session, logins, leaving, active, made, during, kills>>

-----------------------------------------------------------------------------

\* Login writes the token and resumes the queue.
Login ==
    /\ session = 0 /\ leaving = "no" /\ logins < Sessions
    /\ logins' = logins + 1 /\ session' = logins + 1
    /\ active' = TRUE
    /\ flush' = Flushing
    /\ UNCHANGED <<leaving, queue, made, served, fate, during, netFaults, kills>>

\* Logout pauses the queue, tells the server and wipes the token, clears the queue.
LogoutPause ==
    /\ session > 0 /\ leaving = "no"
    /\ active' = FALSE
    /\ leaving' = "revoking"
    /\ UNCHANGED <<session, logins, queue, flush, made, served, fate, during, netFaults, kills>>

LogoutWipe ==
    /\ leaving = "revoking"
    /\ session' = 0
    /\ leaving' = "clearing"
    /\ UNCHANGED <<logins, active, queue, flush, made, served, fate, during, netFaults, kills>>

LogoutClear ==
    /\ leaving = "clearing"
    /\ fate' = [fate EXCEPT !.cleared = @ \cup Range(queue)]
    /\ queue' = <<>>
    /\ leaving' = "no"
    /\ UNCHANGED <<session, logins, active, flush, made, served, during, netFaults, kills>>

\* A refresh of the token failed: the token is wiped and the login page shown.
ForceLogout ==
    /\ session > 0 /\ leaving = "no"
    /\ session' = 0
    /\ UNCHANGED <<logins, leaving, active, queue, flush, made, served, fate, during,
                   netFaults, kills>>

\* The app ends, and is started again; the preferences and the token survive.
Restart ==
    /\ kills < Kills /\ kills' = kills + 1
    /\ made' = [d \in Decision |-> IF made[d].pc = "asking" THEN [made[d] EXCEPT !.pc = "cut"]
                                                           ELSE made[d]]
    /\ active' = TRUE /\ leaving' = "no"
    /\ flush' = IF queue # <<>> THEN [NoFlush EXCEPT !.pc = "token", !.rest = queue] ELSE NoFlush
    /\ UNCHANGED <<session, logins, queue, served, fate, during, netFaults>>

QueueNext ==
    \/ \E d \in Decision : SubmitDecision(d) \/ Answered(d) \/ Enqueue(d)
    \/ Connected \/ FlushSend \/ FlushSent
    \/ Login \/ LogoutPause \/ LogoutWipe \/ LogoutClear \/ ForceLogout \/ Restart

QueueSpec == QueueInit /\ [][QueueNext]_queueVars

-----------------------------------------------------------------------------

QueueTypeOK ==
    /\ {session, logins} \subseteq 0 .. Sessions /\ active \in BOOLEAN
    /\ leaving \in {"no", "revoking", "clearing"}
    /\ {queue, flush.rest, flush.survivors} \subseteq Seq(Decision)
    /\ flush.pc \in {"idle", "token", "sending"} /\ flush.as \in 0 .. Sessions
    /\ made \in [Decision -> [by : 0 .. Sessions,
                              pc : {"new", "asking", "done", "refused", "saved", "cut"}]]
    /\ \A d \in Decision : served[d] \in Seq(1 .. Sessions)
    /\ fate.refused \cup fate.cleared \cup during \subseteq Decision
    /\ netFaults \in 0 .. NetFaults /\ kills \in 0 .. Kills

\* Still queued, or in the hands of the flush, or at an end the user knows of: taken or
\* refused by the server, cleared by a logout.
SafeOrEnded(d) ==
    \/ d \in Range(queue) \cup Range(flush.rest) \cup Range(flush.survivors)
    \/ served[d] # <<>>
    \/ d \in fate.refused \cup fate.cleared

\* "The queue is durable" (offline_queue_service.dart:54), and a saved decision "will be
\* automatically pushed to the server" (decision_cubit.dart:15-16): none just vanishes.
QueueDurable == \A d \in Decision : made[d].pc = "saved" => SafeOrEnded(d)

\* What is left of that promise (offline_queue_service.dart:95-109, 173-232): flushes,
\* pauses, restarts and logouts lose no saved decision but those that were saved while a
\* flush was going on, which QueueDurable is about; and a decision that is flushed again
\* after a timeout or a restart reaches the server no more often than these explain.
QueueKept ==
    \A d \in Decision :
      /\ made[d].pc = "saved" => SafeOrEnded(d) \/ d \in during
      /\ Len(served[d]) <= 1 + netFaults + kills

\* offline_queue_service.dart:134-135, "Call this on logout to prevent a new user's
\* session from inheriting decisions made by the previous analyst" (auth_cubit.dart:30-31,
\* "must not leak to the next user"): no decision is taken in another session's name.
NoInheritedDecision ==
    \A d \in Decision : Range(served[d]) \subseteq {made[d].by}
=============================================================================
