------------------------------- MODULE RealtimeHub -------------------------------
(***************************************************************************)
(* The WebSockets of one tenant and the broadcasts to them, in the mobile  *)
(* gateway (notifications, with a push when no socket took one) and in the *)
(* web gateway (telemetry, after which sockets that failed are removed).   *)
(* A broadcast walks the list of sockets by index and awaits every send;   *)
(* sockets join and leave the same list meanwhile.                         *)
(***************************************************************************)
EXTENDS Naturals, Sequences, SequencesExt, FiniteSets

CONSTANTS
    Socket,    \* WebSockets; one that left does not come back
    Messages,  \* bound on the messages broadcast
    Hubs,      \* the gateways considered
    HubFaults  \* bound on failing sends, pushes and acks

ASSUME HubAssumption ==
    Hubs \subseteq {"mobile", "web"} /\ Messages \in Nat /\ HubFaults \in Nat

VARIABLES
    hub,     \* the gateway
    socket,  \* per socket: its state
    conns,   \* connections[tenant_id]; <<>> when the tenant has no entry
    cast,    \* the broadcast going on: its progress, and what it did so far
    unsent,  \* messages not yet broadcast
    unacked, \* notifications that were read and not acknowledged
    misses   \* faults so far

hubVars == <<hub, socket, conns, cast, unsent, unacked, misses>>

\* list: whether it walks the list in conns, or one that was deleted from it;
\* next: the index of the next socket; sent: send_json calls that returned;
\* reached, failed: the sockets that were sent the message, or raised;
\* stayed: sockets open since it began; removed: removals from conns since.
Quiet == [pc |-> "idle", list |-> FALSE, next |-> 1, sent |-> 0, reached |-> {},
          failed |-> {}, stayed |-> {}, removed |-> 0, pushed |-> FALSE]

HubInit ==
    /\ hub \in Hubs
    /\ socket = [c \in Socket |-> "away"]
    /\ conns = <<>>
    /\ cast = Quiet
    /\ unsent = Messages
    /\ unacked = 0
    /\ misses = 0

Miss == misses < HubFaults /\ misses' = misses + 1
Busy == cast.pc # "idle"

\* The token and the tenant were checked: the socket is listed.
Connect(c) ==
    /\ socket[c] = "away"
    /\ socket' = [socket EXCEPT ![c] = "open"]
    /\ conns' = Append(conns, c)
    /\ UNCHANGED <<hub, cast, unsent, unacked, misses>>

Closed(c, how) ==
    /\ socket[c] = "open"
    /\ socket' = [socket EXCEPT ![c] = how]
    /\ cast' = [cast EXCEPT !.stayed = @ \ {c}]
    /\ UNCHANGED <<hub, conns, unsent, unacked, misses>>

\* The peer goes, or the watchdog closes the socket when its token expires; the
\* handler learns of it from its receive.
PeerGone(c) == Closed(c, "gone")
TokenEnds(c) == Closed(c, "closed")

\* A message that is too large: the socket is closed and its handler returns, without
\* disconnect.
Oversize(c) == Closed(c, "ghost")

\* What disconnect does to the list, and to a broadcast that walks it: those behind c
\* move up; a list that becomes empty is deleted, and the next socket gets a new one.
PlaceOf(c) == CHOOSE i \in DOMAIN conns : conns[i] = c
Without(c) == RemoveAt(conns, PlaceOf(c))
Removal(c) ==
    [cast EXCEPT !.list = @ /\ Without(c) # <<>>,
                 !.removed = IF Busy THEN @ + 1 ELSE @]

\* The handler's except clause: an error, or the end of the socket.
Disconnect(c) ==
    /\ socket[c] \in {"gone", "closed"}
    /\ c \in Range(conns)
    /\ conns' = Without(c)
    /\ cast' = Removal(c)
    /\ UNCHANGED <<hub, socket, unsent, unacked, misses>>

\* One read of the stream, or one round of telemetry.
StartBroadcast ==
    /\ ~Busy /\ unsent > 0
    /\ unsent' = unsent - 1
    /\ cast' = [Quiet EXCEPT !.pc = "sending", !.list = conns # <<>>,
                             !.stayed = {c \in Range(conns) : socket[c] = "open"}]
    /\ UNCHANGED <<hub, socket, conns, unacked, misses>>

More == cast.list /\ cast.next <= Len(conns)

\* Mutant: a socket that fails is removed at once, in the loop over the list.
SendNextRemoving ==
    LET c == conns[cast.next]
    IN  /\ cast.pc = "sending" /\ More
        /\ \/ /\ socket[c] # "ghost"
              /\ cast' = [cast EXCEPT !.next = @ + 1, !.sent = @ + 1, !.reached = @ \cup {c}]
              /\ UNCHANGED <<conns, misses>>
           \/ /\ socket[c] # "open" \/ misses < HubFaults
              /\ cast' = [cast EXCEPT !.next = @ + 1, !.failed = @ \cup {c}]
              /\ conns' = Without(c)
              /\ misses' = IF socket[c] = "open" THEN misses + 1 ELSE misses
        /\ UNCHANGED <<hub, socket, unsent, unacked>>

\* A send to an open socket may fail; one to a socket whose peer is gone may return;
\* one to a closed socket raises.
SendNext ==
    LET c == conns[cast.next]
    IN  /\ cast.pc = "sending" /\ More
        /\ \/ /\ socket[c] \in {"open", "gone"}
              /\ cast' = [cast EXCEPT !.next = @ + 1, !.sent = @ + 1, !.reached = @ \cup {c}]
              /\ UNCHANGED misses
           \/ /\ cast' = [cast EXCEPT !.next = @ + 1, !.failed = @ \cup {c}]
              /\ IF socket[c] = "open" THEN Miss ELSE UNCHANGED misses
        /\ UNCHANGED <<hub, socket, conns, unsent, unacked>>

SendEnds ==
    /\ cast.pc = "sending" /\ ~More
    /\ cast' = [cast EXCEPT !.pc = IF hub = "mobile" THEN "sent" ELSE "clean"]
    /\ UNCHANGED <<hub, socket, conns, unsent, unacked, misses>>

\* The push is tried if no send returned; its result is not used.
PushOrNot ==
    /\ cast.pc = "sent"
    /\ cast' = [cast EXCEPT !.pc = "ack", !.pushed = (cast.sent = 0)]
    /\ UNCHANGED <<hub, socket, conns, unsent, unacked, misses>>

\* An error of the ack is logged, and the message stays with the consumer.
AckBroadcast ==
    /\ cast.pc = "ack"
    /\ \/ UNCHANGED <<unacked, misses>>
       \/ Miss /\ unacked' = unacked + 1
    /\ cast' = [cast EXCEPT !.pc = "done"]
    /\ UNCHANGED <<hub, socket, conns, unsent>>

\* The web gateway removes the sockets that failed, without awaiting anything; the
\* others keep their order.
RemoveFailed ==
    /\ cast.pc = "clean"
    /\ \E rest \in SetToSeqs(Range(conns) \ cast.failed) :
          /\ \A i, j \in DOMAIN rest : i < j => PlaceOf(rest[i]) < PlaceOf(rest[j])
          /\ conns' = rest
    /\ cast' = [cast EXCEPT !.pc = "done"]
    /\ UNCHANGED <<hub, socket, unsent, unacked, misses>>

BroadcastDone ==
    /\ cast.pc = "done"
    /\ cast' = Quiet
    /\ UNCHANGED <<hub, socket, conns, unsent, unacked, misses>>

HubNext ==
    \/ \E c \in Socket : Connect(c) \/ PeerGone(c) \/ TokenEnds(c) \/ Oversize(c) \/ Disconnect(c)
    \/ StartBroadcast \/ SendNext \/ SendEnds
    \/ PushOrNot \/ AckBroadcast \/ RemoveFailed \/ BroadcastDone

HubSpec == HubInit /\ [][HubNext]_hubVars

-----------------------------------------------------------------------------

HubTypeOK ==
    /\ hub \in Hubs
    /\ socket \in [Socket -> {"away", "open", "gone", "closed", "ghost"}]
    /\ conns \in Seq(Socket) /\ IsInjective(conns)
    /\ cast.pc \in {"idle", "sending", "sent", "clean", "ack", "done"}
    /\ cast.reached \cup cast.failed \cup cast.stayed \subseteq Socket
    /\ {unsent, unacked, misses} \subseteq Nat

\* The broadcast loops over a list that others change while it awaits a send
\* (mobile_gateway/main.py:100-109, 94-98; gateway/main.py:111-121).  When it is through,
\* every socket that was open all the while has been tried, but for at most one per
\* removal meanwhile; no socket is tried twice, and a push is made exactly if nothing
\* was sent.
AlertsReachClients ==
    cast.pc = "done" =>
      /\ Cardinality(cast.stayed \ (cast.reached \cup cast.failed)) <= cast.removed
      /\ cast.reached \cap cast.failed = {}
      /\ cast.sent = Cardinality(cast.reached)
      /\ hub = "mobile" => (cast.pushed <=> cast.reached = {})
=============================================================================
