------------------------------- MODULE Service -------------------------------
(***************************************************************************)
(* What the clients of a Webserver object are promised, with no threads,   *)
(* sockets or handlers in sight.  The object goes through four phases and  *)
(* never back.  A connection gets one answer at most.  Answers are given   *)
(* while the object serves, one more at most while it closes, none later.  *)
(* Until the object closes it gives up only those who hung up.  A datagram *)
(* may be lost, but a reply goes to a peer that is owed one.               *)
(***************************************************************************)
EXTENDS Naturals

CONSTANTS Clients, Peers

VARIABLES
    phase,     \* "new", "serving", "closing" or "closed"
    tcp,       \* Clients -> "out", "in", "answered" or "dropped"
    hungUp,    \* the clients that closed their end
    owed,      \* datagrams of each peer that may still be answered
    replied    \* replies sent to each peer

serviceVars == <<phase, tcp, hungUp, owed, replied>>

ServiceInit ==
    /\ phase = "new"
    /\ tcp = [c \in Clients |-> "out"]
    /\ hungUp = {}
    /\ owed = [p \in Peers |-> 0]
    /\ replied = [p \in Peers |-> 0]

PhaseMayChange ==
    \/ phase' = phase
    \/ phase = "new" /\ phase' \in {"serving", "closed"}
    \/ phase = "serving" /\ phase' \in {"closing", "closed"}
    \/ phase = "closing" /\ phase' = "closed"

(* An answer given while closing is the last one.                            *)
MayAnswer ==
    \/ phase = "serving" /\ phase' = "serving"
    \/ phase = "closing" /\ phase' = "closed"

Connect(c) ==
    /\ tcp[c] = "out"
    /\ tcp' = [tcp EXCEPT ![c] = "in"]
    /\ UNCHANGED <<phase, hungUp, owed, replied>>

HangUp(c) ==
    /\ hungUp' = hungUp \cup {c}
    /\ UNCHANGED <<phase, tcp, owed, replied>>

Answer(c) ==
    /\ tcp[c] = "in"
    /\ MayAnswer
    /\ tcp' = [tcp EXCEPT ![c] = "answered"]
    /\ UNCHANGED <<hungUp, owed, replied>>

Ask(p) ==
    /\ owed' = [owed EXCEPT ![p] = @ + 1]
    /\ UNCHANGED <<phase, tcp, hungUp, replied>>

Reply(p) ==
    /\ owed[p] > 0
    /\ MayAnswer
    /\ owed' = [owed EXCEPT ![p] = @ - 1]
    /\ replied' = [replied EXCEPT ![p] = @ + 1]
    /\ UNCHANGED <<tcp, hungUp>>

(* Connections are given up and datagrams lost, or a phase ends.             *)
GiveUp(S) ==
    /\ \A c \in S : tcp[c] = "in"
    /\ S \subseteq hungUp \/ phase' \in {"closing", "closed"}
    /\ PhaseMayChange
    /\ tcp' = [c \in Clients |-> IF c \in S THEN "dropped" ELSE tcp[c]]
    /\ \A p \in Peers : owed'[p] <= owed[p]
    /\ UNCHANGED <<hungUp, replied>>

ServiceNext ==
    \/ \E c \in Clients : Connect(c) \/ HangUp(c) \/ Answer(c)
    \/ \E p \in Peers : Ask(p) \/ Reply(p)
    \/ \E S \in SUBSET Clients : GiveUp(S)

ServiceSpec == ServiceInit /\ [][ServiceNext]_serviceVars
=============================================================================
