--------------------------------- MODULE Lease ---------------------------------
(* What the lease service promises: one lease at a time, given to one client, *)
(* and ended only by somebody who was told its credentials or by the death of *)
(* the client that holds it.  Once it has been restarted, credentials of an   *)
(* earlier life may end a lease too.                                          *)
EXTENDS Naturals

CONSTANTS Clients, NoClient

VARIABLES
    holder,   \* the client whose lease is active, or NoClient
    lease,    \* how many leases have been granted; the last one may be active
    alive,    \* the clients whose control port still exists
    known,    \* the leases each live client has been told the credentials of
    restarted

leaseVars == <<holder, lease, alive, known, restarted>>

LeaseInit ==
    /\ holder = NoClient /\ lease = 0
    /\ alive = Clients
    /\ known = [c \in Clients |-> {}]
    /\ restarted = FALSE

Grant(c) ==
    /\ holder = NoClient
    /\ holder' = c /\ lease' = lease + 1
    /\ UNCHANGED <<alive, known, restarted>>

Tell(c) ==
    /\ c \in alive
    /\ \E l \in 1 .. lease : known' = [known EXCEPT ![c] = @ \cup {l}]
    /\ UNCHANGED <<holder, lease, alive, restarted>>

\* The active lease is given back by a client that knows its credentials.
GiveBack ==
    /\ holder # NoClient
    /\ restarted \/ \E c \in alive : lease \in known[c]
    /\ holder' = NoClient
    /\ UNCHANGED <<lease, alive, known, restarted>>

Expire ==
    /\ holder # NoClient /\ holder \notin alive
    /\ holder' = NoClient
    /\ UNCHANGED <<lease, alive, known, restarted>>

Die(c) ==
    /\ c \in alive
    /\ alive' = alive \ {c}
    /\ known' = [known EXCEPT ![c] = {}]
    /\ UNCHANGED <<holder, lease, restarted>>

\* A new client takes the place of a dead one; it cannot inherit a lease.
Appear(c) ==
    /\ c \notin alive /\ holder # c
    /\ alive' = alive \cup {c}
    /\ UNCHANGED <<holder, lease, known, restarted>>

Restart ==
    /\ holder' = NoClient /\ restarted' = TRUE
    /\ UNCHANGED <<lease, alive, known>>

LeaseNext ==
    \/ GiveBack \/ Expire \/ Restart
    \/ \E c \in Clients : Grant(c) \/ Tell(c) \/ Die(c) \/ Appear(c)

LeaseSpec == LeaseInit /\ [][LeaseNext]_leaseVars
================================================================================
