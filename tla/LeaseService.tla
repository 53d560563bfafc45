----------------------------- MODULE LeaseService -----------------------------
(* OSMGAService: a loadable kernel server that hands out one software lease. *)
(*                                                                           *)
(* The server has one message thread: a request or a port-death notice is    *)
(* handled to its end before the next, while clients send, wait and die at   *)
(* any time.  A request still waiting when its sender dies is handled all    *)
(* the same.  kern_serv_notify, kern_serv_port_gone and port_deallocate are  *)
(* the kernel's; they appear as the set of watched ports and the send rights *)
(* the server holds.  Ports are named by the client that owns them.          *)
EXTENDS Naturals

CONSTANTS
    Clients,
    NoClient,     \* PORT_NULL
    WordMax,      \* the largest unsigned int
    MaxLeases,    \* bound on the leases granted
    MaxLoads      \* bound on how often the server is unloaded and loaded again

ASSUME NoClientAssumption == NoClient \notin Clients
ASSUME WordAssumption == WordMax \in Nat \ {0}
ASSUME BoundAssumption == MaxLeases \in Nat /\ MaxLoads \in Nat

VARIABLES
    nextToken, activeToken, activeGeneration, leaseActive, activeClientPort,
    watched,      \* ports whose death will be notified
    rights,       \* send rights the server holds, by port
    alive,        \* clients whose task, and so whose port, exists
    known,        \* credentials each client was given and has not forgotten
    msg,          \* each client's request or the answer to it
    issued,       \* history: leases granted so far
    loads

server  == <<nextToken, activeToken, activeGeneration, leaseActive, activeClientPort>>
clients == <<alive, known>>
vars    == <<server, watched, rights, clients, msg, issued, loads>>

Word == 0 .. WordMax

\* What a client learns.  "lease" is not in the message: it says which lease
\* these words were issued for, and no handler reads it.
Credentials == [token : Word, generation : Word, lease : 0 .. MaxLeases]
Nothing     == [token |-> 0, generation |-> 0, lease |-> 0]
Messages    == [op : {"none", "acquire", "release", "answer"}, cred : Credentials]
Quiet       == [op |-> "none", cred |-> Nothing]

TypeOK ==
    /\ nextToken \in Word /\ activeToken \in Word /\ activeGeneration \in Word
    /\ leaseActive \in BOOLEAN
    /\ activeClientPort \in Clients \cup {NoClient}
    /\ watched \subseteq Clients
    /\ rights \in [Clients -> Nat]
    /\ alive \subseteq Clients
    /\ known \in [Clients -> SUBSET Credentials]
    /\ msg \in [Clients -> Messages]
    /\ issued \in 0 .. MaxLeases
    /\ loads \in 0 .. MaxLoads

\* openStepMGAServiceInit
ServiceInit(next, token, generation, active, port) ==
    next = 1 /\ token = 0 /\ generation = 0 /\ active = FALSE /\ port = NoClient

Init ==
    /\ ServiceInit(nextToken, activeToken, activeGeneration, leaseActive, activeClientPort)
    /\ watched = {}
    /\ rights = [c \in Clients |-> 0]
    /\ alive = Clients
    /\ known = [c \in Clients |-> {}]
    /\ msg = [c \in Clients |-> Quiet]
    /\ issued = 0
    /\ loads = 0

-------------------------------------------------------------------------------
\* The clients.  An acquire request carries a send right to the client's port.
SendAcquire(c) ==
    /\ c \in alive /\ msg[c].op = "none"
    /\ msg' = [msg EXCEPT ![c] = [op |-> "acquire", cred |-> Nothing]]
    /\ rights' = [rights EXCEPT ![c] = @ + 1]
    /\ UNCHANGED <<server, watched, clients, issued, loads>>

SendRelease(c) ==
    /\ c \in alive /\ msg[c].op = "none"
    /\ \E k \in known[c] : msg' = [msg EXCEPT ![c] = [op |-> "release", cred |-> k]]
    /\ UNCHANGED <<server, watched, rights, clients, issued, loads>>

GetAnswer(c) ==
    /\ c \in alive /\ msg[c].op = "answer"
    /\ known' = [known EXCEPT ![c] = @ \cup ({msg[c].cred} \ {Nothing})]
    /\ msg' = [msg EXCEPT ![c] = Quiet]
    /\ UNCHANGED <<server, watched, rights, alive, issued, loads>>

ClientDies(c) ==
    /\ c \in alive
    /\ alive' = alive \ {c}
    /\ known' = [known EXCEPT ![c] = {}]
    /\ msg' = [msg EXCEPT ![c] = IF @.op = "answer" THEN Quiet ELSE @]
    /\ UNCHANGED <<server, watched, rights, issued, loads>>

\* Another task may get the name once nothing refers to the dead port any more.
ClientAppears(c) ==
    /\ c \notin alive /\ rights[c] = 0 /\ msg[c] = Quiet
    /\ alive' = alive \cup {c}
    /\ UNCHANGED <<server, watched, rights, known, msg, issued, loads>>

Answer(c, cred) ==
    msg' = [msg EXCEPT ![c] =
              IF c \in alive THEN [op |-> "answer", cred |-> cred] ELSE Quiet]

-------------------------------------------------------------------------------
\* OSMGA_acquire.
Succ(n) == IF n = WordMax THEN 0 ELSE n + 1

IssuedToken == IF nextToken = 0 THEN 1 ELSE nextToken
TokenAfter  == IF Succ(IssuedToken) = 0 THEN 1 ELSE Succ(IssuedToken)

IssuedGeneration == IF Succ(activeGeneration) = 0 THEN 1 ELSE Succ(activeGeneration)

RefuseKeepingRight(c) ==                               \* mutant: no port_deallocate
    /\ msg[c].op = "acquire"
    /\ Answer(c, Nothing)
    /\ UNCHANGED <<server, watched, rights, clients, issued, loads>>

\* Refused: the lease is out, or the port's death cannot be watched.
AcquireRefused(c) ==
    /\ msg[c].op = "acquire"
    /\ rights' = [rights EXCEPT ![c] = @ - 1]
    /\ Answer(c, Nothing)
    /\ UNCHANGED <<server, watched, clients, issued, loads>>

Issue(c) ==
    /\ msg[c].op = "acquire"
    /\ issued < MaxLeases
    /\ watched' = watched \cup {c}
    /\ nextToken' = TokenAfter
    /\ activeToken' = IssuedToken
    /\ activeGeneration' = IssuedGeneration
    /\ activeClientPort' = c
    /\ leaseActive' = TRUE
    /\ issued' = issued + 1
    /\ Answer(c, [token |-> IssuedToken, generation |-> IssuedGeneration,
                  lease |-> issued + 1])
    /\ UNCHANGED <<rights, clients, loads>>

IssueAgain(c) == Issue(c)                              \* mutant: leaseActive not read

AcquireGranted(c) == ~leaseActive /\ Issue(c)

-------------------------------------------------------------------------------
\* OSMGA_release.  The credentials decide, not the sender.
Vacate ==
    /\ activeToken' = 0
    /\ leaseActive' = FALSE
    /\ activeClientPort' = NoClient
    /\ UNCHANGED <<nextToken, activeGeneration>>

MatchesAny(k) == k.token # 0 /\ leaseActive            \* mutant: words not compared

Matches(k) ==
    /\ k.token # 0 /\ k.generation # 0
    /\ leaseActive
    /\ activeToken = k.token /\ activeGeneration = k.generation

ReleaseRefused(c) ==
    /\ msg[c].op = "release" /\ ~Matches(msg[c].cred)
    /\ Answer(c, Nothing)
    /\ UNCHANGED <<server, watched, rights, clients, issued, loads>>

Release(c) ==
    /\ msg[c].op = "release" /\ Matches(msg[c].cred)
    /\ Vacate
    /\ watched' = watched \ {activeClientPort}
    /\ rights' = [rights EXCEPT ![activeClientPort] = @ - 1]
    /\ Answer(c, Nothing)
    /\ UNCHANGED <<clients, issued, loads>>

\* openStepMGAServicePortDeath: the notice for a watched port has arrived.
PortDeathUnseen(c) ==                                  \* mutant: the notice is dropped
    /\ c \in watched \ alive
    /\ watched' = watched \ {c}
    /\ UNCHANGED <<server, rights, clients, msg, issued, loads>>

PortDeath(c) ==
    /\ c \in watched \ alive
    /\ watched' = watched \ {c}
    /\ rights' = [rights EXCEPT ![c] = @ - 1]
    /\ IF leaseActive /\ activeClientPort = c THEN Vacate ELSE UNCHANGED server
    /\ UNCHANGED <<clients, msg, issued, loads>>

\* Unloaded and loaded again: the words start over, the rights go with the old
\* server, and whoever was waiting is told that the port is gone.
Reload ==
    /\ loads < MaxLoads
    /\ loads' = loads + 1
    /\ ServiceInit(nextToken', activeToken', activeGeneration', leaseActive',
                   activeClientPort')
    /\ watched' = {}
    /\ rights' = [c \in Clients |-> 0]
    /\ msg' = [c \in Clients |->
                 IF msg[c].op \in {"acquire", "release"}
                   THEN IF c \in alive THEN [op |-> "answer", cred |-> Nothing] ELSE Quiet
                   ELSE msg[c]]
    /\ UNCHANGED <<clients, issued>>

-------------------------------------------------------------------------------
Serve(c) ==
    AcquireRefused(c) \/ AcquireGranted(c) \/ ReleaseRefused(c) \/ Release(c)

Next ==
    \/ Reload
    \/ \E c \in Clients :
          \/ SendAcquire(c) \/ SendRelease(c) \/ GetAnswer(c)
          \/ ClientDies(c) \/ ClientAppears(c)
          \/ Serve(c) \/ PortDeath(c)

Spec == Init /\ [][Next]_vars

\* The message thread serves whatever has arrived; nothing is assumed of clients.
FairSpec == Spec /\ \A c \in Clients : WF_vars(Serve(c)) /\ WF_vars(PortDeath(c))

-------------------------------------------------------------------------------
\* The server watches exactly the port of the lease it has out, and holds one
\* right for it and one for each acquire request it has yet to answer: none is
\* leaked by a refusal and none is dropped twice by a release and a death.
LeaseIsWatched ==
    /\ watched = IF leaseActive THEN {activeClientPort} ELSE {}
    /\ \A c \in Clients :
          rights[c] = (IF msg[c].op = "acquire" THEN 1 ELSE 0)
                    + (IF leaseActive /\ activeClientPort = c THEN 1 ELSE 0)

\* An active lease can be given back: neither of its words is the zero that
\* release refuses to look at, and that stays true when the counters wrap.
LeaseCanBeReleased ==
    leaseActive => activeToken # 0 /\ activeGeneration # 0

\* Credentials of an earlier lease never end the present one.
StaleIsRefused ==
    [][\A c \in Clients :
          Serve(c) /\ msg[c].op = "release" /\ msg[c].cred.lease # issued
             => leaseActive' = leaseActive]_vars

\* The service implements the abstract lease.
Promise == INSTANCE Lease WITH
    holder <- activeClientPort,
    lease  <- issued,
    alive  <- alive,
    known  <- [c \in Clients |-> {k.lease : k \in known[c]}],
    restarted <- loads > 0

KeepsPromise == Promise!LeaseSpec

\* A client that dies without releasing does not keep the lease for ever.
DeadHolderLosesLease ==
    (leaseActive /\ activeClientPort \notin alive) ~> ~leaseActive

===============================================================================
