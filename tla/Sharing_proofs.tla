---------------------------- MODULE Sharing_proofs ----------------------------
(* The two services that give one thing to one client at a time: the lease of *)
(* LeaseService, for any number of clients and any word size, and the claim   *)
(* on the engine of EngineClaim, for any number of requests, tries and mode   *)
(* changes.  But for LeaseEndsOnRequest, the server is loaded once and grants *)
(* fewer leases than there are words: the run lease_service and the README    *)
(* say what becomes of stale credentials without these two assumptions.       *)
EXTENDS LeaseService, EngineClaim, TLAPS

\* The run under consideration: no reload, and no counter has come round yet.
OneLoad == MaxLoads = 0 /\ MaxLeases <= WordMax

-------------------------------------------------------------------------------
\* The words count the leases, so the pair of them names the lease.
WordsCountLeases ==
    /\ loads = 0
    /\ activeGeneration = issued
    /\ nextToken = IF issued = WordMax THEN 1 ELSE issued + 1
    /\ leaseActive => activeClientPort \in Clients /\ activeToken = issued /\ issued # 0
    /\ ~leaseActive => activeClientPort = NoClient

Names(k) == k.token = k.lease /\ k.generation = k.lease /\ k.lease <= issued

\* Whoever has the credentials of the active lease is its holder, and a live
\* client releases only what it knows.
Owns(c, k) == leaseActive /\ k.lease = issued => activeClientPort = c

CredentialsAreHonest ==
    \A c \in Clients :
        /\ \A k \in known[c] : Names(k) /\ Owns(c, k) /\ k.lease # 0
        /\ Names(msg[c].cred) /\ Owns(c, msg[c].cred)
        /\ msg[c].op = "release" => msg[c].cred.lease # 0
        /\ msg[c].op = "release" /\ c \in alive => msg[c].cred \in known[c]

IInv == TypeOK /\ LeaseIsWatched /\ WordsCountLeases /\ CredentialsAreHonest

-------------------------------------------------------------------------------
\* The initial state satisfies the inductive invariant.
LEMMA InitEstablishes == ASSUME OneLoad PROVE Init => IInv
<1> SUFFICES ASSUME Init PROVE IInv
  OBVIOUS
<1> USE OneLoad, WordAssumption, BoundAssumption, NoClientAssumption
    DEF OneLoad, Init, ServiceInit
<1>1. TypeOK
  <2>1. Nothing \in Credentials
    BY DEF Nothing, Credentials, Word
  <2>2. Quiet \in Messages
    BY <2>1 DEF Quiet, Messages
  <2>3. /\ nextToken \in Word /\ activeToken \in Word /\ activeGeneration \in Word
        /\ issued \in 0 .. MaxLeases /\ loads \in 0 .. MaxLoads
    BY DEF Word
  <2>4. msg \in [Clients -> Messages] /\ rights \in [Clients -> Nat]
    BY <2>2
  <2> QED
    BY <2>3, <2>4 DEF TypeOK
<1>2. LeaseIsWatched
  BY DEF LeaseIsWatched, Quiet
<1>3. WordsCountLeases
  BY DEF WordsCountLeases
<1>4. CredentialsAreHonest
  <2>1. Names(Nothing)
    BY DEF Names, Nothing
  <2>2. \A c \in Clients : msg[c].cred = Nothing /\ msg[c].op = "none" /\ known[c] = {}
    BY DEF Quiet
  <2>3. ~leaseActive
    OBVIOUS
  <2> QED
    BY <2>1, <2>2, <2>3 DEF CredentialsAreHonest, Owns
<1> QED
  BY <1>1, <1>2, <1>3, <1>4 DEF IInv

\* The empty answer is a credential, and a lease's words are.
LEMMA EmptyCredential == Nothing \in Credentials
  BY WordAssumption, BoundAssumption DEF Nothing, Credentials, Word

\* Before the counters come round, the words issued next name the next lease.
LEMMA FreshCredential ==
  ASSUME OneLoad, TypeOK, WordsCountLeases, issued < MaxLeases
  PROVE  /\ IssuedToken = issued + 1 /\ IssuedGeneration = issued + 1
         /\ TokenAfter = IF issued + 1 = WordMax THEN 1 ELSE issued + 2
         /\ issued + 1 \in Word
<1> USE OneLoad, WordAssumption, BoundAssumption
    DEF OneLoad, TypeOK, WordsCountLeases, Word
<1>1. nextToken = issued + 1 /\ issued + 1 <= WordMax /\ issued + 1 # 0
  OBVIOUS
<1>2. IssuedToken = issued + 1
  BY <1>1 DEF IssuedToken
<1>3. IssuedGeneration = issued + 1
  BY <1>1 DEF IssuedGeneration, Succ
<1>4. TokenAfter = IF issued + 1 = WordMax THEN 1 ELSE issued + 2
  BY <1>1, <1>2 DEF TokenAfter, Succ
<1> QED
  BY <1>1, <1>2, <1>3, <1>4

\* What a client sends and receives leaves the server's words alone.
LEMMA ClientSteps ==
  ASSUME OneLoad, IInv, NEW c \in Clients,
         SendAcquire(c) \/ SendRelease(c) \/ GetAnswer(c) \/ ClientDies(c) \/ ClientAppears(c)
  PROVE  IInv'
<1> USE EmptyCredential DEF IInv
<1>1. CASE SendAcquire(c)
  <2> USE <1>1 DEF SendAcquire, server, clients
  <2>1. TypeOK'
    BY DEF TypeOK, Messages
  <2>2. LeaseIsWatched'
    BY DEF LeaseIsWatched, TypeOK, Messages
  <2>3. WordsCountLeases'
    BY DEF WordsCountLeases
  <2>4. CredentialsAreHonest'
    BY WordAssumption DEF CredentialsAreHonest, Names, Owns, Nothing, TypeOK, Messages, WordsCountLeases
  <2> QED
    BY <2>1, <2>2, <2>3, <2>4
<1>2. CASE SendRelease(c)
  <2> USE <1>2 DEF SendRelease, server, clients
  <2>1. TypeOK'
    BY DEF TypeOK, Messages
  <2>2. LeaseIsWatched'
    BY DEF LeaseIsWatched, TypeOK, Messages
  <2>3. WordsCountLeases'
    BY DEF WordsCountLeases
  <2>4. CredentialsAreHonest'
    BY DEF CredentialsAreHonest, Names, Owns, TypeOK, Messages
  <2> QED
    BY <2>1, <2>2, <2>3, <2>4
<1>3. CASE GetAnswer(c)
  <2> USE <1>3 DEF GetAnswer, server, clients
  <2>1. TypeOK'
    BY DEF TypeOK, Messages, Quiet
  <2>2. LeaseIsWatched'
    BY DEF LeaseIsWatched, TypeOK, Messages, Quiet
  <2>3. WordsCountLeases'
    BY DEF WordsCountLeases
  <2>4. msg[c].cred = Nothing \/ msg[c].cred.lease # 0
    BY DEF CredentialsAreHonest, Names, TypeOK, Messages, Credentials, Nothing
  <2>5. CredentialsAreHonest'
    BY <2>4, WordAssumption DEF CredentialsAreHonest, Names, Owns, TypeOK, Messages, Quiet, Nothing, WordsCountLeases
  <2> QED
    BY <2>1, <2>2, <2>3, <2>5
<1>4. CASE ClientDies(c)
  <2> USE <1>4 DEF ClientDies, server, clients
  <2>1. TypeOK'
    BY DEF TypeOK, Messages, Quiet
  <2>2. LeaseIsWatched'
    BY DEF LeaseIsWatched, TypeOK, Messages, Quiet
  <2>3. WordsCountLeases'
    BY DEF WordsCountLeases
  <2>4. CredentialsAreHonest'
    BY WordAssumption DEF CredentialsAreHonest, Names, Owns, TypeOK, Messages, Quiet, Nothing, WordsCountLeases
  <2> QED
    BY <2>1, <2>2, <2>3, <2>4
<1>5. CASE ClientAppears(c)
  <2> USE <1>5 DEF ClientAppears, server, clients
  <2>1. TypeOK'
    BY DEF TypeOK
  <2>2. LeaseIsWatched'
    BY DEF LeaseIsWatched
  <2>3. WordsCountLeases'
    BY DEF WordsCountLeases
  <2>4. CredentialsAreHonest'
    BY DEF CredentialsAreHonest, Names, Owns, Quiet
  <2> QED
    BY <2>1, <2>2, <2>3, <2>4
<1> QED
  BY <1>1, <1>2, <1>3, <1>4, <1>5

\* A handler that refuses gives back at most the right that came with the request.
LEMMA Refusals ==
  ASSUME OneLoad, IInv, NEW c \in Clients, AcquireRefused(c) \/ ReleaseRefused(c)
  PROVE  IInv'
<1> USE EmptyCredential DEF IInv
<1>1. CASE AcquireRefused(c)
  <2> USE <1>1 DEF AcquireRefused, server, clients, Answer
  <2>1. rights[c] >= 1
    BY DEF LeaseIsWatched, TypeOK, Messages
  <2>2. TypeOK'
    BY <2>1 DEF TypeOK, Messages, Quiet
  <2>3. LeaseIsWatched'
    <3>1. msg'[c].op # "acquire" /\ rights'[c] = rights[c] - 1
      BY DEF TypeOK, Quiet
    <3>2. \A d \in Clients \ {c} : msg'[d] = msg[d] /\ rights'[d] = rights[d]
      BY DEF TypeOK
    <3>3. /\ rights[c] \in Nat
          /\ rights[c] = 1 + (IF leaseActive /\ activeClientPort = c THEN 1 ELSE 0)
      BY DEF LeaseIsWatched, TypeOK
    <3> QED
      BY <3>1, <3>2, <3>3 DEF LeaseIsWatched
  <2>4. WordsCountLeases'
    BY DEF WordsCountLeases
  <2>5. CredentialsAreHonest'
    BY WordAssumption DEF CredentialsAreHonest, Names, Owns, TypeOK, Messages, Quiet, Nothing, WordsCountLeases
  <2> QED
    BY <2>2, <2>3, <2>4, <2>5
<1>2. CASE ReleaseRefused(c)
  <2> USE <1>2 DEF ReleaseRefused, server, clients, Answer
  <2>1. TypeOK'
    BY DEF TypeOK, Messages, Quiet
  <2>2. LeaseIsWatched'
    BY DEF LeaseIsWatched, TypeOK, Messages, Quiet
  <2>3. WordsCountLeases'
    BY DEF WordsCountLeases
  <2>4. CredentialsAreHonest'
    BY WordAssumption DEF CredentialsAreHonest, Names, Owns, TypeOK, Messages, Quiet, Nothing, WordsCountLeases
  <2> QED
    BY <2>1, <2>2, <2>3, <2>4
<1> QED
  BY <1>1, <1>2

\* A lease is granted with words that no earlier lease had.
LEMMA Granting ==
  ASSUME OneLoad, IInv, NEW c \in Clients, AcquireGranted(c)
  PROVE  IInv'
<1> USE DEF IInv, AcquireGranted, Issue, Answer, clients
<1> DEFINE fresh == [token |-> issued + 1, generation |-> issued + 1, lease |-> issued + 1]
<1>1. /\ IssuedToken = issued + 1 /\ IssuedGeneration = issued + 1
      /\ TokenAfter = IF issued + 1 = WordMax THEN 1 ELSE issued + 2
      /\ issued + 1 \in Word
  BY FreshCredential
<1>2. issued + 1 \in 0 .. MaxLeases /\ issued \in Nat /\ MaxLeases <= WordMax
  BY BoundAssumption DEF TypeOK, OneLoad
<1>3. fresh \in Credentials
  BY <1>1, <1>2 DEF Credentials
<1>4. /\ nextToken' = IF issued + 1 = WordMax THEN 1 ELSE issued + 2
      /\ activeToken' = issued + 1 /\ activeGeneration' = issued + 1
      /\ issued' = issued + 1
      /\ msg' = [msg EXCEPT ![c] =
                   IF c \in alive THEN [op |-> "answer", cred |-> fresh] ELSE Quiet]
  BY <1>1
<1>5. TypeOK'
  <2>1. nextToken' \in Word
    BY <1>1, <1>2, <1>4, WordAssumption DEF Word
  <2>2. msg' \in [Clients -> Messages]
    BY <1>3, <1>4, EmptyCredential DEF TypeOK, Messages, Quiet
  <2> HIDE DEF fresh
  <2> QED
    BY <1>1, <1>2, <1>4, <2>1, <2>2 DEF TypeOK
<1>6. LeaseIsWatched'
  BY <1>4 DEF LeaseIsWatched, TypeOK, Messages, Quiet
<1>7. WordsCountLeases'
  BY <1>1, <1>2, <1>4, WordAssumption DEF WordsCountLeases, Word
<1>8. CredentialsAreHonest'
  <2>1. \A d \in Clients : \A k \in known[d] : Names(k) /\ k.lease # 0 /\ k.lease \in Nat
    BY DEF CredentialsAreHonest, TypeOK, Credentials
  <2>2. \A d \in Clients : Names(msg[d].cred) /\ msg[d].cred.lease \in Nat
    BY DEF CredentialsAreHonest, TypeOK, Messages, Credentials
  <2>3. ASSUME NEW d \in Clients, d # c
        PROVE  msg'[d] = msg[d]
    BY <2>3, <1>4 DEF TypeOK
  <2>4. msg'[c] = [op |-> "answer", cred |-> fresh] \/ msg'[c] = Quiet
    BY <1>4 DEF TypeOK
  <2>5. \A d \in Clients : \A k \in known'[d] : Names(k)' /\ Owns(d, k)' /\ k.lease # 0
    BY <2>1, <1>2, <1>4 DEF Names, Owns
  <2>6. /\ Names(msg[c].cred)' /\ Owns(c, msg[c].cred)' /\ msg'[c].op # "release"
    BY <2>4, <1>2, <1>4 DEF Names, Owns, Quiet, Nothing
  <2>7. ASSUME NEW d \in Clients, d # c
        PROVE  Names(msg[d].cred)' /\ Owns(d, msg[d].cred)'
    BY <2>2, <2>3, <2>7, <1>2, <1>4 DEF Names, Owns
  <2> QED
    BY <2>3, <2>5, <2>6, <2>7 DEF CredentialsAreHonest
<1> QED
  BY <1>5, <1>6, <1>7, <1>8

\* The lease ends: given back, or its holder has died.
LEMMA Ending ==
  ASSUME OneLoad, IInv, NEW c \in Clients, Release(c) \/ PortDeath(c)
  PROVE  IInv'
<1> USE EmptyCredential DEF IInv, Vacate
<1>1. CASE Release(c)
  <2> USE <1>1 DEF Release, clients, Answer
  <2>1. leaseActive /\ activeClientPort \in Clients /\ rights[activeClientPort] >= 1
    BY DEF Matches, WordsCountLeases, LeaseIsWatched, TypeOK
  <2>2. TypeOK'
    <3>1. rights' \in [Clients -> Nat] /\ msg' \in [Clients -> Messages]
      BY <2>1 DEF TypeOK, Messages, Quiet
    <3>2. 0 \in Word
      BY WordAssumption DEF Word
    <3> QED
      BY <3>1, <3>2 DEF TypeOK
  <2>3. LeaseIsWatched'
    BY <2>1, NoClientAssumption DEF LeaseIsWatched, TypeOK, Messages, Quiet
  <2>4. WordsCountLeases'
    BY DEF WordsCountLeases
  <2>5. CredentialsAreHonest'
    BY WordAssumption DEF CredentialsAreHonest, Names, Owns, TypeOK, Messages, Quiet, Nothing, WordsCountLeases
  <2> QED
    BY <2>2, <2>3, <2>4, <2>5
<1>2. CASE PortDeath(c)
  <2> USE <1>2 DEF PortDeath, clients
  <2>1. leaseActive /\ activeClientPort = c /\ rights[c] >= 1
    BY DEF LeaseIsWatched, TypeOK
  <2>2. TypeOK'
    <3>1. rights' \in [Clients -> Nat]
      BY <2>1 DEF TypeOK
    <3>2. 0 \in Word
      BY WordAssumption DEF Word
    <3> QED
      BY <2>1, <3>1, <3>2 DEF TypeOK
  <2>3. LeaseIsWatched'
    BY <2>1, NoClientAssumption DEF LeaseIsWatched, TypeOK, Messages
  <2>4. WordsCountLeases'
    BY <2>1 DEF WordsCountLeases
  <2>5. CredentialsAreHonest'
    BY <2>1 DEF CredentialsAreHonest, Names, Owns
  <2> QED
    BY <2>2, <2>3, <2>4, <2>5
<1> QED
  BY <1>1, <1>2

\* Every step of a client or of the server preserves the inductive invariant.
LEMMA StepPreserves == ASSUME OneLoad PROVE IInv /\ [Next]_vars => IInv'
<1> SUFFICES ASSUME IInv, [Next]_vars PROVE IInv'
  OBVIOUS
<1>1. ASSUME Reload PROVE FALSE
  BY <1>1, BoundAssumption DEF Reload, OneLoad, IInv, WordsCountLeases
<1>2. ASSUME NEW c \in Clients,
             SendAcquire(c) \/ SendRelease(c) \/ GetAnswer(c)
               \/ ClientDies(c) \/ ClientAppears(c)
      PROVE  IInv'
  BY <1>2, ClientSteps
<1>3. ASSUME NEW c \in Clients, Serve(c) \/ PortDeath(c) PROVE IInv'
  BY <1>3, Refusals, Granting, Ending DEF Serve
<1>4. CASE UNCHANGED vars
  BY <1>4 DEF vars, server, clients, IInv, TypeOK, LeaseIsWatched, WordsCountLeases,
     CredentialsAreHonest, Names, Owns
<1> QED
  BY <1>1, <1>2, <1>3, <1>4 DEF Next

-------------------------------------------------------------------------------
\* The inductive invariant holds throughout.
THEOREM Inductive == ASSUME OneLoad PROVE Spec => []IInv
<1>1. Init => IInv
  BY InitEstablishes
<1>2. IInv /\ [Next]_vars => IInv'
  BY StepPreserves
<1> QED
  BY <1>1, <1>2, PTL DEF Spec

\* Rights are never leaked nor dropped twice: the server holds one for the
\* active lease and one for each acquire request it has yet to answer.
THEOREM RightsBalance == ASSUME OneLoad PROVE Spec => []LeaseIsWatched
<1>1. IInv => LeaseIsWatched
  BY DEF IInv
<1> QED
  BY <1>1, Inductive, PTL

\* Credentials of an earlier lease end no later one, however the requests,
\* deaths and answers of the clients interleave.
THEOREM StaleCredentialsRefused == ASSUME OneLoad PROVE Spec => StaleIsRefused
<1>1. ASSUME IInv, NEW c \in Clients, Serve(c), msg[c].op = "release",
             msg[c].cred.lease # issued
      PROVE  leaseActive' = leaseActive
  <2>1. ~Matches(msg[c].cred)
    BY <1>1 DEF IInv, CredentialsAreHonest, Names, Matches, WordsCountLeases
  <2> QED
    BY <2>1, <1>1 DEF Serve, AcquireRefused, AcquireGranted, Issue, ReleaseRefused,
       Release, server
<1>2. IInv /\ [Next]_vars =>
        [\A c \in Clients :
            Serve(c) /\ msg[c].op = "release" /\ msg[c].cred.lease # issued
               => leaseActive' = leaseActive]_vars
  BY <1>1
<1> QED
  BY <1>2, Inductive, PTL DEF Spec, StaleIsRefused

-------------------------------------------------------------------------------
\* Each step of the service is a step of the abstract lease, or none.
LEMMA ServiceStep ==
  ASSUME OneLoad, IInv, IInv', [Next]_vars
  PROVE  [Promise!LeaseNext]_(Promise!leaseVars)
<1> DEFINE told == [c \in Clients |-> {k.lease : k \in known[c]}]
<1> USE DEF Promise!leaseVars
<1>0. (loads > 0) = FALSE /\ (loads > 0)' = FALSE
  BY DEF IInv, WordsCountLeases
<1>1. ASSUME UNCHANGED <<activeClientPort, issued, alive, known>>
      PROVE  UNCHANGED Promise!leaseVars
  BY <1>0, <1>1
<1>2. ASSUME Reload PROVE FALSE
  BY <1>2, BoundAssumption DEF Reload, OneLoad, IInv, WordsCountLeases
<1>3. ASSUME NEW c \in Clients,
             SendAcquire(c) \/ SendRelease(c) \/ AcquireRefused(c) \/ ReleaseRefused(c)
      PROVE  UNCHANGED Promise!leaseVars
  BY <1>1, <1>3 DEF SendAcquire, SendRelease, AcquireRefused, ReleaseRefused, server, clients
<1>4. ASSUME NEW c \in Clients, GetAnswer(c)
      PROVE  Promise!LeaseNext \/ UNCHANGED Promise!leaseVars
  <2> DEFINE k == msg[c].cred
  <2>1. k.lease <= issued /\ k.lease \in Nat /\ issued \in Nat /\ k \in Credentials
    BY DEF IInv, CredentialsAreHonest, Names, TypeOK, Messages, Credentials
  <2>2. CASE k = Nothing
    <3>1. known' = known
      BY <1>4, <2>2 DEF GetAnswer, IInv, TypeOK
    <3> QED
      BY <1>1, <1>4, <3>1 DEF GetAnswer, server
  <2>3. CASE k # Nothing
    <3>1. k.lease \in 1 .. issued
      BY <2>1, <2>3 DEF IInv, CredentialsAreHonest, Names, Credentials, Nothing
    <3>2. known' = [known EXCEPT ![c] = @ \cup {k}]
      BY <1>4, <2>3 DEF GetAnswer
    <3>3. told' = [told EXCEPT ![c] = @ \cup {k.lease}]
      <4>1. \A d \in Clients : d # c => known'[d] = known[d]
        BY <3>2 DEF IInv, TypeOK
      <4>2. known'[c] = known[c] \cup {k}
        BY <3>2 DEF IInv, TypeOK
      <4>3. {j.lease : j \in known'[c]} = {j.lease : j \in known[c]} \cup {k.lease}
        BY <4>2
      <4> QED
        BY <4>1, <4>3
    <3>4. Promise!Tell(c)
      BY <1>0, <1>4, <3>1, <3>3 DEF Promise!Tell, GetAnswer, server
    <3> QED
      BY <3>4 DEF Promise!LeaseNext
  <2> QED
    BY <2>2, <2>3
<1>5. ASSUME NEW c \in Clients, ClientDies(c)
      PROVE  Promise!LeaseNext
  <2>1. \A d \in Clients : known'[d] = IF d = c THEN {} ELSE known[d]
    BY <1>5 DEF ClientDies, IInv, TypeOK
  <2>2. told' = [told EXCEPT ![c] = {}]
    BY <2>1
  <2>3. Promise!Die(c)
    BY <1>0, <1>5, <2>2 DEF ClientDies, Promise!Die, server
  <2> QED
    BY <2>3 DEF Promise!LeaseNext
<1>6. ASSUME NEW c \in Clients, ClientAppears(c)
      PROVE  Promise!LeaseNext
  <2>1. activeClientPort # c
    BY <1>6, NoClientAssumption DEF ClientAppears, IInv, LeaseIsWatched, WordsCountLeases, Quiet
  <2>2. Promise!Appear(c)
    BY <1>0, <1>6, <2>1 DEF ClientAppears, Promise!Appear, server
  <2> QED
    BY <2>2 DEF Promise!LeaseNext
<1>7. ASSUME NEW c \in Clients, AcquireGranted(c)
      PROVE  Promise!LeaseNext
  <2>1. Promise!Grant(c)
    BY <1>0, <1>7 DEF AcquireGranted, Issue, clients, Promise!Grant, IInv, WordsCountLeases
  <2> QED
    BY <2>1 DEF Promise!LeaseNext
<1>8. ASSUME NEW c \in Clients, PortDeath(c)
      PROVE  Promise!LeaseNext
  <2>1. leaseActive /\ activeClientPort = c
    BY <1>8 DEF PortDeath, IInv, LeaseIsWatched
  <2>2. Promise!Expire
    BY <1>0, <1>8, <2>1, NoClientAssumption DEF PortDeath, Vacate, clients, Promise!Expire
  <2> QED
    BY <2>2 DEF Promise!LeaseNext
<1>9. ASSUME NEW c \in Clients, Release(c)
      PROVE  Promise!LeaseNext
  <2> DEFINE k == msg[c].cred
  <2>1. leaseActive /\ k.lease = issued /\ activeClientPort = c
    BY <1>9 DEF Release, Matches, IInv, CredentialsAreHonest, Names, Owns, WordsCountLeases
  <2>2. activeClientPort' = NoClient /\ UNCHANGED <<issued, alive, known>>
    BY <1>9 DEF Release, Vacate, clients
  <2>3. CASE c \in alive
    <3>1. k \in known[c]
      BY <1>9, <2>3 DEF Release, IInv, CredentialsAreHonest
    <3>2. issued \in told[c]
      BY <2>1, <3>1
    <3>3. Promise!GiveBack
      BY <1>0, <2>1, <2>2, <2>3, <3>2, NoClientAssumption DEF Promise!GiveBack
    <3> QED
      BY <3>3 DEF Promise!LeaseNext
  <2>4. CASE c \notin alive
    <3>1. Promise!Expire
      BY <1>0, <2>1, <2>2, <2>4, NoClientAssumption DEF Promise!Expire
    <3> QED
      BY <3>1 DEF Promise!LeaseNext
  <2> QED
    BY <2>3, <2>4
<1>10. CASE UNCHANGED vars
  BY <1>1, <1>10 DEF vars, server, clients
<1> QED
  BY <1>2, <1>3, <1>4, <1>5, <1>6, <1>7, <1>8, <1>9, <1>10 DEF Next, Serve

\* The service implements the abstract lease: one client at a time, and only
\* its own credentials or its own death end its lease.
THEOREM ServiceImplementsLease == ASSUME OneLoad PROVE Spec => KeepsPromise
<1>1. Init => Promise!LeaseInit
  BY DEF Init, ServiceInit, Promise!LeaseInit
<1>2. IInv /\ IInv' /\ [Next]_vars => [Promise!LeaseNext]_(Promise!leaseVars)
  BY ServiceStep
<1> QED
  BY <1>1, <1>2, Inductive, PTL DEF Spec, KeepsPromise, Promise!LeaseSpec

-------------------------------------------------------------------------------
\* Any number of loads and leases, words of any size: what is granted can be
\* given back, for neither of its words is ever the zero release refuses.
THEOREM LeaseEndsOnRequest == Spec => []LeaseCanBeReleased
<1>1. Init => LeaseCanBeReleased
  BY DEF Init, ServiceInit, LeaseCanBeReleased
<1>2. ASSUME LeaseCanBeReleased, Next
      PROVE  LeaseCanBeReleased'
  <2>1. CASE Reload
    BY <2>1 DEF Reload, ServiceInit, LeaseCanBeReleased
  <2>2. ASSUME NEW c \in Clients, Issue(c)
        PROVE  LeaseCanBeReleased'
    <3>1. IssuedToken # 0 /\ IssuedGeneration # 0
      BY DEF IssuedToken, IssuedGeneration
    <3> QED
      BY <2>2, <3>1 DEF Issue, LeaseCanBeReleased
  <2>3. ASSUME NEW c \in Clients, Vacate \/ UNCHANGED server
        PROVE  LeaseCanBeReleased'
    BY <1>2, <2>3 DEF Vacate, server, LeaseCanBeReleased
  <2> QED
    BY <1>2, <2>1, <2>2, <2>3 DEF Next, SendAcquire, SendRelease, GetAnswer, ClientDies,
       ClientAppears, Serve, AcquireRefused, AcquireGranted, ReleaseRefused, Release, PortDeath
<1>3. LeaseCanBeReleased /\ UNCHANGED vars => LeaseCanBeReleased'
  BY DEF vars, server, LeaseCanBeReleased
<1> QED
  BY <1>1, <1>2, <1>3, PTL DEF Spec

-------------------------------------------------------------------------------
\* The engine.  Every variable keeps its type: the counters stay within the
\* bounds that the guards of SetInject, ModeCall and ModeSpin name, and a mode
\* change in progress still has an epoch left to end in.
TypeInv ==
    /\ EngineTypeOK
    /\ modePc # "idle" => osmgaModeEpoch < MaxEpoch

USE BoundsAssumption, KindsAssumption DEF AllKinds, Codes, Verdicts, Holding, SubmitKinds

\* The driver starts with every variable in its range.
LEMMA TypeInit == EngineInit => TypeInv
<1> SUFFICES ASSUME EngineInit PROVE TypeInv
  OBVIOUS
<1>1. Numbers
  BY DEF EngineInit, Numbers
<1>2. EngineTypeOK
  BY <1>1, Zenon DEF EngineInit, EngineTypeOK
<1> QED BY <1>2 DEF TypeInv, EngineInit

\* No step of a request takes a variable out of its range.
LEMMA TypeRequest ==
  ASSUME TypeInv, NEW c \in Threads, Step(c)
  PROVE  TypeInv'
<1> USE DEF TypeInv, EngineTypeOK, Numbers, driver, request, mode, card, Finish, Goto
<1>1. CASE ClaimRefused(c)    BY <1>1 DEF ClaimRefused, LatchCode, BusyCode
<1>2. CASE Claim(c)           BY <1>2 DEF Claim, Take
<1>3. CASE RefuseModeMoved(c)
  <2>1. stormBusy' \in BOOLEAN
    BY <1>3, Zenon DEF RefuseModeMoved, Refuse
  <2> QED BY <1>3, <2>1 DEF RefuseModeMoved, Refuse
<1>4. CASE RefuseRequest(c)
  <2>1. PICK o \in RefusalOutcomes(kind[c]) : Refuse(c, o[1], o[2])
    BY <1>4 DEF RefuseRequest
  <2>2. o[1] \in Codes /\ o[2] \in Verdicts
    BY DEF RefusalOutcomes
  <2>3. stormBusy' \in BOOLEAN
    BY <2>1, Zenon DEF Refuse
  <2> QED BY <2>1, <2>2, <2>3 DEF Refuse
<1>5. CASE Admit(c)              BY <1>5 DEF Admit
<1>6. CASE PrepareFails(c)       BY <1>6 DEF PrepareFails, PrepareFailCode
<1>7. CASE NothingToDraw(c)
  <2>1. stormBusy' \in BOOLEAN
    BY <1>7, Zenon DEF NothingToDraw, Refuse
  <2> QED BY <1>7, <2>1 DEF NothingToDraw, Refuse
<1>8. CASE Prepared(c)           BY <1>8 DEF Prepared
<1>9. CASE Doorbell(c)           BY <1>9 DEF Doorbell
<1>10. CASE PollDone(c)          BY <1>10 DEF PollDone, Completed, SeenDone, AsksOnceMore
<1>11. CASE PollTimeout(c)       BY <1>11 DEF PollTimeout, LatchAndFail, LatchCode
<1>12. CASE PollTimeoutV9(c)     BY <1>12 DEF PollTimeoutV9
<1>13. CASE PollTimeoutHarness(c) BY <1>13 DEF PollTimeoutHarness, KeepsTheClaim
<1>14. CASE RecoverDone(c)       BY <1>14 DEF RecoverDone, Completed, SeenDone, AsksOnceMore
<1>15. CASE RecoverTimeout(c)    BY <1>15 DEF RecoverTimeout, LatchAndFail, LatchCode
<1>16. CASE ReleaseClaim(c)
  <2>1. stormBusy' \in BOOLEAN
    BY <1>16, Zenon DEF ReleaseClaim
  <2> QED BY <1>16, <2>1 DEF ReleaseClaim
<1>17. CASE Reply(c)             BY <1>17 DEF Reply
<1>18. CASE Settled(c)           BY <1>18 DEF Settled
<1>19. CASE SettleFails(c)
  <2>1. CASE KeepsTheClaim(c)
    BY <2>1 DEF KeepsTheClaim
  <2>2. CASE LatchAndFail(c)
    BY <2>2 DEF LatchAndFail, LatchCode
  <2> QED BY <1>19, <2>1, <2>2 DEF SettleFails
<1> QED
  BY <1>1, <1>2, <1>3, <1>4, <1>5, <1>6, <1>7, <1>8, <1>9, <1>10, <1>11, <1>12,
     <1>13, <1>14, <1>15, <1>16, <1>17, <1>18, <1>19 DEF Step

\* Nor does any other step: types are kept by every step.
LEMMA TypeStep == TypeInv /\ [EngineNext]_engineVars => TypeInv'
<1> SUFFICES ASSUME TypeInv, [EngineNext]_engineVars PROVE TypeInv'
  OBVIOUS
<1>1. CASE \E c \in Threads : \E k \in Kinds : Gate(c, k)
  BY <1>1 DEF Gate, Finish, Goto, GateCode, TypeInv, EngineTypeOK, Numbers, mode, card
<1>2. CASE \E c \in Threads : Step(c)
  BY <1>2, TypeRequest
<1> USE DEF TypeInv, EngineTypeOK, Numbers, driver, request, mode, card
<1>3. CASE \E op \in {"enter", "revert"} : ModeCall(op)  BY <1>3 DEF ModeCall
<1>4. CASE ModeStep
  <2>1. CASE ModeClaim    BY <2>1 DEF ModeClaim
  <2>2. CASE ModeSpin     BY <2>2 DEF ModeSpin
  <2>3. CASE ModeGiveUp   BY <2>3 DEF ModeGiveUp
  <2>4. CASE ModeStart    BY <2>4 DEF ModeStart
  <2>5. CASE ModeEnd
    <3>1. linearModeActive' \in BOOLEAN
      BY <2>5, Zenon DEF ModeEnd, EnterDone, RevertDone
    <3>2. hwMode' \in {"vga", "linear", "changing", "other"}
      BY <2>5 DEF ModeEnd, EnterDone, RevertDone
    <3> QED BY <2>5, <3>1, <3>2 DEF ModeEnd
  <2>6. CASE ModeRelease
    <3>1. stormBusy' \in BOOLEAN /\ modeClaimed' \in BOOLEAN
      BY <2>6, Zenon DEF ModeRelease
    <3> QED BY <2>6, <3>1 DEF ModeRelease
  <2> QED BY <1>4, <2>1, <2>2, <2>3, <2>4, <2>5, <2>6 DEF ModeStep
<1>5. CASE Rearm
  <2>1. stormBlitFailed' \in BOOLEAN /\ rearmed' \in BOOLEAN
    BY <1>5, Zenon DEF Rearm
  <2> QED BY <1>5, <2>1 DEF Rearm
<1>6. CASE \E n \in 0 .. MaxInject : SetInject(n)  BY <1>6 DEF SetInject
<1>7. CASE EngineDone
  <2>1. softrap' \in BOOLEAN /\ rearmed' \in BOOLEAN
    BY <1>7, Zenon DEF EngineDone
  <2> QED BY <1>7, <2>1 DEF EngineDone
<1>8. CASE UNCHANGED engineVars  BY <1>8 DEF engineVars
<1> QED
  BY <1>1, <1>2, <1>3, <1>4, <1>5, <1>6, <1>7, <1>8 DEF EngineNext

\* Type correctness: no handler leaves a variable of the driver out of its range.
THEOREM EngineTyped == EngineSpec => []EngineTypeOK
<1>1. TypeInv => EngineTypeOK  BY DEF TypeInv
<1> QED BY TypeInit, TypeStep, <1>1, PTL DEF EngineSpec

-------------------------------------------------------------------------------
(* Exclusion.  ClaimExclusive is inductive together with EngineTypeOK: a request is  *)
(* in Holding only from its claim, made while stormBusy was clear, and every  *)
(* clearing of stormBusy is the holder's own.                                 *)
LEMMA ExclusiveInit == EngineInit => ClaimExclusive
  BY DEF EngineInit, ClaimExclusive

\* A request that stays where it was with respect to the claim.
LEMMA ExclusiveKept ==
  ASSUME TypeInv, ClaimExclusive, NEW c \in Threads, NEW s, pc' = [pc EXCEPT ![c] = s],
         pc[c] \in Holding <=> s \in Holding,
         UNCHANGED <<stormBusy, modeClaimed, retained>>
  PROVE  ClaimExclusive'
<1>1. \A d \in Threads : pc'[d] \in Holding <=> pc[d] \in Holding
  BY DEF TypeInv, EngineTypeOK
<1> QED BY <1>1 DEF ClaimExclusive

\* The holder gives the engine back.
LEMMA ExclusiveReleased ==
  ASSUME TypeInv, ClaimExclusive, NEW c \in Threads, pc[c] \in Holding,
         NEW s, s \notin Holding, pc' = [pc EXCEPT ![c] = s],
         ~stormBusy', UNCHANGED <<modeClaimed, retained>>
  PROVE  ClaimExclusive'
<1>1. \A d \in Threads : pc'[d] \notin Holding
  BY DEF TypeInv, EngineTypeOK, ClaimExclusive
<1>2. ~modeClaimed' /\ ~retained'
  BY DEF ClaimExclusive
<1> QED BY <1>1, <1>2 DEF ClaimExclusive

\* A request that claims finds nobody holding, and one that releases was alone.
LEMMA ExclusiveRequest ==
  ASSUME TypeInv, ClaimExclusive, NEW c \in Threads, Step(c)
  PROVE  ClaimExclusive'
<1> USE DEF driver, mode, Finish, Goto
<1>1. CASE ClaimRefused(c)   BY <1>1, ExclusiveKept DEF ClaimRefused
<1>2. CASE Claim(c)
  <2>1. \A d \in Threads : pc[d] \notin Holding
    BY <1>2 DEF Claim, ClaimExclusive
  <2>2. \A d \in Threads : pc'[d] \in Holding <=> d = c
    BY <1>2, <2>1 DEF Claim, Take, TypeInv, EngineTypeOK
  <2>3. stormBusy' /\ ~modeClaimed' /\ ~retained'
    BY <1>2 DEF Claim, Take, ClaimExclusive
  <2> QED BY <2>2, <2>3 DEF ClaimExclusive
<1>3. CASE RefuseModeMoved(c)
  BY <1>3, ExclusiveReleased DEF RefuseModeMoved, Refuse
<1>4. CASE RefuseRequest(c)
  BY <1>4, ExclusiveReleased DEF RefuseRequest, Refuse
<1>5. CASE Admit(c)          BY <1>5, ExclusiveKept DEF Admit
<1>6. CASE PrepareFails(c)   BY <1>6, ExclusiveKept DEF PrepareFails
<1>7. CASE NothingToDraw(c)  BY <1>7, ExclusiveReleased DEF NothingToDraw, Refuse
<1>8. CASE Prepared(c)       BY <1>8, ExclusiveKept DEF Prepared
<1>9. CASE Doorbell(c)       BY <1>9, ExclusiveKept DEF Doorbell
<1>10. CASE PollDone(c)      BY <1>10, ExclusiveKept DEF PollDone, Completed, AsksOnceMore
<1>11. CASE PollTimeout(c)   BY <1>11, ExclusiveKept DEF PollTimeout, LatchAndFail
<1>12. CASE PollTimeoutV9(c) BY <1>12, ExclusiveKept DEF PollTimeoutV9
<1>13. CASE PollTimeoutHarness(c)
  <2>1. \A d \in Threads : pc'[d] \notin Holding
    BY <1>13 DEF PollTimeoutHarness, KeepsTheClaim, TypeInv, EngineTypeOK, ClaimExclusive
  <2>2. stormBusy' /\ retained' /\ ~modeClaimed'
    BY <1>13 DEF PollTimeoutHarness, KeepsTheClaim, ClaimExclusive
  <2> QED BY <2>1, <2>2 DEF ClaimExclusive
<1>14. CASE RecoverDone(c)   BY <1>14, ExclusiveKept DEF RecoverDone, Completed, AsksOnceMore
<1>15. CASE RecoverTimeout(c) BY <1>15, ExclusiveKept DEF RecoverTimeout, LatchAndFail
<1>16. CASE ReleaseClaim(c)       BY <1>16, ExclusiveReleased DEF ReleaseClaim
<1>17. CASE Reply(c)         BY <1>17, ExclusiveKept DEF Reply
<1>18. CASE Settled(c)       BY <1>18, ExclusiveKept DEF Settled
<1>19. CASE SettleFails(c)
  <2>1. CASE LatchAndFail(c)  BY <1>19, <2>1, ExclusiveKept DEF SettleFails, LatchAndFail
  <2>2. CASE KeepsTheClaim(c)
    <3>1. \A d \in Threads : pc'[d] \notin Holding
      BY <1>19, <2>2 DEF SettleFails, KeepsTheClaim, TypeInv, EngineTypeOK, ClaimExclusive
    <3>2. stormBusy' /\ retained' /\ ~modeClaimed'
      BY <1>19, <2>2 DEF SettleFails, KeepsTheClaim, ClaimExclusive
    <3> QED BY <3>1, <3>2 DEF ClaimExclusive
  <2> QED BY <1>19, <2>1, <2>2 DEF SettleFails
<1> QED
  BY <1>1, <1>2, <1>3, <1>4, <1>5, <1>6, <1>7, <1>8, <1>9, <1>10, <1>11, <1>12,
     <1>13, <1>14, <1>15, <1>16, <1>17, <1>18, <1>19 DEF Step

\* Every step keeps the claim exclusive, the mode thread's and the card's included.
LEMMA ExclusiveStep == TypeInv /\ ClaimExclusive /\ [EngineNext]_engineVars => ClaimExclusive'
<1> SUFFICES ASSUME TypeInv, ClaimExclusive, [EngineNext]_engineVars PROVE ClaimExclusive'
  OBVIOUS
<1>1. ASSUME NEW c \in Threads, NEW k \in Kinds, Gate(c, k) PROVE ClaimExclusive'
  BY <1>1, ExclusiveKept DEF Gate, Finish, Goto, mode
<1>2. CASE \E c \in Threads : Step(c)
  BY <1>2, ExclusiveRequest
<1>3. CASE UNCHANGED <<pc, stormBusy, modeClaimed, retained>>
  BY <1>3 DEF ClaimExclusive
<1>4. CASE ModeClaim
  BY <1>4 DEF ModeClaim, ClaimExclusive, request
<1>5. CASE ModeRelease
  <2>1. UNCHANGED <<pc, retained>> /\ ~modeClaimed'
    BY <1>5 DEF ModeRelease, request
  <2>2. stormBusy' <=> stormBusy /\ ~modeClaimed
    BY <1>5 DEF ModeRelease, TypeInv, EngineTypeOK
  <2> QED BY <2>1, <2>2 DEF ClaimExclusive
<1> USE <1>3 DEF driver, request, mode
<1>6. CASE \E op \in {"enter", "revert"} : ModeCall(op)  BY <1>6 DEF ModeCall
<1>7. CASE ModeStep
  BY <1>4, <1>5, <1>7 DEF ModeStep, ModeSpin, ModeGiveUp, ModeStart,
                          ModeEnd
<1>8. CASE Rearm \/ EngineDone \/ \E n \in 0 .. MaxInject : SetInject(n)
  BY <1>8 DEF Rearm, EngineDone, SetInject
<1>9. CASE UNCHANGED engineVars  BY <1>9 DEF engineVars
<1> QED
  BY <1>1, <1>2, <1>6, <1>7, <1>8, <1>9 DEF EngineNext

\* Two requests never have the engine at once, and stormBusy is set exactly while
\* somebody has it, for any number of requests and of mode changes.
THEOREM ClaimIsExclusive == EngineSpec => []ClaimExclusive
<1> QED
  BY TypeInit, TypeStep, ExclusiveInit, ExclusiveStep, PTL DEF EngineSpec

-------------------------------------------------------------------------------
(* What the claim buys.  A holder that honours the latch holds it unlatched    *)
(* until it rings the doorbell, since only the holder sets the latch; and an  *)
(* engine left running has a holder still waiting for it, a harness that will *)
(* never let go, the latch, or a latch cleared over it.                       *)
EngineQuiet == {"held", "prep", "ring"}

LatchQuiet ==
    \A c \in Threads : pc[c] \in EngineQuiet /\ HonoursLatch(kind[c]) => ~stormBlitFailed

RunningIsWatched ==
    engine # "idle" => \/ \E c \in Threads : pc[c] \in {"poll", "recover"}
                       \/ retained \/ stormBlitFailed \/ rearmed

EngineInv == TypeInv /\ ClaimExclusive /\ LatchQuiet /\ RunningIsWatched

\* Nothing is claimed and nothing runs when the driver starts.
LEMMA WatchInit == EngineInit => LatchQuiet /\ RunningIsWatched
  BY DEF EngineInit, LatchQuiet, EngineQuiet, RunningIsWatched

\* A request sees the latch when it claims, and leaves a running engine latched.
LEMMA WatchRequest ==
  ASSUME EngineInv, NEW c \in Threads, Step(c)
  PROVE  LatchQuiet' /\ RunningIsWatched'
<1> USE DEF EngineInv, TypeInv, EngineTypeOK, LatchQuiet, EngineQuiet, RunningIsWatched, HonoursLatch,
            driver, mode, card, Finish, Goto
<1>1. CASE ClaimRefused(c)
  BY <1>1 DEF ClaimRefused
<1>2. CASE Claim(c)
  BY <1>2 DEF Claim, Take
<1>3. CASE RefuseModeMoved(c)
  BY <1>3 DEF RefuseModeMoved, Refuse
<1>4. CASE RefuseRequest(c)
  <2>1. PICK o \in RefusalOutcomes(kind[c]) : Refuse(c, o[1], o[2])
    BY <1>4 DEF RefuseRequest
  <2> QED BY <1>4, <2>1 DEF RefuseRequest, Refuse
<1>5. CASE Admit(c)
  BY <1>5 DEF Admit
<1>6. CASE PrepareFails(c)
  <2>1. \A d \in Threads : pc'[d] \notin EngineQuiet
    BY <1>6 DEF PrepareFails, ClaimExclusive
  <2> QED BY <1>6, <2>1 DEF PrepareFails
<1>7. CASE NothingToDraw(c)
  BY <1>7 DEF NothingToDraw, Refuse
<1>8. CASE Prepared(c)
  BY <1>8 DEF Prepared
<1>9. CASE Doorbell(c)
  BY <1>9 DEF Doorbell
<1>10. CASE PollDone(c)
  BY <1>10 DEF PollDone, Completed, SeenDone, AsksOnceMore
<1>11. CASE PollTimeout(c)
  <2>1. \A d \in Threads : pc'[d] \notin EngineQuiet
    BY <1>11 DEF PollTimeout, LatchAndFail, ClaimExclusive
  <2> QED BY <1>11, <2>1 DEF PollTimeout, LatchAndFail
<1>12. CASE PollTimeoutV9(c)
  BY <1>12 DEF PollTimeoutV9
<1>13. CASE PollTimeoutHarness(c)
  BY <1>13 DEF PollTimeoutHarness, KeepsTheClaim
<1>14. CASE RecoverDone(c)
  BY <1>14 DEF RecoverDone, Completed, SeenDone, AsksOnceMore
<1>15. CASE RecoverTimeout(c)
  <2>1. \A d \in Threads : pc'[d] \notin EngineQuiet
    BY <1>15 DEF RecoverTimeout, LatchAndFail, ClaimExclusive
  <2> QED BY <1>15, <2>1 DEF RecoverTimeout, LatchAndFail
<1>16. CASE ReleaseClaim(c)
  BY <1>16 DEF ReleaseClaim
<1>17. CASE Reply(c)
  BY <1>17 DEF Reply
<1>18. CASE Settled(c)
  BY <1>18 DEF Settled
<1>19. CASE SettleFails(c)
  <2>1. \A d \in Threads : pc'[d] \notin EngineQuiet
    BY <1>19 DEF SettleFails, KeepsTheClaim, LatchAndFail, ClaimExclusive
  <2> QED BY <1>19, <2>1 DEF SettleFails, KeepsTheClaim, LatchAndFail
<1> QED
  BY <1>1, <1>2, <1>3, <1>4, <1>5, <1>6, <1>7, <1>8, <1>9, <1>10, <1>11, <1>12,
     <1>13, <1>14, <1>15, <1>16, <1>17, <1>18, <1>19 DEF Step

\* Both facts about the latch are kept by every step.
LEMMA WatchStep == EngineInv /\ [EngineNext]_engineVars => LatchQuiet' /\ RunningIsWatched'
<1> SUFFICES ASSUME EngineInv, [EngineNext]_engineVars PROVE LatchQuiet' /\ RunningIsWatched'
  OBVIOUS
<1>2. CASE \E c \in Threads : Step(c)
  BY <1>2, WatchRequest
<1> USE DEF EngineInv, TypeInv, EngineTypeOK, LatchQuiet, EngineQuiet, RunningIsWatched, HonoursLatch,
            driver, request, mode, card
<1>1. ASSUME NEW c \in Threads, NEW k \in Kinds, Gate(c, k)
      PROVE  LatchQuiet' /\ RunningIsWatched'
  BY <1>1 DEF Gate, Finish, Goto
<1>3. CASE UNCHANGED <<pc, kind, engine, retained, stormBlitFailed, rearmed>>
  BY <1>3
<1>4. CASE \E op \in {"enter", "revert"} : ModeCall(op)  BY <1>3, <1>4 DEF ModeCall
<1>5. CASE ModeStep
  BY <1>3, <1>5 DEF ModeStep, ModeClaim, ModeSpin, ModeGiveUp, ModeStart,
                    ModeEnd, ModeRelease
<1>6. CASE Rearm  BY <1>6 DEF Rearm
<1>7. CASE \E n \in 0 .. MaxInject : SetInject(n)  BY <1>3, <1>7 DEF SetInject
<1>8. CASE EngineDone  BY <1>8 DEF EngineDone
<1>9. CASE UNCHANGED engineVars  BY <1>3, <1>9 DEF engineVars
<1> QED
  BY <1>1, <1>2, <1>4, <1>5, <1>6, <1>7, <1>8, <1>9 DEF EngineNext

\* The inductive invariant holds throughout.
LEMMA EngineInductive == EngineSpec => []EngineInv
<1>1. EngineInit => EngineInv
  BY TypeInit, ExclusiveInit, WatchInit DEF EngineInv
<1>2. EngineInv /\ [EngineNext]_engineVars => EngineInv'
  BY TypeStep, ExclusiveStep, WatchStep DEF EngineInv
<1> QED BY <1>1, <1>2, PTL DEF EngineSpec

\* An engine that may still be writing is never free for the next request unless
\* the latch stands in the way or was deliberately cleared over it.
THEOREM RunningEngineIsCovered == EngineSpec => []LatchCoversRunningEngine
<1>1. EngineInv => LatchCoversRunningEngine
  BY DEF EngineInv, RunningIsWatched, ClaimExclusive, LatchCoversRunningEngine
<1> QED BY EngineInductive, <1>1, PTL

\* No batch, present or harness run reaches the engine once the latch is set,
\* although the latch is looked at only when the engine is claimed.
THEOREM LatchHoldsBatchesBack == EngineSpec => NothingAfterTheLatch
<1>1. EngineInv => \A c \in Threads : Doorbell(c) /\ HonoursLatch(kind[c]) => ~stormBlitFailed
  BY DEF EngineInv, LatchQuiet, EngineQuiet, Doorbell
<1> QED BY EngineInductive, <1>1, PTL DEF NothingAfterTheLatch

-------------------------------------------------------------------------------
(* What a caller is told.  A poll leaves with a failure only past an engine    *)
(* that is still running, so a list that completed was never reported as lost; *)
(* the last look may still fail, and sets the latch.                           *)
THEOREM CompletedListsCount == EngineSpec => CompletedIsReported
<1> DEFINE Told(c) == rc'[c] = "SUCCESS" \/ (pc[c] = "settle" /\ stormBlitFailed')
<1>1. ASSUME EngineInv, [EngineNext]_engineVars, NEW c \in Threads,
             pc[c] \in {"poll", "recover", "settle"}, pc'[c] = "release", engine = "idle"
      PROVE  Told(c)
  <2> USE <1>1 DEF EngineInv, TypeInv, EngineTypeOK
  <2>1. ASSUME NEW d \in Threads, Step(d)
        PROVE  Told(c)
    <3>1. CASE d # c
      <4>1. \A s : pc' = [pc EXCEPT ![d] = s] => pc'[c] = pc[c]
        BY <3>1
      <4>2. \E s : pc' = [pc EXCEPT ![d] = s]
        BY <2>1 DEF Step, ClaimRefused, Claim, Take, RefuseModeMoved, RefuseRequest, Refuse,
           Admit, PrepareFails, NothingToDraw, Prepared, Doorbell, PollDone, Completed,
           PollTimeout, LatchAndFail, PollTimeoutV9, PollTimeoutHarness, RecoverDone,
           RecoverTimeout, Settled, SettleFails, KeepsTheClaim, ReleaseClaim, Reply, Finish, Goto
      <4> QED BY <4>1, <4>2
    <3>2. CASE d = c
      <4>1. CASE PollDone(c) \/ RecoverDone(c)
        BY <4>1 DEF PollDone, RecoverDone, Completed, Goto
      <4>2. CASE PollTimeoutV9(c)
        BY <4>2 DEF PollTimeoutV9, Goto
      <4>3. ~PollTimeout(c) /\ ~RecoverTimeout(c) /\ ~PollTimeoutHarness(c)
        BY DEF PollTimeout, RecoverTimeout, PollTimeoutHarness
      <4>4. CASE Settled(c) \/ SettleFails(c)
        BY <4>4 DEF Settled, SettleFails, LatchAndFail, KeepsTheClaim, Finish
      <4> QED
        BY <2>1, <3>2, <4>1, <4>2, <4>3, <4>4 DEF Step, ClaimRefused, Claim, RefuseModeMoved,
           RefuseRequest, Admit, PrepareFails, NothingToDraw, Prepared, Doorbell,
           ReleaseClaim, Reply
    <3> QED BY <3>1, <3>2
  <2>2. ASSUME NEW d \in Threads, NEW k \in Kinds, Gate(d, k)
        PROVE  Told(c)
    BY <2>2 DEF Gate, Finish, Goto
  <2>3. CASE UNCHANGED pc
    BY <2>3
  <2> USE <2>3 DEF request
  <2>4. CASE ModeStep \/ \E op \in {"enter", "revert"} : ModeCall(op)
    BY <2>4 DEF ModeStep, ModeCall, ModeClaim, ModeSpin, ModeGiveUp, ModeStart, ModeEnd,
       ModeRelease
  <2>5. CASE Rearm \/ EngineDone \/ \E n \in 0 .. MaxInject : SetInject(n)
    BY <2>5 DEF Rearm, EngineDone, SetInject
  <2>6. CASE UNCHANGED engineVars
    BY <2>6 DEF engineVars
  <2> QED BY <1>1, <2>1, <2>2, <2>4, <2>5, <2>6 DEF EngineNext
<1>2. EngineInv /\ [EngineNext]_engineVars =>
        [\A c \in Threads :
           pc[c] \in {"poll", "recover", "settle"} /\ pc'[c] = "release" /\ engine = "idle"
             => Told(c)]_engineVars
  BY <1>1
<1> QED BY EngineInductive, <1>2, PTL DEF EngineSpec, CompletedIsReported

===============================================================================
