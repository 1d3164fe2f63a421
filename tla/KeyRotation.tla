----------------------------- MODULE KeyRotation -----------------------------
(***************************************************************************)
(* The ML-KEM key pair on its way from scripts/generate_keys.py to the two  *)
(* processes that use it: .env, read by docker compose up; the environment  *)
(* of each container, fixed when the container is created; the keys of the  *)
(* process, read once when it starts (gateway/app/keys.py,                  *)
(* cloud/app/keys.py).  Key pairs are numbered as they are generated.       *)
(***************************************************************************)
EXTENDS Integers, Sequences

CONSTANTS
  None,            \* no .env, no command running, no reading on its way
  MaxGenerations   \* bound on the key pairs ever generated

VARIABLES
  env,          \* the key pair in .env; 0 if the file has none, None without a file
  writing,      \* whether generate_keys.py is between truncating .env and writing it
  generations,  \* key pairs generated so far
  container,    \* per service, the key pair of its container, 0 without a container
  running,      \* per service, whether its process runs
  deploy,       \* the docker compose up that is running, or None
  sealed        \* the key pair of the reading on its way to the cloud, or None

keyVars == <<env, writing, generations, container, running, deploy, sealed>>

ASSUME MaxGenerationsIsNatural == MaxGenerations \in Nat
ASSUME NoneIsNoKeyPair == None \notin Int

Service == {"cloud", "gateway"}
KeyPair == 1 .. MaxGenerations

\* Mutant: the gateway does not depend on the cloud.
GatewayFirst == <<"gateway", "cloud">>

\* The gateway depends on the cloud.
StartOrder == <<"cloud", "gateway">>

\* What the repository's scripts and documents start: everything, or with --no-deps
\* the cloud alone.
Selections == {StartOrder, <<"cloud">>}

Remaining == {<<>>} \cup Selections \cup {Tail(s) : s \in Selections}

KeysTypeOK ==
  /\ env \in 0 .. MaxGenerations \cup {None}
  /\ writing \in BOOLEAN
  /\ generations \in 0 .. MaxGenerations
  /\ container \in [Service -> 0 .. MaxGenerations]
  /\ running \in [Service -> BOOLEAN]
  /\ deploy \in {None} \cup [keys : KeyPair, left : Remaining]
  /\ sealed \in KeyPair \cup {None}

KeysInit ==
  /\ env = None
  /\ writing = FALSE
  /\ generations = 0
  /\ container = [s \in Service |-> 0]
  /\ running = [s \in Service |-> FALSE]
  /\ deploy = None
  /\ sealed = None

-----------------------------------------------------------------------------
(* generate_keys.py.                                                         *)

\* write_text truncates the file before it writes; a file that exists needs --force.
GenerateKeys(force) ==
  /\ ~writing /\ generations < MaxGenerations
  /\ env = None \/ force
  /\ generations' = generations + 1
  /\ env' = 0
  /\ writing' = TRUE
  /\ UNCHANGED <<container, running, deploy, sealed>>

WriteKeys ==
  /\ writing
  /\ env' = generations
  /\ writing' = FALSE
  /\ UNCHANGED <<generations, container, running, deploy, sealed>>

\* The script dies in between: the file has no keys, and the next run needs --force.
GenerationDies ==
  /\ writing
  /\ writing' = FALSE
  /\ UNCHANGED <<env, generations, container, running, deploy, sealed>>

-----------------------------------------------------------------------------
(* docker compose, one command at a time.                                    *)

\* up reads .env once; without keys in it compose refuses.
Up(selection) ==
  /\ deploy = None /\ env \in KeyPair
  /\ deploy' = [keys |-> env, left |-> selection]
  /\ UNCHANGED <<env, writing, generations, container, running, sealed>>

\* The next service: recreated if its environment has changed, started if it is down.
DeployNext ==
  /\ deploy # None /\ deploy.left # <<>>
  /\ LET s == Head(deploy.left)
     IN /\ container' = [container EXCEPT ![s] = deploy.keys]
        /\ running' = [running EXCEPT ![s] = TRUE]
  /\ deploy' = [deploy EXCEPT !.left = Tail(@)]
  /\ UNCHANGED <<env, writing, generations, sealed>>

\* Done, or given up half-way.
DeployEnds ==
  /\ deploy # None
  /\ deploy' = None
  /\ UNCHANGED <<env, writing, generations, container, running, sealed>>

\* stop, or the end of the process: the container stays.
Stop(s) ==
  /\ running[s]
  /\ running' = [running EXCEPT ![s] = FALSE]
  /\ UNCHANGED <<env, writing, generations, container, deploy, sealed>>

\* start or restart: the container keeps the environment it was created with.
Start(s) ==
  /\ deploy = None /\ ~running[s] /\ container[s] # 0
  /\ running' = [running EXCEPT ![s] = TRUE]
  /\ UNCHANGED <<env, writing, generations, container, deploy, sealed>>

-----------------------------------------------------------------------------
(* A reading.                                                                *)

\* send_to_cloud encapsulates with the public key the gateway has started with.
Seal ==
  /\ running["gateway"] /\ sealed = None
  /\ sealed' = container["gateway"]
  /\ UNCHANGED <<env, writing, generations, container, running, deploy>>

Rejected == running["cloud"] /\ sealed # container["cloud"]

\* The cloud stores it, rejects it as decryption_failed, or cannot be reached.
Arrive ==
  /\ sealed # None
  /\ sealed' = None
  /\ UNCHANGED <<env, writing, generations, container, running, deploy>>

-----------------------------------------------------------------------------

KeysNext ==
  \/ \E force \in BOOLEAN : GenerateKeys(force)
  \/ WriteKeys \/ GenerationDies
  \/ \E selection \in Selections : Up(selection)
  \/ DeployNext \/ DeployEnds
  \/ \E s \in Service : Stop(s) \/ Start(s)
  \/ Seal \/ Arrive

KeysSpec == KeysInit /\ [][KeysNext]_keyVars

\* The keys of the two processes do not fit.
Mismatch == container["gateway"] # container["cloud"]

\* Keys reach the cloud first, by every order of generations, deployments given up
\* half-way, restarts and deaths of the generator: a gateway never seals for a key
\* pair that is newer than the cloud's, whatever does not fit is repaired by
\* deploying everything once more, and no process runs without keys.
CloudLeads ==
  /\ container["gateway"] <= container["cloud"]
  /\ container["cloud"] <= generations
  /\ sealed # None => sealed <= container["gateway"]
  /\ \A s \in Service : running[s] => container[s] # 0

\* Without --force nothing ever stops fitting.
OneGenerationFits == generations <= 1 => ~(Rejected /\ sealed # None)

=============================================================================
