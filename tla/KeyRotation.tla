---------------------------- MODULE KeyRotation ----------------------------
(***************************************************************************)
(* Signing-key rotation: src/identity/scripts/rotate_signing_key.py.       *)
(*                                                                         *)
(* A rotation reads the realm's key providers, adds one of a higher        *)
(* priority, waits until another key signs, and deactivates the providers  *)
(* it read.  Nothing keeps two rotations apart, and the configuration      *)
(* service may replace the realm, with new keys under the same realm id,   *)
(* at any moment.  A provider stands for its one RS256 key; it is numbered *)
(* by its creation, and Keycloak breaks a tie of priorities by an order of *)
(* its own (rank).                                                         *)
(***************************************************************************)
EXTENDS Naturals, FiniteSets

CONSTANTS
  Rotations,      \* runs of the script that may overlap
  MaxProviders,   \* bound: providers ever created
  MaxRotFaults    \* bound: failed calls

ASSUME RotationAssumption == MaxProviders \in Nat /\ MaxRotFaults \in Nat

VARIABLES
  providers,   \* key providers of the realm: number -> [priority, rank, active]
  made,        \* providers created so far, in all realms
  epoch,       \* how often the realm was replaced
  at,          \* where each rotation is
  listed,      \* the components it read
  old, retained, new,   \* kids it read: signing, all, and signing afterwards
  todo,        \* components it still deactivates
  results,     \* the results written since the realm was replaced last
  rotFaults

rotation == <<at, listed, old, retained, new, todo>>
rotVars == <<providers, made, epoch, rotation, results, rotFaults>>

NoKey == 0

Active(p) == {k \in DOMAIN p : p[k].active}

\* the key that signs: the first active provider in Keycloak's order
Before(p, j, k) ==
  \/ p[j].priority > p[k].priority
  \/ p[j].priority = p[k].priority /\ p[j].rank > p[k].rank
  \/ p[j].priority = p[k].priority /\ p[j].rank = p[k].rank /\ j >= k
Signing(p) ==
  IF Active(p) = {} THEN NoKey
  ELSE CHOOSE k \in Active(p) : \A j \in Active(p) : Before(p, k, j)

Added(p, k, provider) == [j \in DOMAIN p \cup {k} |-> IF j = k THEN provider ELSE p[j]]

Provider(priority, rank, active) ==
  [priority |-> priority, rank |-> rank, active |-> active]

RotInit ==
  /\ providers = [k \in {1} |-> Provider(1, 0, TRUE)]
  /\ made = 1 /\ epoch = 0
  /\ at = [r \in Rotations |-> "idle"]
  /\ listed = [r \in Rotations |-> << >>]
  /\ old = [r \in Rotations |-> NoKey] /\ new = [r \in Rotations |-> NoKey]
  /\ retained = [r \in Rotations |-> {}] /\ todo = [r \in Rotations |-> {}]
  /\ results = {} /\ rotFaults = 0

Goto(r, label) == at' = [at EXCEPT ![r] = label]

ReadComponents(r) ==
  /\ at[r] = "idle" /\ Goto(r, "keys")
  /\ listed' = [listed EXCEPT ![r] = providers]
  /\ UNCHANGED <<providers, made, epoch, old, retained, new, todo, results, rotFaults>>

\* mutant: the providers read are deactivated before one is added
ReadKeysRetiring(r) ==
  /\ at[r] = "keys" /\ Goto(r, "passivate")
  /\ old' = [old EXCEPT ![r] = Signing(providers)]
  /\ retained' = [retained EXCEPT ![r] = DOMAIN providers]
  /\ todo' = [todo EXCEPT ![r] = DOMAIN listed[r]]
  /\ UNCHANGED <<providers, made, epoch, listed, new, results, rotFaults>>

ReadKeys(r) ==
  /\ at[r] = "keys" /\ Goto(r, "post")
  /\ old' = [old EXCEPT ![r] = Signing(providers)]
  /\ retained' = [retained EXCEPT ![r] = DOMAIN providers]
  /\ UNCHANGED <<providers, made, epoch, listed, new, todo, results, rotFaults>>

\* one more than every priority read, or than 0
NewPriority(components) ==
  LET read == {0} \cup {components[k].priority : k \in DOMAIN components}
  IN 1 + CHOOSE n \in read : \A m \in read : m <= n

CreateProvider(r) ==
  \E rank \in {0, 1} :
    /\ providers' = Added(providers, made + 1,
                          Provider(NewPriority(listed[r]), rank, TRUE))
    /\ made' = made + 1

PostProvider(r) ==
  /\ at[r] = "post" /\ made < MaxProviders
  /\ CreateProvider(r)
  /\ Goto(r, "poll")
  /\ UNCHANGED <<epoch, listed, old, retained, new, todo, results, rotFaults>>

\* another key signs; it need not be the one this rotation created
SeeNewKey(r) ==
  /\ at[r] = "poll" /\ Signing(providers) # old[r]
  /\ new' = [new EXCEPT ![r] = Signing(providers)]
  /\ todo' = [todo EXCEPT ![r] = DOMAIN listed[r] \ {Signing(providers)}]
  /\ Goto(r, "passivate")
  /\ UNCHANGED <<providers, made, epoch, listed, old, retained, results, rotFaults>>

Deactivated(p, k) ==
  [p EXCEPT ![k] = Provider(p[k].priority, p[k].rank, FALSE)]

\* PUT of the component as it was read, inactive
Passivate(r) ==
  /\ at[r] = "passivate"
  /\ \E k \in todo[r] \cap DOMAIN providers :
       /\ providers' = Deactivated(providers, k)
       /\ todo' = [todo EXCEPT ![r] = @ \ {k}]
  /\ UNCHANGED <<made, epoch, at, listed, old, retained, new, results, rotFaults>>

\* mutant: without the status of the retained keys
KeysArePresent(r) ==
  /\ retained[r] \cup {new[r]} \subseteq DOMAIN providers
  /\ providers[new[r]].active

\* the second inventory: everything retained, passive, and the new key active
KeysAreRight(r) ==
  /\ retained[r] \cup {new[r]} \subseteq DOMAIN providers
  /\ \A k \in retained[r] : ~providers[k].active
  /\ providers[new[r]].active

Check(r) ==
  /\ at[r] = "passivate" /\ todo[r] = {} /\ KeysAreRight(r)
  /\ Goto(r, "jwks")
  /\ UNCHANGED <<providers, made, epoch, listed, old, retained, new, todo,
                 results, rotFaults>>

\* mutant: the process hangs
ExitsNever(r) == UNCHANGED rotation

\* the process ends: what it read is gone
Exits(r) ==
  /\ Goto(r, "idle")
  /\ listed' = [listed EXCEPT ![r] = << >>]
  /\ old' = [old EXCEPT ![r] = NoKey] /\ new' = [new EXCEPT ![r] = NoKey]
  /\ retained' = [retained EXCEPT ![r] = {}] /\ todo' = [todo EXCEPT ![r] = {}]

RotationResult(r) ==
  [old |-> old[r], retained |-> retained[r], new |-> new[r]]

\* the JWKS publishes active and passive keys; then the result is written
WriteResult(r) ==
  /\ at[r] = "jwks" /\ retained[r] \cup {new[r]} \subseteq DOMAIN providers
  /\ results' = results \cup {RotationResult(r)}
  /\ Exits(r)
  /\ UNCHANGED <<providers, made, epoch, rotFaults>>

\* the script ends with exit code 1: a check does not hold, a component read
\* before a replacement is gone (404), no other key signs within 30 seconds
CheckFails(r) ==
  \/ at[r] = "poll" /\ Signing(providers) = old[r]
  \/ at[r] = "passivate" /\ \E k \in todo[r] : k \notin DOMAIN providers
  \/ at[r] = "passivate" /\ todo[r] = {} /\ ~KeysAreRight(r)
  \/ at[r] = "jwks" /\ ~(retained[r] \cup {new[r]} \subseteq DOMAIN providers)

GiveUp(r) ==
  /\ CheckFails(r) /\ Exits(r)
  /\ UNCHANGED <<providers, made, epoch, results, rotFaults>>

\* a call fails, also after its effect
CallFails(r) ==
  /\ at[r] # "idle" /\ rotFaults < MaxRotFaults
  /\ rotFaults' = rotFaults + 1 /\ Exits(r)
  /\ \/ UNCHANGED <<providers, made>>
     \/ at[r] = "post" /\ made < MaxProviders /\ CreateProvider(r)
     \/ at[r] = "passivate" /\ UNCHANGED made
        /\ \E k \in todo[r] \cap DOMAIN providers : providers' = Deactivated(providers, k)
  /\ UNCHANGED <<epoch, results>>

\* the configuration service replaces the realm: Keycloak generates its keys
NewRealm ==
  /\ made < MaxProviders
  /\ providers' = [k \in {made + 1} |-> Provider(1, 0, TRUE)]
  /\ made' = made + 1 /\ epoch' = epoch + 1
  /\ results' = {}

Advance(r) ==
  \/ ReadKeys(r) \/ PostProvider(r) \/ SeeNewKey(r) \/ Passivate(r) \/ Check(r)

Fails(r) == GiveUp(r) \/ CallFails(r)

Rotate(r) == ReadComponents(r) \/ Advance(r) \/ WriteResult(r) \/ Fails(r)

ReplaceRealm == NewRealm /\ UNCHANGED <<rotation, rotFaults>>

RotNext == (\E r \in Rotations : Rotate(r)) \/ ReplaceRealm

RotSpec == RotInit /\ [][RotNext]_rotVars

-----------------------------------------------------------------------------
(* However rotations overlap, fail and race replacements, the realm always *)
(* has an active signing key: rotations cannot retire each other's keys    *)
(* until none is left.                                                     *)
SomeKeySigns == Active(providers) # {}

(* A key that a written result calls retained stays published in its realm *)
(* and never signs again.                                                  *)
RetiredKeysStay ==
  \A result \in results :
    /\ result.retained \subseteq DOMAIN providers
    /\ \A k \in result.retained : ~providers[k].active
=============================================================================
