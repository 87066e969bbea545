------------------------- MODULE KeyRotationProofs -------------------------
(***************************************************************************)
(* Proofs about KeyRotation, for any number of overlapping rotations and   *)
(* any bounds.                                                             *)
(*                                                                         *)
(* The argument: providers are numbered by their creation, and the newest  *)
(* one is active, because a rotation deactivates only providers it listed  *)
(* before it created one itself, which the newest one is not.              *)
(***************************************************************************)
EXTENDS KeyRotation, TLAPS

Labels == {"idle", "keys", "post", "poll", "passivate", "jwks"}

Shape ==
  /\ made \in Nat \ {0}
  /\ at \in [Rotations -> Labels]
  /\ DOMAIN listed = Rotations
  /\ DOMAIN old = Rotations
  /\ DOMAIN new = Rotations
  /\ DOMAIN retained = Rotations
  /\ DOMAIN todo = Rotations

Numbered == DOMAIN providers \subseteq 1 .. made

NewestSigns == made \in DOMAIN providers /\ providers[made].active

\* what a rotation listed is older than what it created
ListedOlder ==
  \A r \in Rotations :
    /\ at[r] \in {"keys", "post"} => DOMAIN listed[r] \subseteq 1 .. made
    /\ at[r] \in {"poll", "passivate"} => DOMAIN listed[r] \subseteq 1 .. (made - 1)
    /\ at[r] = "passivate" => todo[r] \subseteq DOMAIN listed[r]

\* what it retains existed when it read the keys, and was passive when checked
RetainedOld ==
  \A r \in Rotations :
    /\ retained[r] \subseteq 1 .. made
    /\ at[r] = "jwks" =>
         \A k \in retained[r] \cap DOMAIN providers : ~providers[k].active

RInv ==
  Shape /\ Numbered /\ NewestSigns /\ ListedOlder /\ RetainedOld /\ RetiredKeysStay

LEMMA InitInv == RotInit => RInv
  BY DEF RotInit, RInv, Shape, Numbered, NewestSigns, ListedOlder, RetainedOld,
         RetiredKeysStay, Labels, Provider

-----------------------------------------------------------------------------
(* What the two ways to change the providers do to the invariant.          *)

LEMMA DeactivatedFacts ==
  ASSUME NEW p, NEW k \in DOMAIN p, NEW q, q = Deactivated(p, k)
  PROVE  /\ DOMAIN q = DOMAIN p
         /\ ~q[k].active
         /\ \A j \in DOMAIN p : j # k => q[j] = p[j]
  BY DEF Deactivated, Provider

(* The parts of the invariant that speak of providers and made survive     *)
(* either change, for every rotation that keeps its place.                 *)
LEMMA CreateKeeps ==
  ASSUME RInv, NEW r \in Rotations, CreateProvider(r)
  PROVE  /\ made' = made + 1
         /\ Numbered' /\ NewestSigns'
         /\ \A k \in 1 .. made : k \in DOMAIN providers' =>
               k \in DOMAIN providers /\ providers'[k] = providers[k]
         /\ \A k \in DOMAIN providers :
               k \in DOMAIN providers' /\ providers'[k] = providers[k]
<1>1. PICK rank \in {0, 1} :
        providers' = Added(providers, made + 1,
                           Provider(NewPriority(listed[r]), rank, TRUE))
  BY DEF CreateProvider
<1>2. made' = made + 1
  BY DEF CreateProvider
<1>3. /\ DOMAIN providers' = DOMAIN providers \cup {made + 1}
      /\ providers'[made + 1] = Provider(NewPriority(listed[r]), rank, TRUE)
      /\ \A j \in DOMAIN providers : j # made + 1 => providers'[j] = providers[j]
  BY <1>1 DEF Added
<1>4. made \in Nat /\ DOMAIN providers \subseteq 1 .. made
  BY DEF RInv, Shape, Numbered
<1>5. providers'[made + 1].active
  BY <1>3 DEF Provider
<1>6. \A k \in 1 .. made : k # made + 1
  BY <1>4
<1>7. Numbered' /\ NewestSigns'
  <2>1. DOMAIN providers' \subseteq 1 .. made'
    BY <1>2, <1>3, <1>4
  <2> QED
    BY <2>1, <1>2, <1>3, <1>5 DEF Numbered, NewestSigns
<1> QED
  BY <1>2, <1>3, <1>4, <1>6, <1>7

LEMMA DeactivateKeeps ==
  ASSUME RInv, NEW r \in Rotations, at[r] = "passivate",
         NEW k \in todo[r] \cap DOMAIN providers,
         providers' = Deactivated(providers, k), made' = made
  PROVE  /\ Numbered' /\ NewestSigns'
         /\ DOMAIN providers' = DOMAIN providers
         /\ \A j \in DOMAIN providers : providers'[j].active => providers[j].active
<1>1. /\ DOMAIN providers' = DOMAIN providers
      /\ ~providers'[k].active
      /\ \A j \in DOMAIN providers : j # k => providers'[j] = providers[j]
  BY DeactivatedFacts
<1>2. k # made
  BY DEF RInv, Shape, ListedOlder
<1>3. Numbered /\ NewestSigns
  BY DEF RInv
<1> QED
  BY <1>1, <1>2, <1>3 DEF Numbered, NewestSigns

\* a rotation that ends
LEMMA ExitKeeps ==
  ASSUME RInv, NEW r \in Rotations, Exits(r)
  PROVE  /\ \A q \in Rotations : q # r =>
               /\ at'[q] = at[q] /\ listed'[q] = listed[q]
               /\ retained'[q] = retained[q] /\ todo'[q] = todo[q]
         /\ at'[r] = "idle" /\ retained'[r] = {}
         /\ at' \in [Rotations -> Labels]
         /\ DOMAIN listed' = Rotations /\ DOMAIN old' = Rotations
         /\ DOMAIN new' = Rotations /\ DOMAIN retained' = Rotations
         /\ DOMAIN todo' = Rotations
  BY DEF Exits, Goto, RInv, Shape, Labels

-----------------------------------------------------------------------------
(* Every step keeps the invariant.                                         *)

\* the steps of rotation r that only read
Untouched == UNCHANGED <<providers, made, results>>

LEMMA ReadingKeeps ==
  ASSUME RInv, NEW r \in Rotations,
         ReadComponents(r) \/ ReadKeys(r) \/ SeeNewKey(r) \/ Check(r)
  PROVE  RInv'
<1>1. Untouched
  BY DEF Untouched, ReadComponents, ReadKeys, SeeNewKey, Check
<1>2. Shape'
  BY DEF RInv, Shape, Labels, ReadComponents, ReadKeys, SeeNewKey, Check, Goto
<1>3. Numbered' /\ NewestSigns' /\ RetiredKeysStay'
  BY <1>1 DEF RInv, Untouched, Numbered, NewestSigns, RetiredKeysStay
<1>4. ListedOlder'
  <2>1. SUFFICES ASSUME NEW q \in Rotations
                 PROVE  /\ at'[q] \in {"keys", "post"} => DOMAIN listed'[q] \subseteq 1 .. made
                        /\ at'[q] \in {"poll", "passivate"}
                             => DOMAIN listed'[q] \subseteq 1 .. (made - 1)
                        /\ at'[q] = "passivate" => todo'[q] \subseteq DOMAIN listed'[q]
    BY <1>1 DEF ListedOlder, Untouched
  <2>2. CASE ReadComponents(r)
    BY <2>2 DEF RInv, Shape, Numbered, ListedOlder, ReadComponents, Goto
  <2>3. CASE ReadKeys(r)
    BY <2>3 DEF RInv, Shape, ListedOlder, ReadKeys, Goto
  <2>4. CASE SeeNewKey(r)
    BY <2>4 DEF RInv, Shape, ListedOlder, SeeNewKey, Goto
  <2>5. CASE Check(r)
    BY <2>5 DEF RInv, Shape, ListedOlder, Check, Goto
  <2> QED
    BY <2>2, <2>3, <2>4, <2>5
<1>5. RetainedOld'
  <2>1. SUFFICES ASSUME NEW q \in Rotations
                 PROVE  /\ retained'[q] \subseteq 1 .. made
                        /\ at'[q] = "jwks" =>
                             \A k \in retained'[q] \cap DOMAIN providers : ~providers[k].active
    BY <1>1 DEF RetainedOld, Untouched
  <2>2. CASE ReadComponents(r)
    BY <2>2 DEF RInv, Shape, RetainedOld, ReadComponents, Goto
  <2>3. CASE ReadKeys(r)
    BY <2>3 DEF RInv, Shape, Numbered, RetainedOld, ReadKeys, Goto
  <2>4. CASE SeeNewKey(r)
    BY <2>4 DEF RInv, Shape, RetainedOld, SeeNewKey, Goto
  <2>5. CASE Check(r)
    BY <2>5 DEF RInv, Shape, RetainedOld, Check, KeysAreRight, Goto
  <2> QED
    BY <2>2, <2>3, <2>4, <2>5
<1> QED
  BY <1>2, <1>3, <1>4, <1>5 DEF RInv

LEMMA PostKeeps ==
  ASSUME RInv, NEW r \in Rotations, PostProvider(r)
  PROVE  RInv'
<1>1. /\ made' = made + 1 /\ Numbered' /\ NewestSigns'
      /\ \A k \in 1 .. made : k \in DOMAIN providers' =>
            k \in DOMAIN providers /\ providers'[k] = providers[k]
      /\ \A k \in DOMAIN providers :
            k \in DOMAIN providers' /\ providers'[k] = providers[k]
  BY CreateKeeps DEF PostProvider
<1>2. made \in Nat \ {0}
  BY DEF RInv, Shape
<1>3. Shape'
  BY <1>1, <1>2 DEF RInv, Shape, Labels, PostProvider, Goto
<1>4. ListedOlder'
  BY <1>1, <1>2 DEF RInv, Shape, ListedOlder, PostProvider, Goto
<1>5. RetainedOld'
  BY <1>1, <1>2 DEF RInv, Shape, RetainedOld, PostProvider, Goto
<1>6. RetiredKeysStay'
  BY <1>1 DEF RInv, RetiredKeysStay, PostProvider
<1> QED
  BY <1>1, <1>3, <1>4, <1>5, <1>6 DEF RInv

LEMMA PassivateKeeps ==
  ASSUME RInv, NEW r \in Rotations, Passivate(r)
  PROVE  RInv'
<1>1. PICK k \in todo[r] \cap DOMAIN providers :
        /\ providers' = Deactivated(providers, k)
        /\ todo' = [todo EXCEPT ![r] = @ \ {k}]
  BY DEF Passivate
<1>2. /\ Numbered' /\ NewestSigns'
      /\ DOMAIN providers' = DOMAIN providers
      /\ \A j \in DOMAIN providers : providers'[j].active => providers[j].active
  BY <1>1, DeactivateKeeps DEF Passivate
<1>3. Shape'
  BY <1>1 DEF RInv, Shape, Passivate
<1>4. ListedOlder'
  BY <1>1 DEF RInv, Shape, ListedOlder, Passivate
<1>5. RetainedOld'
  BY <1>2 DEF RInv, RetainedOld, Passivate
<1>6. RetiredKeysStay'
  BY <1>2 DEF RInv, RetiredKeysStay, Passivate
<1> QED
  BY <1>2, <1>3, <1>4, <1>5, <1>6 DEF RInv

LEMMA WriteKeeps ==
  ASSUME RInv, NEW r \in Rotations, WriteResult(r)
  PROVE  RInv'
<1>1. Exits(r) /\ UNCHANGED <<providers, made>>
  BY DEF WriteResult
<1>2. Shape' /\ Numbered' /\ NewestSigns' /\ ListedOlder' /\ RetainedOld'
  BY <1>1, ExitKeeps
     DEF RInv, Shape, Numbered, NewestSigns, ListedOlder, RetainedOld
<1>3. RetiredKeysStay'
  BY DEF RInv, RetainedOld, RetiredKeysStay, WriteResult, RotationResult
<1> QED
  BY <1>2, <1>3 DEF RInv

LEMMA FailsKeeps ==
  ASSUME RInv, NEW r \in Rotations, Fails(r)
  PROVE  RInv'
<1>1. Exits(r) /\ results' = results
  BY DEF Fails, GiveUp, CallFails
<1>2. CASE UNCHANGED <<providers, made>>
  BY <1>1, <1>2, ExitKeeps
     DEF RInv, Shape, Numbered, NewestSigns, ListedOlder, RetainedOld, RetiredKeysStay
<1>3. CASE CreateProvider(r)
  <2>1. /\ made' = made + 1 /\ Numbered' /\ NewestSigns'
        /\ \A k \in 1 .. made : k \in DOMAIN providers' =>
              k \in DOMAIN providers /\ providers'[k] = providers[k]
        /\ \A k \in DOMAIN providers :
              k \in DOMAIN providers' /\ providers'[k] = providers[k]
    BY <1>3, CreateKeeps
  <2>2. made \in Nat \ {0}
    BY DEF RInv, Shape
  <2>3. Shape' /\ ListedOlder' /\ RetainedOld' /\ RetiredKeysStay'
    BY <1>1, <2>1, <2>2, ExitKeeps
       DEF RInv, Shape, ListedOlder, RetainedOld, RetiredKeysStay
  <2> QED
    BY <2>1, <2>3 DEF RInv
<1>4. CASE at[r] = "passivate" /\ UNCHANGED made
           /\ \E k \in todo[r] \cap DOMAIN providers : providers' = Deactivated(providers, k)
  <2>1. /\ Numbered' /\ NewestSigns'
        /\ DOMAIN providers' = DOMAIN providers
        /\ \A j \in DOMAIN providers : providers'[j].active => providers[j].active
    BY <1>4, DeactivateKeeps
  <2>2. Shape' /\ ListedOlder' /\ RetainedOld' /\ RetiredKeysStay'
    BY <1>1, <1>4, <2>1, ExitKeeps
       DEF RInv, Shape, ListedOlder, RetainedOld, RetiredKeysStay
  <2> QED
    BY <2>1, <2>2 DEF RInv
<1> QED
  BY <1>2, <1>3, <1>4 DEF Fails, GiveUp, CallFails

LEMMA ReplaceKeeps ==
  ASSUME RInv, NewRealm, UNCHANGED <<rotation, rotFaults>>
  PROVE  RInv'
<1>1. made' = made + 1 /\ made \in Nat \ {0} /\ results' = {}
  BY DEF NewRealm, RInv, Shape
<1>2. /\ DOMAIN providers' = {made + 1}
      /\ providers'[made + 1].active
  BY DEF NewRealm, Provider
<1>3. Shape' /\ Numbered' /\ NewestSigns' /\ RetiredKeysStay'
  BY <1>1, <1>2 DEF RInv, Shape, Numbered, NewestSigns, RetiredKeysStay, rotation
<1>4. ListedOlder'
  BY <1>1 DEF RInv, ListedOlder, rotation
<1>5. RetainedOld'
  BY <1>1, <1>2 DEF RInv, RetainedOld, rotation
<1> QED
  BY <1>3, <1>4, <1>5 DEF RInv

LEMMA StepInv == RInv /\ [RotNext]_rotVars => RInv'
<1> SUFFICES ASSUME RInv, [RotNext]_rotVars PROVE RInv'
  OBVIOUS
<1>1. ASSUME NEW r \in Rotations, Rotate(r) PROVE RInv'
  BY <1>1, ReadingKeeps, PostKeeps, PassivateKeeps, WriteKeeps, FailsKeeps
     DEF Rotate, Advance
<1>2. CASE ReplaceRealm
  BY <1>2, ReplaceKeeps DEF ReplaceRealm
<1>3. CASE UNCHANGED rotVars
  BY <1>3 DEF RInv, Shape, Numbered, NewestSigns, ListedOlder, RetainedOld,
              RetiredKeysStay, rotVars, rotation
<1> QED
  BY <1>1, <1>2, <1>3 DEF RotNext

LEMMA RotationInvariant == RotSpec => []RInv
  BY InitInv, StepInv, PTL DEF RotSpec

(* However many rotations overlap, fail and race replacements of the realm *)
(* (rotate_signing_key.py:152 deactivates what was listed before the POST),*)
(* the realm keeps an active signing key.                                  *)
THEOREM RotationKeepsAKey == RotSpec => []SomeKeySigns
<1>1. RInv => SomeKeySigns
  BY DEF RInv, NewestSigns, SomeKeySigns, Active
<1> QED
  BY <1>1, RotationInvariant, PTL

(* Keys that a written result calls retained stay published and passive    *)
(* (rotate_signing_key.py:169-185).                                        *)
THEOREM RotationRetires == RotSpec => []RetiredKeysStay
<1>1. RInv => RetiredKeysStay
  BY DEF RInv
<1> QED
  BY <1>1, RotationInvariant, PTL
=============================================================================
