------------------------------ MODULE EpochKey ------------------------------
(***************************************************************************)
(* What the epoch key promises (proof/rs_epoch_gf8.h), without seeds or    *)
(* trees: memory and every file hold a set of epoch keys.  Memory only     *)
(* loses keys from below, except by loading a file; the keys of an         *)
(* identity are created for all its epochs at once, and never again.       *)
(***************************************************************************)
EXTENDS Naturals, TLAPS

CONSTANTS Members, Files, MaxEpochs

VARIABLES mem, disk, born

Init ==
  /\ mem = {}
  /\ disk = [f \in Files |-> {}]
  /\ born = {}

\* An identity is created with the keys of all its n epochs.
Enrol(m, n) ==
  /\ mem = {} /\ m \notin born
  /\ mem' = {m} \X (0..(n - 1))
  /\ born' = born \cup {m}
  /\ UNCHANGED <<disk>>

\* The epochs before t are gone from memory, and no others.
Retire(t) ==
  /\ mem' = {k \in mem : k[2] >= t}
  /\ UNCHANGED <<disk, born>>

Forget == mem' = {} /\ UNCHANGED <<disk, born>>

Save(f) == disk' = [disk EXCEPT ![f] = mem] /\ UNCHANGED <<mem, born>>

\* "A restored backup silently reverts erasure."
Restore(f) == mem' = disk[f] /\ UNCHANGED <<disk, born>>

Copy(f, g) == disk' = [disk EXCEPT ![g] = disk[f]] /\ UNCHANGED <<mem, born>>

\* Damage destroys keys and creates none.
Rot(f) ==
  /\ disk'[f] \subseteq disk[f]
  /\ disk' = [disk EXCEPT ![f] = disk'[f]]
  /\ UNCHANGED <<mem, born>>

Next ==
  \/ \E m \in Members, n \in 1..MaxEpochs : Enrol(m, n)
  \/ \E t \in 1..(MaxEpochs - 1) : Retire(t)
  \/ Forget
  \/ \E f \in Files : Save(f) \/ Restore(f) \/ Rot(f)
  \/ \E f, g \in Files : Copy(f, g)

vars == <<mem, disk, born>>

Spec == Init /\ [][Next]_vars

AllKeys == mem \cup UNION {disk[f] : f \in Files}

\* Erasure: once no copy of an identity, in memory or in a file, holds the
\* key of an epoch, nothing brings that key back, restores included.
NeverResurrected == [][born' = born => AllKeys' \subseteq AllKeys]_vars

\* Only keys of identities that were created exist anywhere.
OnlyBorn == \A k \in AllKeys : k[1] \in born

-----------------------------------------------------------------------------
(***************************************************************************)
(* Erasure, proved of the abstract epoch key for any sets of members and   *)
(* files and any number of epochs.  Epoch implements EpochKey (run epoch), *)
(* so what is proved here holds of the implementation's behaviours.        *)
(***************************************************************************)

\* mem and disk are sets of keys; the proofs need no more typing than this.
Typed == /\ disk = [f \in Files |-> disk[f]]
         /\ OnlyBorn

\* What a step puts in a copy was in a copy before, or belongs to a new
\* identity.
LEMMA StepKeepsTyped ==
  ASSUME Typed, [Next]_vars
  PROVE  Typed'
<1> USE DEF Typed, OnlyBorn, AllKeys
<1>1. ASSUME NEW m \in Members, NEW n \in 1..MaxEpochs, Enrol(m, n) PROVE Typed'
  BY <1>1 DEF Enrol
<1>2. ASSUME NEW t \in 1..(MaxEpochs - 1), Retire(t) PROVE Typed'
  BY <1>2 DEF Retire
<1>3. CASE Forget
  BY <1>3 DEF Forget
<1>4. ASSUME NEW f \in Files, Save(f) PROVE Typed'
  BY <1>4 DEF Save
<1>5. ASSUME NEW f \in Files, Restore(f) PROVE Typed'
  BY <1>5 DEF Restore
<1>6. ASSUME NEW f \in Files, Rot(f) PROVE Typed'
  BY <1>6 DEF Rot
<1>7. ASSUME NEW f \in Files, NEW g \in Files, Copy(f, g) PROVE Typed'
  BY <1>7 DEF Copy
<1>8. CASE UNCHANGED vars
  BY <1>8 DEF vars
<1> QED
  BY <1>1, <1>2, <1>3, <1>4, <1>5, <1>6, <1>7, <1>8 DEF Next

\* Only identities that were created have keys, in memory or in a file.
THEOREM KeysAreBorn == Spec => []OnlyBorn
<1>1. Init => Typed
  BY DEF Init, Typed, OnlyBorn, AllKeys
<1>2. Typed /\ [Next]_vars => Typed'
  BY StepKeepsTyped
<1>3. Typed => OnlyBorn
  BY DEF Typed
<1> QED
  BY <1>1, <1>2, <1>3, PTL DEF Spec

LEMMA StepErases ==
  ASSUME Typed, [Next]_vars, born' = born
  PROVE  AllKeys' \subseteq AllKeys
<1> USE DEF Typed, AllKeys
<1>1. ASSUME NEW m \in Members, NEW n \in 1..MaxEpochs, Enrol(m, n) PROVE FALSE
  BY <1>1 DEF Enrol
<1>2. ASSUME NEW t \in 1..(MaxEpochs - 1), Retire(t) PROVE AllKeys' \subseteq AllKeys
  BY <1>2 DEF Retire
<1>3. CASE Forget
  BY <1>3 DEF Forget
<1>4. ASSUME NEW f \in Files, Save(f) PROVE AllKeys' \subseteq AllKeys
  BY <1>4 DEF Save
<1>5. ASSUME NEW f \in Files, Restore(f) PROVE AllKeys' \subseteq AllKeys
  BY <1>5 DEF Restore
<1>6. ASSUME NEW f \in Files, Rot(f) PROVE AllKeys' \subseteq AllKeys
  BY <1>6 DEF Rot
<1>7. ASSUME NEW f \in Files, NEW g \in Files, Copy(f, g) PROVE AllKeys' \subseteq AllKeys
  BY <1>7 DEF Copy
<1>8. CASE UNCHANGED vars
  BY <1>8 DEF vars
<1> QED
  BY <1>1, <1>2, <1>3, <1>4, <1>5, <1>6, <1>7, <1>8 DEF Next

\* Erasure is final: a key no copy holds is never held again, whatever is
\* saved, copied, damaged and restored (rs_epoch_gf8.h, forward security).
THEOREM ErasureIsFinal == Spec => NeverResurrected
<1>1. Init => Typed
  BY DEF Init, Typed, OnlyBorn, AllKeys
<1>2. Typed /\ [Next]_vars => Typed'
  BY StepKeepsTyped
<1>3. Typed /\ [Next]_vars => [born' = born => AllKeys' \subseteq AllKeys]_vars
  BY StepErases
<1> QED
  BY <1>1, <1>2, <1>3, PTL DEF Spec, NeverResurrected
=============================================================================
