-------------------------- MODULE LifecycleProofs ---------------------------
(***************************************************************************)
(* Proofs about what must outlive a restart: the system's state and its     *)
(* single writer, the life of a strategy, the backups of the database and  *)
(* the day's performance record.                                            *)
(***************************************************************************)
EXTENDS SystemState, StrategyLifecycle, Backups, Monitoring, Sums, TLAPS

(***************************************************************************)
(* What the system_state row guarantees whichever updates overlap, for any *)
(* number of callers, codes, failing commits and restarts.  A caller's     *)
(* copy agrees with the row in all that has not been written during its    *)
(* call, and a thread can only use a code it was accepted with before the  *)
(* code was spent.                                                         *)
(***************************************************************************)

Types ==
    /\ DOMAIN pc = Callers /\ DOMAIN op = Callers /\ DOMAIN copy = Callers
    /\ DOMAIN during = Callers
    /\ row \in Rows /\ \A c \in Callers : copy[c] \in Rows
    /\ issued \in 0..MaxCodes /\ code \in 0..issued
    /\ uses \in [1..MaxCodes -> Nat]

Busy(c) == pc[c] # "idle"

Activating(c) == c # "breakers" /\ op[c] = [kind |-> "activate"]
Deactivating(c) ==
    c \in Api /\ \E k \in 1..issued : op[c] = [kind |-> "deactivate", given |-> k]
SavingBreakers(c) ==
    c = "breakers" /\ \E b \in Breakers : op[c] = [kind |-> "dict", breakers |-> b]
SavingRegime(c) ==
    c = "router" /\ \E b \in Breakers : op[c] = [kind |-> "dict", breakers |-> b]

(* What a call is going to write.                                          *)
Pending ==
    \A c \in Callers : Busy(c) =>
        Activating(c) \/ Deactivating(c) \/ SavingBreakers(c) \/ SavingRegime(c)

(* A copy that would clear the switch is a deactivation's, or older than   *)
(* the switch.                                                             *)
HaltSeen ==
    \A c \in Callers :
        pc[c] = "commit" /\ row.active /\ ~copy[c].active =>
            op[c].kind = "deactivate" \/ "set" \in during[c]

(* What a call of somebody else holds of the breakers is what was saved,   *)
(* unless they were saved during it; the manager's own copy is its own.    *)
SavedSeen ==
    /\ "saved" \notin lost =>
          \A c \in Callers : Busy(c) /\ c # "breakers" /\ "saved" \notin during[c] =>
              /\ op[c].kind = "dict" => op[c].breakers = stored
              /\ pc[c] = "commit" => copy[c].breakers = stored
    /\ \A c \in Callers :
          pc[c] = "commit" /\ c = "breakers" => copy[c].breakers = op[c].breakers

(* The threads that were accepted with code k and have not committed.      *)
Holders(k) == {c \in Api : Busy(c) /\ op[c] = [kind |-> "deactivate", given |-> k]}

Codes ==
    /\ code # 0 => uses[code] = 0
    /\ \A k \in 1..MaxCodes :
          /\ k > issued => uses[k] = 0
          /\ uses[k] + Cardinality(Holders(k)) <= Cardinality(Api)

SystemInv == Types /\ Pending /\ HaltSeen /\ SavedSeen /\ BreakersSurvive /\ Codes

LEMMA ApiFacts ==
    /\ IsFiniteSet(Api) /\ Cardinality(Api) \in Nat /\ MaxCodes \in Nat
    /\ Api \subseteq Callers /\ {"router", "breakers", "watchdog"} \subseteq Callers
    /\ \A c \in Api : c # "breakers" /\ c # "router"
  BY NamesAssumption, SystemBoundsAssumption, FS_CardinalityType DEF Callers

LEMMA HoldersCounted ==
    \A k : /\ IsFiniteSet(Holders(k)) /\ Cardinality(Holders(k)) \in Nat
           /\ Cardinality(Holders(k)) <= Cardinality(Api)
<1> SUFFICES ASSUME NEW k
             PROVE  /\ IsFiniteSet(Holders(k)) /\ Cardinality(Holders(k)) \in Nat
                    /\ Cardinality(Holders(k)) <= Cardinality(Api)
  OBVIOUS
<1>1. Holders(k) \subseteq Api
  BY DEF Holders
<1> QED
  BY <1>1, ApiFacts, FS_Subset, FS_CardinalityType

LEMMA SystemInitial == SystemInit => SystemInv
<1> SUFFICES ASSUME SystemInit PROVE SystemInv
  OBVIOUS
<1>1. \A c \in Callers : ~Busy(c)
  BY DEF SystemInit, Busy
<1>2. Types /\ Pending /\ HaltSeen /\ SavedSeen /\ BreakersSurvive
  BY <1>1, SystemBoundsAssumption
  DEF SystemInit, Types, Busy, Pending, HaltSeen, SavedSeen, BreakersSurvive, Fresh, Rows, Breakers
<1>3. \A k \in 1..MaxCodes : uses[k] = 0 /\ Cardinality(Holders(k)) <= Cardinality(Api)
  BY HoldersCounted DEF SystemInit
<1>4. Codes
  BY <1>3, HoldersCounted, ApiFacts DEF SystemInit, Codes
<1> QED
  BY <1>2, <1>4 DEF SystemInv

(***************************************************************************)
(* A call begins: the row stays as it is, and what is chosen from it is    *)
(* current.                                                                *)
(***************************************************************************)
LEMMA CallBegins ==
    ASSUME SystemInv, NEW c \in Callers, MayCall(c), NEW o, Call(c, o),
           UNCHANGED <<row, codeVars, savedVars>>,
           \/ c # "breakers" /\ o = [kind |-> "activate"]
           \/ c \in Api /\ \E k \in 1..issued : o = [kind |-> "deactivate", given |-> k] /\ uses[k] = 0
           \/ c = "breakers" /\ \E b \in Breakers : o = [kind |-> "dict", breakers |-> b]
           \/ c = "router" /\ o = [kind |-> "dict", breakers |-> row.breakers]
    PROVE  SystemInv'
<1>same. /\ copy' = copy /\ row' = row /\ code' = code /\ issued' = issued /\ uses' = uses
         /\ stored' = stored /\ during' = during /\ lost' = lost
  BY DEF Call, codeVars, savedVars
<1>types. Types /\ Codes /\ Cardinality(Api) \in Nat /\ MaxCodes \in Nat
  BY ApiFacts DEF SystemInv
<1>1. /\ DOMAIN pc' = Callers /\ DOMAIN op' = Callers
      /\ \A d \in Callers : pc'[d] = IF d = c THEN "update" ELSE pc[d]
      /\ \A d \in Callers : op'[d] = IF d = c THEN o ELSE op[d]
      /\ pc[c] = "idle"
  BY DEF Call, SystemInv, Types, MayCall
<1>3. Types'
  BY <1>1, <1>same, <1>types DEF Types
<1>4. Pending'
  <2>1. SUFFICES ASSUME NEW d \in Callers, Busy(d)'
                 PROVE  (Activating(d) \/ Deactivating(d) \/ SavingBreakers(d) \/ SavingRegime(d))'
    BY DEF Pending
  <2>2. CASE d = c
    BY <2>2, <1>1, <1>same, <1>types DEF Activating, Deactivating, SavingBreakers, SavingRegime, Types, Rows
  <2>3. CASE d # c
    <3>1. Busy(d) /\ op'[d] = op[d] /\ issued' = issued
      BY <2>1, <2>3, <1>1, <1>same DEF Busy
    <3>2. Activating(d) \/ Deactivating(d) \/ SavingBreakers(d) \/ SavingRegime(d)
      BY <3>1 DEF SystemInv, Pending
    <3> QED
      BY <3>1, <3>2 DEF Activating, Deactivating, SavingBreakers, SavingRegime
  <2> QED
    BY <2>2, <2>3
<1>5. HaltSeen' /\ BreakersSurvive'
  BY <1>1, <1>same DEF SystemInv, HaltSeen, BreakersSurvive
<1>6. SavedSeen'
  <2>1. c # "breakers" /\ o.kind = "dict" /\ "saved" \notin lost => o.breakers = stored
    BY NamesAssumption DEF SystemInv, BreakersSurvive
  <2> QED
    BY <2>1, <1>1, <1>same DEF SystemInv, SavedSeen, Busy
<1>7. Codes'
  <2>1. ASSUME NEW k \in 1..MaxCodes
        PROVE  uses[k] + Cardinality(Holders(k)') <= Cardinality(Api)
    <3>1. IsFiniteSet(Holders(k)) /\ Cardinality(Holders(k)) \in Nat
      BY HoldersCounted
    <3>2. /\ Holders(k)' \subseteq Api
          /\ uses[k] \in Nat /\ uses[k] + Cardinality(Holders(k)) <= Cardinality(Api)
      BY <1>types DEF Holders, Types, Codes
    <3>3. CASE o = [kind |-> "deactivate", given |-> k]
      <4>1. uses[k] = 0
        BY <3>3, NamesAssumption
      <4>2. Cardinality(Holders(k)') \in Nat /\ Cardinality(Holders(k)') <= Cardinality(Api)
        BY <3>2, ApiFacts, FS_Subset, FS_CardinalityType
      <4> QED
        BY <4>1, <4>2, <1>types
    <3>4. CASE o # [kind |-> "deactivate", given |-> k]
      <4>1. Holders(k)' = Holders(k)
        BY <3>4, <1>1, ApiFacts DEF Holders, Busy
      <4> QED
        BY <4>1, <3>2
    <3> QED
      BY <3>3, <3>4
  <2> QED
    BY <2>1, <1>same, <1>types DEF Codes
<1> QED
  BY <1>3, <1>4, <1>5, <1>6, <1>7 DEF SystemInv

LEMMA CopyTaken ==
    ASSUME SystemInv, NEW c \in Callers, Copy(c)
    PROVE  SystemInv'
<1>1. /\ DOMAIN pc' = Callers /\ DOMAIN copy' = Callers /\ op' = op
      /\ \A d \in Callers : pc'[d] = IF d = c THEN "commit" ELSE pc[d]
      /\ \A d \in Callers : copy'[d] = IF d = c THEN Merged(row, op[c]) ELSE copy[d]
      /\ pc[c] = "update" /\ Busy(c)
      /\ row' = row /\ code' = code /\ issued' = issued /\ uses' = uses
      /\ stored' = stored /\ during' = during /\ lost' = lost
  BY DEF Copy, SystemInv, Types, codeVars, savedVars, Busy
<1>2. \A d \in Callers : Busy(d)' <=> Busy(d)
  BY <1>1 DEF Busy
<1>what. Activating(c) \/ Deactivating(c) \/ SavingBreakers(c) \/ SavingRegime(c)
  BY <1>1 DEF SystemInv, Pending
<1>row. row \in Rows
  BY DEF SystemInv, Types
<1>3. /\ Merged(row, op[c]) \in Rows
      /\ row.active /\ ~Merged(row, op[c]).active => op[c].kind = "deactivate"
      /\ Merged(row, op[c]).breakers = IF op[c].kind = "dict" THEN op[c].breakers ELSE row.breakers
      /\ c = "breakers" => op[c].kind = "dict"
  <2>1. CASE Activating(c)
    <3>1. op[c].kind = "activate" /\ c # "breakers"
      BY <2>1 DEF Activating
    <3> QED
      BY <3>1, <1>row DEF Merged, Rows
  <2>2. CASE Deactivating(c)
    <3>1. op[c].kind = "deactivate" /\ c # "breakers"
      BY <2>2, NamesAssumption DEF Deactivating
    <3> QED
      BY <3>1, <1>row DEF Merged, Rows
  <2>3. CASE SavingBreakers(c) \/ SavingRegime(c)
    <3>1. PICK b \in Breakers : op[c] = [kind |-> "dict", breakers |-> b]
      BY <2>3 DEF SavingBreakers, SavingRegime
    <3>2. op[c].kind = "dict" /\ op[c].breakers = b
      BY <3>1
    <3> QED
      BY <3>2, <1>row DEF Merged, Rows
  <2> QED
    BY <1>what, <2>1, <2>2, <2>3
<1>4. Types' /\ BreakersSurvive'
  BY <1>1, <1>3 DEF SystemInv, Types, BreakersSurvive
<1>5. Pending'
  BY <1>1, <1>2 DEF SystemInv, Pending, Activating, Deactivating, SavingBreakers, SavingRegime
<1>6. HaltSeen'
  BY <1>1, <1>3 DEF SystemInv, HaltSeen
<1>7. SavedSeen'
  BY <1>1, <1>2, <1>3 DEF SystemInv, SavedSeen, BreakersSurvive
<1>8. Codes'
  <2>1. \A k : Holders(k)' = Holders(k)
    BY <1>1, <1>2, ApiFacts DEF Holders
  <2> QED
    BY <2>1, <1>1 DEF SystemInv, Codes
<1> QED
  BY <1>4, <1>5, <1>6, <1>7, <1>8 DEF SystemInv

(***************************************************************************)
(* A commit writes the copy; who is at a call of its own gets to know.     *)
(***************************************************************************)
LEMMA CommitLeaves ==
    ASSUME SystemInv, NEW c \in Callers, Commit(c)
    PROVE  /\ DOMAIN pc' = Callers /\ DOMAIN op' = Callers /\ DOMAIN copy' = Callers
           /\ DOMAIN during' = Callers
           /\ pc[c] = "commit" /\ Busy(c) /\ pc'[c] = "idle" /\ copy'[c] = Fresh
           /\ \A d \in Callers : d # c => /\ pc'[d] = pc[d] /\ op'[d] = op[d] /\ copy'[d] = copy[d]
                                          /\ Busy(d) => during[d] \subseteq during'[d]
           /\ issued' = issued
  BY DEF Commit, SystemInv, Types, Told, Busy

LEMMA CommitKeepsCodes ==
    ASSUME SystemInv, NEW c \in Callers, Commit(c)
    PROVE  code' \in 0..issued /\ uses' \in [1..MaxCodes -> Nat] /\ Codes'
<1>types. /\ Types /\ Codes /\ Cardinality(Api) \in Nat /\ MaxCodes \in Nat
          /\ issued \in 0..MaxCodes /\ code \in 0..issued /\ uses \in [1..MaxCodes -> Nat]
  BY ApiFacts DEF SystemInv, Types
<1>kept. ASSUME NEW k \in 1..MaxCodes
         PROVE  /\ Holders(k)' = Holders(k) \ {c}
                /\ Cardinality(Holders(k)) \in Nat /\ Cardinality(Holders(k)') \in Nat
                /\ Cardinality(Holders(k)') <= Cardinality(Holders(k))
                /\ c \in Holders(k) => Cardinality(Holders(k)') = Cardinality(Holders(k)) - 1
  <2>1. Holders(k)' = Holders(k) \ {c}
    BY CommitLeaves, ApiFacts DEF Holders, Busy
  <2> QED
    BY <2>1, HoldersCounted, FS_RemoveElement, FS_Subset, FS_CardinalityType
<1>1. CASE UNCHANGED <<code, uses>>
  <2>1. ASSUME NEW k \in 1..MaxCodes
        PROVE  uses[k] + Cardinality(Holders(k)') <= Cardinality(Api)
    <3>1. uses[k] \in Nat /\ uses[k] + Cardinality(Holders(k)) <= Cardinality(Api)
      BY <1>types DEF Codes
    <3> QED
      BY <3>1, <1>kept, <1>types
  <2> QED
    BY <1>1, <2>1, <1>types, CommitLeaves DEF Codes
<1>2. CASE code' = CodeAfter(op[c]) /\ uses' = Used(op[c])
  <2>0. Busy(c)
    BY CommitLeaves
  <2>1. CASE Deactivating(c)
    <3>1. PICK k \in 1..issued : op[c] = [kind |-> "deactivate", given |-> k]
      BY <2>1 DEF Deactivating
    <3>2. op[c].kind = "deactivate" /\ op[c].given = k
      BY <3>1
    <3>3. code' = 0
      BY <1>2, <3>2 DEF CodeAfter
    <3>4. \A j \in 1..MaxCodes : uses'[j] = IF k = j /\ row.active THEN uses[j] + 1 ELSE uses[j]
      BY <1>2, <3>2 DEF Used
    <3>5. uses' \in [1..MaxCodes -> Nat]
      BY <1>2, <1>types DEF Used
    <3>6. c \in Holders(k)
      BY <2>0, <2>1, <3>1 DEF Holders, Deactivating
    <3>7. ASSUME NEW j \in 1..MaxCodes
          PROVE  /\ j > issued => uses'[j] = 0
                 /\ uses'[j] + Cardinality(Holders(j)') <= Cardinality(Api)
      <4>1. /\ uses[j] \in Nat /\ uses[j] + Cardinality(Holders(j)) <= Cardinality(Api)
            /\ j > issued => uses[j] = 0
        BY <1>types DEF Codes
      <4>2. CASE j = k
        <5>1. c \in Holders(j)
          BY <4>2, <3>6
        <5>2. /\ Cardinality(Holders(j)) \in Nat
              /\ Cardinality(Holders(j)') = Cardinality(Holders(j)) - 1
          BY <5>1, <1>kept
        <5>3. uses'[j] = uses[j] \/ uses'[j] = uses[j] + 1
          BY <3>4
        <5>4. ~(j > issued)
          BY <4>2, <1>types
        <5>5. uses'[j] + Cardinality(Holders(j)') <= Cardinality(Api)
          <6>1. PICK n \in Nat, u \in Nat, v \in Nat :
                    n = Cardinality(Api) /\ u = uses[j] /\ v = Cardinality(Holders(j))
            BY <4>1, <5>2, <1>types
          <6>2. u + v <= n /\ Cardinality(Holders(j)') = v - 1 /\ (uses'[j] = u \/ uses'[j] = u + 1)
            BY <4>1, <5>2, <5>3, <6>1
          <6>3. u + (v - 1) <= n /\ (u + 1) + (v - 1) <= n
            BY <6>2
          <6> QED
            BY <6>1, <6>2, <6>3
        <5> QED
          BY <5>4, <5>5
      <4>3. CASE j # k
        BY <4>1, <4>3, <3>4, <1>kept, <1>types
      <4> QED
        BY <4>2, <4>3
    <3> QED
      BY <3>3, <3>5, <3>7, <1>types, CommitLeaves DEF Codes
  <2>2. CASE Activating(c) \/ SavingBreakers(c) \/ SavingRegime(c)
    <3>1. op[c].kind # "deactivate"
      <4>1. CASE Activating(c)
        BY <4>1 DEF Activating
      <4>2. CASE SavingBreakers(c) \/ SavingRegime(c)
        <5>1. PICK b \in Breakers : op[c] = [kind |-> "dict", breakers |-> b]
          BY <4>2 DEF SavingBreakers, SavingRegime
        <5> QED
          BY <5>1
      <4> QED
        BY <2>2, <4>1, <4>2
    <3>2. code' = code /\ uses' = uses
      BY <1>2, <3>1, <1>types DEF CodeAfter, Used
    <3> QED
      BY <3>2, <1>1
  <2> QED
    BY <2>0, <2>1, <2>2 DEF SystemInv, Pending
<1> QED
  BY <1>1, <1>2 DEF Commit

LEMMA Committed ==
    ASSUME SystemInv, NEW c \in Callers, Commit(c)
    PROVE  SystemInv'
<1>1. Pending'
  <2>1. SUFFICES ASSUME NEW d \in Callers, Busy(d)'
                 PROVE  (Activating(d) \/ Deactivating(d) \/ SavingBreakers(d) \/ SavingRegime(d))'
    BY DEF Pending
  <2>2. Busy(d) /\ op'[d] = op[d] /\ issued' = issued
    BY <2>1, CommitLeaves DEF Busy
  <2>3. Activating(d) \/ Deactivating(d) \/ SavingBreakers(d) \/ SavingRegime(d)
    BY <2>2 DEF SystemInv, Pending
  <2> QED
    BY <2>2, <2>3 DEF Activating, Deactivating, SavingBreakers, SavingRegime
<1>2. Types'
  <2>1. row' \in Rows /\ Fresh \in Rows
    BY DEF Commit, SystemInv, Types, Fresh, Rows, Breakers
  <2> QED
    BY <2>1, CommitLeaves, CommitKeepsCodes DEF SystemInv, Types
<1>3. CASE UNCHANGED <<row, stored, lost>>
  BY <1>1, <1>2, <1>3, CommitLeaves, CommitKeepsCodes
  DEF SystemInv, HaltSeen, SavedSeen, BreakersSurvive, Busy
<1>4. CASE /\ row' = copy[c] /\ stored' = IF c = "breakers" THEN op[c].breakers ELSE stored
           /\ during' = Told(c) /\ lost' = (lost \cup during[c]) \ Restored(c)
  <2>0. pc[c] = "commit" /\ Busy(c)
    BY CommitLeaves
  <2>1. ASSUME NEW d \in Callers, d # c, Busy(d)
        PROVE  during'[d] = during[d] \cup News(c, d)
    BY <1>4, <2>1 DEF Told, Busy
  <2>2. HaltSeen'
    <3>1. SUFFICES ASSUME NEW d \in Callers, pc'[d] = "commit", row'.active, ~copy'[d].active
                   PROVE  op'[d].kind = "deactivate" \/ "set" \in during'[d]
      BY DEF HaltSeen
    <3>2. /\ d # c /\ pc[d] = "commit" /\ Busy(d) /\ ~copy[d].active /\ op'[d] = op[d]
          /\ during[d] \subseteq during'[d]
      BY <3>1, CommitLeaves DEF Busy
    <3>3. CASE row.active
      BY <3>2, <3>3 DEF SystemInv, HaltSeen
    <3>4. CASE ~row.active
      BY <3>1, <3>2, <3>4, <2>1 DEF News
    <3> QED
      BY <3>3, <3>4
  <2>3. CASE c = "breakers"
    <3>1. \A d \in Callers : Busy(d)' /\ d # "breakers" => "saved" \in during'[d]
      BY <2>1, <2>3, CommitLeaves DEF News, Busy
    <3>2. \A d \in Callers : pc'[d] = "commit" => d # "breakers"
      BY <2>3, CommitLeaves
    <3>3. row'.breakers = stored'
      BY <1>4, <2>0, <2>3 DEF SystemInv, SavedSeen
    <3> QED
      BY <1>1, <1>2, <2>2, <3>1, <3>2, <3>3, CommitKeepsCodes DEF SystemInv, SavedSeen, BreakersSurvive
  <2>4. CASE c # "breakers"
    <3>1. stored' = stored /\ ("saved" \notin lost' => "saved" \notin lost /\ "saved" \notin during[c])
      BY <1>4, <2>4 DEF Restored
    <3>2. "saved" \notin lost' => row'.breakers = stored'
      BY <3>1, <1>4, <2>0, <2>4 DEF SystemInv, SavedSeen
    <3>3. SavedSeen'
      BY <3>1, CommitLeaves DEF SystemInv, SavedSeen, Busy
    <3> QED
      BY <1>1, <1>2, <2>2, <3>2, <3>3, CommitKeepsCodes DEF SystemInv, BreakersSurvive
  <2> QED
    BY <2>3, <2>4
<1> QED
  BY <1>3, <1>4 DEF Commit

(***************************************************************************)
(* Every step.                                                             *)
(***************************************************************************)
LEMMA SystemStep ==
    ASSUME SystemInv, [SystemNext]_systemVars
    PROVE  SystemInv'
<1>types. Types /\ Codes /\ MaxCodes \in Nat
  BY ApiFacts DEF SystemInv
<1>1. ASSUME NEW c \in Api, Activate(c) PROVE SystemInv'
  BY <1>1, ApiFacts, CallBegins DEF Activate
<1>2. ASSUME NEW c \in Api, NEW k \in 1..MaxCodes, Deactivate(c, k) PROVE SystemInv'
  <2>1. k \in 1..issued /\ uses[k] = 0
    BY <1>2, <1>types DEF Deactivate, CodeAccepted, Types, Codes
  <2>2. /\ MayCall(c) /\ Call(c, [kind |-> "deactivate", given |-> k])
        /\ UNCHANGED <<row, codeVars, savedVars>>
    BY <1>2 DEF Deactivate
  <2> QED
    BY <2>1, <2>2, ApiFacts, CallBegins
<1>3. CASE GenerateCode
  <2>1. /\ issued' = issued + 1 /\ code' = issued + 1 /\ issued < MaxCodes
        /\ UNCHANGED <<row, pc, op, copy, uses, savedVars>>
    BY <1>3 DEF GenerateCode, callVars
  <2>2. Types'
    BY <2>1, <1>types DEF Types, savedVars
  <2>3. HaltSeen' /\ SavedSeen' /\ BreakersSurvive'
    BY <2>1 DEF SystemInv, HaltSeen, SavedSeen, Busy, BreakersSurvive, savedVars
  <2>4. 1..issued \subseteq 1..issued'
    BY <2>1, <1>types DEF Types
  <2>5. Pending'
    BY <2>1, <2>4 DEF SystemInv, Pending, Busy, Activating, Deactivating, SavingBreakers, SavingRegime
  <2>6. \A k : Holders(k)' = Holders(k)
    BY <2>1 DEF Holders, Busy
  <2>7. Codes'
    BY <2>1, <2>6, <1>types DEF Types, Codes
  <2> QED
    BY <2>2, <2>3, <2>5, <2>7 DEF SystemInv
<1>4. CASE SaveBreakers
  <2>1. PICK b \in {"clear", "tripped"} : Call("breakers", [kind |-> "dict", breakers |-> b])
    BY <1>4 DEF SaveBreakers
  <2>2. MayCall("breakers") /\ UNCHANGED <<row, codeVars, savedVars>> /\ b \in Breakers
    BY <1>4 DEF SaveBreakers, Breakers
  <2> QED
    BY <2>1, <2>2, ApiFacts, CallBegins
<1>5. CASE SaveRegime
  <2>1. /\ Call("router", [kind |-> "dict", breakers |-> row.breakers])
        /\ MayCall("router") /\ UNCHANGED <<row, codeVars, savedVars>>
    BY <1>5 DEF SaveRegime, WithRegime
  <2> QED
    BY <2>1, ApiFacts, CallBegins
<1>6. ASSUME NEW c \in Callers, Step(c) PROVE SystemInv'
  BY <1>6, CopyTaken, Committed DEF Step
<1>7. ASSUME UNCHANGED <<row, callVars, codeVars, savedVars>> PROVE SystemInv'
  <2>1. \A k : Holders(k)' = Holders(k)
    BY <1>7 DEF Holders, Busy, callVars
  <2>2. Codes'
    BY <1>7, <2>1, <1>types DEF Codes, codeVars
  <2> QED
    BY <1>7, <2>2 DEF callVars, codeVars, savedVars, SystemInv, Types, Busy, Pending, Activating,
       Deactivating, SavingBreakers, SavingRegime, HaltSeen, SavedSeen, BreakersSurvive
<1>8. CASE Heartbeat \/ IntervalPasses \/ Reset
  BY <1>7, <1>8 DEF Heartbeat, IntervalPasses, Reset
<1>9. CASE Check
  <2>1. UNCHANGED <<row, codeVars, savedVars>> /\ MayCall("watchdog")
        /\ (UNCHANGED callVars \/ Call("watchdog", [kind |-> "activate"]))
    BY <1>9 DEF Check, Halt
  <2>2. CASE UNCHANGED callVars
    BY <2>1, <2>2, <1>7
  <2>3. CASE Call("watchdog", [kind |-> "activate"])
    BY <2>1, <2>3, ApiFacts, CallBegins
  <2> QED
    BY <2>1, <2>2, <2>3
<1>10. CASE Restart
  <2>1. \A c \in Callers : pc'[c] = "idle" /\ copy'[c] \in Rows
    BY <1>10 DEF Restart, Fresh, Rows, Breakers
  <2>2. Types' /\ Pending' /\ HaltSeen' /\ SavedSeen' /\ BreakersSurvive'
    BY <2>1, <1>10, <1>types
    DEF Restart, SystemInv, Types, Busy, Pending, HaltSeen, SavedSeen, BreakersSurvive
  <2>3. ASSUME NEW k \in 1..MaxCodes
        PROVE  uses[k] + Cardinality(Holders(k)') <= Cardinality(Api)
    <3>1. Holders(k)' = {}
      BY <2>1, ApiFacts DEF Holders, Busy
    <3>2. Cardinality(Holders(k)') = 0 /\ Cardinality(Holders(k)) \in Nat /\ uses[k] \in Nat
          /\ Cardinality(Api) \in Nat /\ uses[k] + Cardinality(Holders(k)) <= Cardinality(Api)
      BY <3>1, FS_EmptySet, HoldersCounted, ApiFacts, <1>types DEF Types, Codes
    <3> QED
      BY <3>2
  <2>4. Codes'
    BY <2>3, <1>10, <1>types DEF Restart, Codes
  <2> QED
    BY <2>2, <2>4 DEF SystemInv
<1>11. CASE UNCHANGED systemVars
  BY <1>7, <1>11 DEF systemVars
<1> QED
  BY <1>1, <1>2, <1>3, <1>4, <1>5, <1>6, <1>8, <1>9, <1>10, <1>11 DEF SystemNext

LEMMA SystemInvariant == SystemSpec => []SystemInv
  BY SystemInitial, SystemStep, PTL DEF SystemSpec

\* Whichever updates of the row overlap, commits fail and processes restart:
\* a code clears the switch at most once for each thread that may hold it, and
\* the breakers in the row are those last saved unless a call that was under
\* way then has committed since.
THEOREM LittleIsUndone == SystemSpec => []NothingIsUndone
<1>1. SystemInv => NothingIsUndone
  <2> SUFFICES ASSUME SystemInv, NEW k \in 1..MaxCodes
               PROVE  uses[k] <= Cardinality(Api)
    BY DEF NothingIsUndone, CodesRunOut, SystemInv
  <2>1. /\ Cardinality(Holders(k)) \in Nat /\ uses[k] \in Nat /\ Cardinality(Api) \in Nat
        /\ uses[k] + Cardinality(Holders(k)) <= Cardinality(Api)
    BY HoldersCounted, ApiFacts DEF SystemInv, Types, Codes
  <2> QED
    BY <2>1
<1> QED
  BY <1>1, SystemInvariant, PTL

\* Whichever updates overlap: whoever clears the kill switch without a code
\* had prepared its update before the switch came on.
THEOREM HaltHolds == SystemSpec => OnlyOverlappedCallsClear
<1>1. ASSUME SystemInv, [SystemNext]_systemVars
      PROVE  [row.active /\ ~row'.active =>
                 \E c \in Callers : /\ pc[c] = "commit"
                                    /\ op[c].kind = "deactivate" \/ "set" \in during[c]]_systemVars
  <2>1. SUFFICES ASSUME row.active, ~row'.active
                 PROVE  \E c \in Callers : /\ pc[c] = "commit"
                                           /\ op[c].kind = "deactivate" \/ "set" \in during[c]
    OBVIOUS
  <2>2. PICK c \in Callers : Commit(c) /\ row' # row
    BY <1>1, <2>1 DEF SystemNext, systemVars, Activate, Deactivate, GenerateCode, SaveBreakers, SaveRegime,
       Step, Copy, Heartbeat, IntervalPasses, Check, Reset, Restart
  <2>3. row' = copy[c] /\ pc[c] = "commit"
    BY <2>2 DEF Commit
  <2> QED
    BY <2>1, <2>3, <1>1 DEF SystemInv, HaltSeen
<1> QED
  BY <1>1, SystemInvariant, PTL DEF SystemSpec, OnlyOverlappedCallsClear

(***************************************************************************)
(* That the history in a strategy's row explains its status, for any       *)
(* conditions and thresholds, whichever calls overlap.  A copy may be old  *)
(* when it is saved; it was a chain that ended in its own status when it   *)
(* was read, and it brings both along.                                     *)
(***************************************************************************)

IsRow(r) ==
    r = [status |-> r.status, last |-> r.last, chained |-> r.chained,
         params |-> r.params, since |-> r.since]

RowExplains ==
    /\ IsRow(strategy)
    /\ strategy.chained = TRUE
    /\ strategy.status # "none" => strategy.last = strategy.status

(* A copy that may be saved with `to` as its next status.                  *)
Leads(c, to) ==
    /\ to # "none"
    /\ c.chained = TRUE /\ c.last = c.status
    /\ to \in ValidTransitions[c.status]

CopiesLead ==
    /\ api.pc = "save" /\ "to" \in DOMAIN api => Leads(api.copy, api.to)
    /\ monitor.pc = "demote" => Leads(monitor.copy, "underperforming")

(* The check has found a row, and rows are not deleted.                    *)
CheckHasRow ==
    /\ monitor.pc = "save" => monitor = [pc |-> "save", since |-> monitor.since, due |-> monitor.due]
    /\ monitor.pc \in {"save", "reload"} => strategy.status # "none"

HistoryInv == RowExplains /\ CopiesLead /\ CheckHasRow

LEMMA HistoryInitial == StrategyInit => HistoryInv
  BY DEF StrategyInit, HistoryInv, RowExplains, CopiesLead, CheckHasRow, IsRow, Idle

LEMMA MovedExplains ==
    ASSUME RowExplains, NEW c, NEW to, Leads(c, to), strategy' = Moved(c, to)
    PROVE  RowExplains' /\ strategy'.status # "none"
<1>1. strategy' = [status |-> to, last |-> to, chained |-> TRUE,
                   params |-> strategy.params, since |-> strategy.since]
  BY DEF Moved, Leads, RowExplains, IsRow
<1> QED
  BY <1>1 DEF RowExplains, IsRow, Leads

LEMMA CopyLeads ==
    ASSUME RowExplains, strategy.status # "none", NEW to, to # "none", MayMoveTo(to)
    PROVE  Leads(StatusCopy, to)
  BY DEF RowExplains, MayMoveTo, StatusCopy, Leads

LEMMA HistoryStep == HistoryInv /\ [StrategyNext]_strategyVars => HistoryInv'
<1> SUFFICES ASSUME HistoryInv, [StrategyNext]_strategyVars PROVE HistoryInv'
  OBVIOUS
<1>inv. RowExplains /\ CopiesLead /\ CheckHasRow
  BY DEF HistoryInv
<1>0. ASSUME UNCHANGED strategy PROVE RowExplains'
  BY <1>0, <1>inv DEF RowExplains, IsRow
<1>1. CASE CreateStrategy
  <2>1. strategy' = [strategy EXCEPT !.status = "draft", !.last = "draft"] /\ UNCHANGED <<api, monitor>>
    BY <1>1 DEF CreateStrategy
  <2>2. strategy' = [status |-> "draft", last |-> "draft", chained |-> TRUE,
                     params |-> strategy.params, since |-> strategy.since]
    BY <1>inv, <2>1 DEF RowExplains, IsRow
  <2> QED
    BY <1>inv, <2>1, <2>2 DEF HistoryInv, CheckHasRow, RowExplains, IsRow, CopiesLead
<1>2. ASSUME NEW to \in Statuses, TransitionStatus(to) PROVE HistoryInv'
  <2>1. /\ strategy.status # "none" /\ to # "none" /\ MayMoveTo(to)
        /\ api' = [pc |-> "save", to |-> to, copy |-> StatusCopy]
        /\ UNCHANGED <<strategy, monitor>>
    BY <1>2 DEF TransitionStatus, Read, Statuses
  <2>2. Leads(StatusCopy, to)
    BY <1>inv, <2>1, CopyLeads
  <2>3. Leads(api'.copy, api'.to)
    BY <2>1, <2>2
  <2>4. CopiesLead'
    BY <1>inv, <2>1, <2>3 DEF CopiesLead, Leads
  <2> QED
    BY <1>0, <1>inv, <2>1, <2>4 DEF HistoryInv, CheckHasRow
<1>3. CASE UpdateStrategyParameters
  <2>1. /\ api' = [pc |-> "save", params |-> 1 - strategy.params]
        /\ UNCHANGED <<strategy, monitor>>
    BY <1>3 DEF UpdateStrategyParameters, Read
  <2>2. "to" \notin DOMAIN api'
    BY <2>1
  <2> QED
    BY <1>0, <1>inv, <2>1, <2>2 DEF HistoryInv, CheckHasRow, CopiesLead, Leads
<1>4. CASE SaveStrategy
  <2>1. api.pc = "save" /\ api' = Idle /\ UNCHANGED monitor
    BY <1>4 DEF SaveStrategy
  <2>2. CopiesLead'
    BY <1>inv, <2>1 DEF CopiesLead, Leads, Idle
  <2>3. CASE "to" \in DOMAIN api
    BY <1>4, <1>inv, <2>1, <2>2, <2>3, MovedExplains DEF SaveStrategy, CopiesLead, CheckHasRow, HistoryInv
  <2>4. CASE "to" \notin DOMAIN api
    <3>1. strategy' = [strategy EXCEPT !.params = api.params]
      BY <1>4, <2>4 DEF SaveStrategy
    <3>2. strategy' = [status |-> strategy.status, last |-> strategy.last,
                       chained |-> strategy.chained, params |-> api.params, since |-> strategy.since]
      BY <1>inv, <3>1 DEF RowExplains, IsRow
    <3> QED
      BY <1>inv, <2>1, <2>2, <3>2 DEF HistoryInv, CheckHasRow, RowExplains, IsRow
  <2> QED
    BY <2>3, <2>4
<1>5. CASE CheckUnderperformance
  BY <1>0, <1>5, <1>inv DEF CheckUnderperformance, HistoryInv, CheckHasRow, CopiesLead, Leads
<1>6. CASE SaveTracking
  <2>1. /\ strategy' = [strategy EXCEPT !.since = monitor.since]
        /\ monitor.pc = "save" /\ monitor' \in {[pc |-> "reload"], Idle}
        /\ UNCHANGED api
    BY <1>6 DEF SaveTracking
  <2>2. strategy' = [status |-> strategy.status, last |-> strategy.last,
                     chained |-> strategy.chained, params |-> strategy.params, since |-> monitor.since]
    BY <1>inv, <2>1 DEF RowExplains, IsRow
  <2> QED
    BY <1>inv, <2>1, <2>2 DEF HistoryInv, CheckHasRow, RowExplains, IsRow, CopiesLead, Leads, Idle
<1>7. CASE Reload
  <2>1. UNCHANGED <<strategy, api>>
    BY <1>7 DEF Reload
  <2>2. CASE monitor' = Idle
    BY <1>0, <1>inv, <2>1, <2>2 DEF HistoryInv, CheckHasRow, CopiesLead, Leads, Idle
  <2>3. CASE MayMoveTo("underperforming") /\ monitor' = [pc |-> "demote", copy |-> StatusCopy]
    <3>1. Leads(monitor'.copy, "underperforming")
      BY <1>7, <1>inv, <2>3, CopyLeads DEF CheckHasRow, Reload
    <3> QED
      BY <1>0, <1>inv, <2>1, <2>3, <3>1 DEF HistoryInv, CheckHasRow, CopiesLead, Leads
  <2> QED
    BY <1>7, <2>2, <2>3 DEF Reload
<1>8. CASE Demote
  <2>1. /\ monitor.pc = "demote" /\ monitor' = Idle /\ UNCHANGED api
        /\ strategy' = Moved(monitor.copy, "underperforming")
    BY <1>8 DEF Demote
  <2>2. RowExplains'
    BY <1>inv, <2>1, MovedExplains DEF CopiesLead
  <2> QED
    BY <1>inv, <2>1, <2>2 DEF HistoryInv, CheckHasRow, CopiesLead, Leads, Idle
<1>9. CASE Fail
  BY <1>0, <1>9, <1>inv DEF Fail, HistoryInv, CheckHasRow, CopiesLead, Leads, Idle
<1>10. CASE ResultsChange \/ UNCHANGED strategyVars
  BY <1>0, <1>10, <1>inv DEF ResultsChange, strategyVars, HistoryInv, CheckHasRow, CopiesLead, Leads
<1>11. CASE DayPasses
  <2>1. /\ strategy' = [strategy EXCEPT !.since = Aged(strategy.since)]
        /\ monitor' = IF monitor.pc = "save" THEN [monitor EXCEPT !.since = Aged(@)] ELSE monitor
        /\ UNCHANGED api
    BY <1>11 DEF DayPasses
  <2>2. strategy' = [status |-> strategy.status, last |-> strategy.last,
                     chained |-> strategy.chained, params |-> strategy.params,
                     since |-> Aged(strategy.since)]
    BY <1>inv, <2>1 DEF RowExplains, IsRow
  <2>3. monitor' = monitor \/ (monitor.pc = "save"
            /\ monitor' = [pc |-> "save", since |-> Aged(monitor.since), due |-> monitor.due])
    BY <1>inv, <2>1 DEF CheckHasRow
  <2> QED
    BY <1>inv, <2>1, <2>2, <2>3 DEF HistoryInv, CheckHasRow, RowExplains, IsRow, CopiesLead, Leads
<1> QED
  BY <1>1, <1>2, <1>3, <1>4, <1>5, <1>6, <1>7, <1>8, <1>9, <1>10, <1>11 DEF StrategyNext, MonitorStep

\* However calls and checks overlap and fail, the row's history is a chain of
\* permitted transitions that ends with the row's status.
THEOREM HistoryHolds == StrategySpec => []HistoryExplainsStatus
<1>1. StrategySpec => []HistoryInv
  BY HistoryInitial, HistoryStep, PTL DEF StrategySpec
<1>2. HistoryInv => HistoryExplainsStatus
  BY DEF HistoryInv, RowExplains, HistoryExplainsStatus
<1> QED
  BY <1>1, <1>2, PTL

(***************************************************************************)
(* That a demotion has had its notice.  An age that is written down, or    *)
(* about to be, is no greater than the time since the condition was found. *)
(***************************************************************************)
LEMMA LongestIs == Longest \in Nat /\ Never = Longest + 1
<1> DEFINE S == {Threshold[c] : c \in Conditions}
<1>1. IsFiniteSet(S)
  BY ThresholdAssumption, FiniteImage
<1>2. S # {} /\ S \subseteq Nat
  BY ThresholdAssumption
<1> HIDE DEF S
<1>3. PICK n \in S : \A m \in S : m <= n
  BY <1>1, <1>2, FiniteGreatest
<1>4. \A c \in Conditions : Threshold[c] <= n
  BY <1>3 DEF S
<1>5. Longest \in S
  BY <1>3, <1>4 DEF Longest, S
<1> QED
  BY <1>2, <1>5 DEF Never

Known(ages, notes) ==
    \A c \in Conditions :
        ages[c] # Never => ages[c] \in 0..Longest /\ notes[c] \in 0..Longest /\ ages[c] <= notes[c]

NoticeInv ==
    /\ HistoryInv
    /\ low \subseteq Conditions /\ noticed \in [Conditions -> 0..Never]
    /\ Known(strategy.since, noticed)
    /\ monitor.pc = "save" => Known(monitor.since, noticed)

LEMMA KnownAges ==
    ASSUME NEW ages, NEW notes \in [Conditions -> 0..Never], Known(ages, notes)
    PROVE  Known(Aged(ages), Aged(notes)) /\ Aged(notes) \in [Conditions -> 0..Never]
<1>1. Longest \in Nat /\ Never = Longest + 1
  BY LongestIs
<1>2. \A n \in 0..Longest : Older(n) \in 0..Longest /\ \A m \in 0..n : Older(m) \in 0..Longest /\ Older(m) <= Older(n)
  BY <1>1 DEF Older
<1>3. \A c \in Conditions : notes[c] = Never \/ notes[c] \in 0..Longest
  BY <1>1
<1>4. Aged(notes) \in [Conditions -> 0..Never]
  BY <1>1, <1>2, <1>3 DEF Aged
<1>5. ASSUME NEW c \in Conditions, Aged(ages)[c] # Never
      PROVE  Aged(ages)[c] \in 0..Longest /\ Aged(notes)[c] \in 0..Longest /\ Aged(ages)[c] <= Aged(notes)[c]
  <2>1. ages[c] # Never /\ Aged(ages)[c] = Older(ages[c])
    BY <1>5 DEF Aged
  <2>2. ages[c] \in 0..Longest /\ notes[c] \in 0..Longest /\ ages[c] <= notes[c]
    BY <2>1 DEF Known
  <2>3. notes[c] # Never /\ ages[c] \in 0..notes[c]
    BY <1>1, <2>2
  <2>4. Aged(notes)[c] = Older(notes[c])
    BY <2>3 DEF Aged
  <2> QED
    BY <1>2, <2>1, <2>2, <2>3, <2>4
<1> QED
  BY <1>4, <1>5 DEF Known

LEMMA NoticeInitial == StrategyInit => NoticeInv
<1> SUFFICES ASSUME StrategyInit PROVE NoticeInv
  OBVIOUS
<1>1. Never \in 0..Never
  BY LongestIs
<1>2. /\ strategy.since = [c \in Conditions |-> Never] /\ noticed = [c \in Conditions |-> Never]
      /\ low = {} /\ monitor = Idle
  BY DEF StrategyInit
<1> QED
  BY <1>1, <1>2, HistoryInitial DEF NoticeInv, Known, Idle

LEMMA NoticeStep == NoticeInv /\ [StrategyNext]_strategyVars => NoticeInv'
<1> SUFFICES ASSUME NoticeInv, [StrategyNext]_strategyVars PROVE NoticeInv'
  OBVIOUS
<1>h. HistoryInv /\ HistoryInv'
  BY HistoryStep DEF NoticeInv
<1>inv. /\ low \subseteq Conditions /\ noticed \in [Conditions -> 0..Never]
        /\ Known(strategy.since, noticed)
        /\ monitor.pc = "save" => Known(monitor.since, noticed)
        /\ IsRow(strategy)
        /\ monitor.pc = "save" => monitor = [pc |-> "save", since |-> monitor.since, due |-> monitor.due]
  BY <1>h DEF NoticeInv, HistoryInv, RowExplains, CheckHasRow
<1>0. ASSUME strategy'.since = strategy.since, UNCHANGED noticed, low' \subseteq Conditions,
             monitor'.pc = "save" => monitor' = monitor
      PROVE  NoticeInv'
  BY <1>0, <1>h, <1>inv DEF NoticeInv, Known
<1>1. \A c, to : strategy' = Moved(c, to) => strategy'.since = strategy.since
  BY <1>inv DEF Moved, IsRow
<1>2. CASE CreateStrategy \/ SaveStrategy
  <2>1. UNCHANGED <<monitor, low, noticed>>
    BY <1>2 DEF CreateStrategy, SaveStrategy
  <2>2. CASE CreateStrategy
    <3>1. strategy' = [strategy EXCEPT !.status = "draft", !.last = "draft"]
      BY <2>2 DEF CreateStrategy
    <3>2. strategy'.since = strategy.since
      BY <1>inv, <3>1 DEF IsRow
    <3> QED
      BY <1>0, <1>inv, <2>1, <3>2
  <2>3. CASE SaveStrategy
    <3>1. \/ strategy' = Moved(api.copy, api.to)
          \/ strategy' = [strategy EXCEPT !.params = api.params]
      BY <2>3 DEF SaveStrategy
    <3>2. strategy'.since = strategy.since
      BY <1>inv, <1>1, <3>1 DEF IsRow
    <3> QED
      BY <1>0, <1>inv, <2>1, <3>2
  <2> QED
    BY <1>2, <2>2, <2>3
<1>3. CASE CheckUnderperformance
  <2>1. /\ monitor' = [pc |-> "save", since |-> Persisted, due |-> Due # {}]
        /\ noticed' = [c \in Conditions |-> IF c \in low /\ noticed[c] = Never THEN 0 ELSE noticed[c]]
        /\ UNCHANGED <<strategy, low>>
    BY <1>3 DEF CheckUnderperformance
  <2>2. Longest \in Nat /\ Never = Longest + 1
    BY LongestIs
  <2>3. noticed' \in [Conditions -> 0..Never]
    BY <1>inv, <2>1, <2>2
  <2>4. Known(strategy.since, noticed')
    BY <1>inv, <2>1, <2>2 DEF Known
  <2>5. Known(Tracked, noticed')
    <3>1. ASSUME NEW c \in Conditions, Tracked[c] # Never
          PROVE  Tracked[c] \in 0..Longest /\ noticed'[c] \in 0..Longest /\ Tracked[c] <= noticed'[c]
      <4>1. c \in low
        BY <3>1 DEF Tracked
      <4>2. CASE strategy.since[c] = Never
        <5>1. Tracked[c] = 0
          BY <4>1, <4>2 DEF Tracked
        <5>2. noticed'[c] \in 0..Longest
          BY <1>inv, <2>1, <2>2, <4>1
        <5> QED
          BY <2>2, <5>1, <5>2
      <4>3. CASE strategy.since[c] # Never
        <5>1. Tracked[c] = strategy.since[c]
          BY <4>1, <4>3 DEF Tracked
        <5> QED
          BY <2>4, <4>3, <5>1 DEF Known
      <4> QED
        BY <4>2, <4>3
    <3> QED
      BY <3>1 DEF Known
  <2>6. Known(Persisted, noticed')
    BY <2>4, <2>5 DEF Persisted
  <2>7. Known(monitor'.since, noticed')
    BY <2>1, <2>6
  <2> QED
    BY <1>h, <1>inv, <2>1, <2>3, <2>4, <2>7 DEF NoticeInv
<1>4. CASE SaveTracking
  <2>1. /\ strategy' = [strategy EXCEPT !.since = monitor.since]
        /\ monitor.pc = "save" /\ monitor'.pc # "save"
        /\ UNCHANGED <<low, noticed>>
    BY <1>4 DEF SaveTracking, Idle
  <2>2. strategy'.since = monitor.since
    BY <1>inv, <2>1 DEF IsRow
  <2> QED
    BY <1>h, <1>inv, <2>1, <2>2 DEF NoticeInv
<1>5. CASE Reload \/ Demote
  <2>1. monitor'.pc # "save" /\ UNCHANGED <<low, noticed>>
    BY <1>5 DEF Reload, Demote, Idle
  <2>2. strategy'.since = strategy.since
    BY <1>1, <1>5 DEF Reload, Demote
  <2> QED
    BY <1>0, <1>inv, <2>1, <2>2
<1>6. CASE Fail
  <2>1. UNCHANGED <<strategy, low, noticed>> /\ (monitor' = monitor \/ monitor' = Idle)
    BY <1>6 DEF Fail
  <2> QED
    BY <1>0, <1>inv, <2>1 DEF Idle
<1>7. CASE ResultsChange \/ UpdateStrategyParameters \/ (\E to \in Statuses : TransitionStatus(to)) \/ UNCHANGED strategyVars
  <2>1. UNCHANGED <<strategy, monitor, noticed>> /\ low' \subseteq Conditions
    BY <1>7, <1>inv DEF ResultsChange, UpdateStrategyParameters, TransitionStatus, Read, strategyVars
  <2> QED
    BY <1>0, <2>1
<1>8. CASE DayPasses
  <2>1. /\ strategy' = [strategy EXCEPT !.since = Aged(strategy.since)]
        /\ monitor' = IF monitor.pc = "save" THEN [monitor EXCEPT !.since = Aged(@)] ELSE monitor
        /\ noticed' = Aged(noticed) /\ UNCHANGED low
    BY <1>8 DEF DayPasses
  <2>2. strategy'.since = Aged(strategy.since)
    BY <1>inv, <2>1 DEF IsRow
  <2>3. Known(strategy'.since, noticed') /\ noticed' \in [Conditions -> 0..Never]
    BY <1>inv, <2>1, <2>2, KnownAges
  <2>4. monitor'.pc = "save" => Known(monitor'.since, noticed')
    <3>1. CASE monitor.pc = "save"
      <4>1. monitor'.since = Aged(monitor.since)
        BY <1>inv, <2>1, <3>1
      <4> QED
        BY <1>inv, <2>1, <3>1, <4>1, KnownAges
    <3>2. CASE monitor.pc # "save"
      BY <2>1, <3>2
    <3> QED
      BY <3>1, <3>2
  <2> QED
    BY <1>h, <1>inv, <2>1, <2>3, <2>4 DEF NoticeInv
<1> QED
  BY <1>2, <1>3, <1>4, <1>5, <1>6, <1>7, <1>8 DEF StrategyNext, MonitorStep

LEMMA DecidedInTime ==
    ASSUME NoticeInv, [StrategyNext]_strategyVars, Decided
    PROVE  \E c \in low : noticed[c] # Never /\ noticed[c] >= Threshold[c]
<1>1. monitor = Idle /\ monitor' # Idle
  BY DEF Decided
<1>2. CheckUnderperformance
  BY <1>1 DEF StrategyNext, MonitorStep, CreateStrategy, SaveStrategy, SaveTracking, Reload, Demote, Fail,
     ResultsChange, UpdateStrategyParameters, TransitionStatus, Read, DayPasses, strategyVars, Idle
<1>3. Due # {}
  <2>1. monitor' = [pc |-> "save", since |-> Persisted, due |-> Due # {}]
    BY <1>2 DEF CheckUnderperformance
  <2>2. monitor'.due = (Due # {})
    BY <2>1
  <2> QED
    BY <2>2 DEF Decided
<1>4. PICK c \in low : Tracked[c] >= Threshold[c]
  BY <1>3 DEF Due
<1>5. c \in Conditions /\ Threshold[c] \in Nat \ {0} /\ Longest \in Nat /\ Never = Longest + 1
  BY ThresholdAssumption, LongestIs DEF NoticeInv
<1>6. strategy.since[c] # Never /\ Tracked[c] = strategy.since[c]
  <2>1. Tracked[c] = IF strategy.since[c] = Never THEN 0 ELSE strategy.since[c]
    BY <1>4, <1>5 DEF Tracked
  <2> QED
    BY <1>4, <1>5, <2>1
<1>7. strategy.since[c] \in 0..Longest /\ noticed[c] \in 0..Longest /\ strategy.since[c] <= noticed[c]
  BY <1>5, <1>6 DEF NoticeInv, Known
<1> QED
  BY <1>4, <1>5, <1>6, <1>7

\* However calls and checks overlap and fail, no check decides to demote a
\* strategy before one of the conditions it finds has been known for as long
\* as its threshold says.
THEOREM NoticeIsGiven == StrategySpec => NoDemotionWithoutNotice
<1>1. NoticeInv /\ [StrategyNext]_strategyVars =>
          [Decided => \E c \in low : noticed[c] # Never /\ noticed[c] >= Threshold[c]]_strategyVars
  BY DecidedInTime
<1> QED
  BY <1>1, NoticeInitial, NoticeStep, PTL DEF StrategySpec, NoDemotionWithoutNotice

(***************************************************************************)
(* The backups: what the policy may not delete is on disk as it was made.  *)
(***************************************************************************)
\* What the policy promises to keep, of the backups made so far.
Promised(s, days, files) ==
    \/ s >= days - KeepDays
    \/ /\ \A t \in files : Month(t) = Month(s) => t <= s
       /\ s >= days - KeepMonths * MonthTicks

Limit == KeepDays + 1 + KeepMonths + 1

BackupInv ==
    /\ second \in Nat
    /\ DOMAIN made \subseteq Nat /\ \A s \in DOMAIN made : s <= second
    /\ DOMAIN dir \subseteq DOMAIN made
    /\ \A s \in DOMAIN dir : dir[s] = made[s]
    /\ doomed \subseteq DOMAIN dir /\ (job # "pruning" => doomed = {})
    /\ \A s \in DOMAIN made : Promised(s, second, DOMAIN made) => s \in DOMAIN dir /\ s \notin doomed
    /\ kept /\ job = "pruning" => Cardinality(DOMAIN dir \ doomed) <= Limit

LEMMA BackupTypes ==
    /\ MonthTicks \in Nat \ {0} /\ KeepDays \in Nat /\ KeepMonths \in Nat
    /\ KeepMonths * MonthTicks \in Nat /\ Limit \in Nat
<1>1. MonthTicks \in Nat \ {0} /\ KeepDays \in Nat /\ KeepMonths \in Nat
  BY BackupsAssumption
<1> QED
  BY <1>1 DEF Limit

\* At most the days' and the months' number of files are retained.
LEMMA RetainedAreFew ==
    ASSUME NEW D, D \subseteq Nat, second \in Nat, \A s \in D : s <= second
    PROVE  IsFiniteSet(Retained(D)) /\ Cardinality(Retained(D)) <= Limit
<1> DEFINE Daily == {s \in D : WithinDays(s)}
           Monthly == {s \in D : s \in MonthlyKept(D) /\ WithinMonths(s)}
           Days == (second - KeepDays)..second
           Months == (Month(second) - KeepMonths)..Month(second)
           Which == [s \in Monthly |-> Month(s)]
<1>1. IsFiniteSet(Daily) /\ Cardinality(Daily) <= KeepDays + 1 /\ Cardinality(Daily) \in Nat
  <2>1. IsFiniteSet(Days) /\ Cardinality(Days) = KeepDays + 1
    <3>1. second - KeepDays \in Int /\ second \in Int /\ ~(second - KeepDays > second)
          /\ second - (second - KeepDays) + 1 = KeepDays + 1
      BY BackupTypes
    <3> QED
      BY <3>1, FS_Interval
  <2>2. Daily \subseteq Days
    <3>1. ASSUME NEW s \in Daily PROVE s \in Int /\ second - KeepDays <= s /\ s <= second
      BY BackupTypes DEF WithinDays
    <3>2. second - KeepDays \in Int /\ second \in Int
      BY BackupTypes
    <3> HIDE DEF Daily
    <3> QED
      BY <3>1, <3>2
  <2> HIDE DEF Daily, Days
  <2> QED
    BY <2>1, <2>2, FS_Subset, FS_CardinalityType
<1>2. Month(second) \in Nat /\ MonthTicks * Month(second) <= second /\ MonthTicks * Month(second) \in Nat
  BY BackupTypes, Quotients DEF Month
<1>3. ASSUME NEW s \in Monthly PROVE Month(s) \in Months
  <2>1. s \in Nat /\ s <= second /\ s >= second - KeepMonths * MonthTicks
    BY DEF WithinMonths
  <2>2. /\ Month(s) \in Nat /\ MonthTicks * Month(s) \in Nat
        /\ MonthTicks * Month(s) <= s /\ s < MonthTicks * Month(s) + MonthTicks
    BY <2>1, BackupTypes, Quotients DEF Month
  <2>3. ~(Month(second) < Month(s))
    <3>1. ASSUME Month(second) < Month(s) PROVE FALSE
      <4>1. second < MonthTicks * Month(second) + MonthTicks
        BY BackupTypes, Quotients DEF Month
      <4>2. MonthTicks * Month(second) + MonthTicks <= MonthTicks * Month(s)
        BY <1>2, <2>2, <3>1, BackupTypes, Multiples
      <4> QED
        BY <1>2, <2>1, <2>2, <4>1, <4>2, BackupTypes
    <3> QED
      BY <3>1
  <2>4. ~(Month(s) + KeepMonths < Month(second))
    <3>1. ASSUME Month(s) + KeepMonths < Month(second) PROVE FALSE
      <4> DEFINE m == Month(s) + KeepMonths
                 a == MonthTicks * Month(s)
                 k == KeepMonths * MonthTicks
                 z == MonthTicks * Month(second)
      <4>1. m \in Nat /\ m < Month(second)
        BY <2>2, <3>1, BackupTypes
      <4>2. MonthTicks * m + MonthTicks <= z
        <5> HIDE DEF m
        <5> QED
          BY <1>2, <4>1, BackupTypes, Multiples
      <4>3. MonthTicks * m = a + k
        BY <2>2, BackupTypes
      <4>4. a \in Nat /\ k \in Nat /\ z \in Nat /\ s < a + MonthTicks /\ z <= second /\ s >= second - k
        BY <1>2, <2>1, <2>2, BackupTypes
      <4>5. a + k + MonthTicks <= z
        BY <4>2, <4>3
      <4> HIDE DEF a, k, z
      <4> QED
        BY <2>1, <4>4, <4>5, BackupTypes
    <3> QED
      BY <3>1
  <2> QED
    BY <1>2, <2>2, <2>3, <2>4, BackupTypes
<1>4. \A s, t \in Monthly : Which[s] = Which[t] => s = t
  <2>1. ASSUME NEW s \in Monthly, NEW t \in Monthly, Month(s) = Month(t) PROVE s = t
    <3>1. OfMonth(D, s) = OfMonth(D, t)
      BY <2>1 DEF OfMonth
    <3> QED
      BY <3>1 DEF MonthlyKept
  <2> QED
    BY <2>1
<1>5. IsFiniteSet(Monthly) /\ Cardinality(Monthly) <= KeepMonths + 1 /\ Cardinality(Monthly) \in Nat
  <2>1. Which \in [Monthly -> Months]
    BY <1>3
  <2>2. IsFiniteSet(Months) /\ Cardinality(Months) = KeepMonths + 1
    <3> DEFINE m == Month(second)
    <3>1. m - KeepMonths \in Int /\ m \in Int /\ ~(m - KeepMonths > m) /\ m - (m - KeepMonths) + 1 = KeepMonths + 1
      BY <1>2, BackupTypes
    <3> HIDE DEF m
    <3> QED
      BY <3>1, FS_Interval DEF m
  <2> HIDE DEF Monthly, Months, Which
  <2> QED
    BY <1>4, <2>1, <2>2, Countable, FS_CardinalityType
<1>6. Retained(D) = Daily \cup Monthly
  BY DEF Retained
<1> HIDE DEF Daily, Monthly
<1>7. /\ IsFiniteSet(Daily \cup Monthly)
      /\ Cardinality(Daily \cup Monthly) = Cardinality(Daily) + Cardinality(Monthly) - Cardinality(Daily \cap Monthly)
      /\ Cardinality(Daily \cap Monthly) \in Nat
  <2>1. IsFiniteSet(Daily \cap Monthly)
    BY <1>1, FS_Subset
  <2> QED
    BY <1>1, <1>5, <2>1, FS_Union, FS_CardinalityType
<1> QED
  BY <1>1, <1>5, <1>6, <1>7, BackupTypes DEF Limit

LEMMA BackupInitial == BackInit => BackupInv
<1> SUFFICES ASSUME BackInit PROVE BackupInv
  OBVIOUS
<1>1. /\ second = 0 /\ job = "none" /\ DOMAIN dir = {} /\ DOMAIN made = {} /\ doomed = {}
  BY DEF BackInit
<1> QED
  BY <1>1 DEF BackupInv

LEMMA BackupDone == ASSUME BackupInv, Replace PROVE BackupInv'
<1>1. /\ job = "writing" /\ job' = "written" /\ doomed' = doomed /\ doomed = {} /\ second' = second
      /\ dir' = Put(dir, second) /\ made' = Put(made, second)
  BY DEF Replace, BackupInv
<1>2. /\ DOMAIN dir' = DOMAIN dir \cup {second} /\ DOMAIN made' = DOMAIN made \cup {second}
      /\ \A s \in DOMAIN dir' : dir'[s] = IF s = second THEN version ELSE dir[s]
      /\ \A s \in DOMAIN made' : made'[s] = IF s = second THEN version ELSE made[s]
  BY <1>1 DEF Put
<1>3. ASSUME NEW s \in DOMAIN made, Promised(s, second, DOMAIN made') PROVE Promised(s, second, DOMAIN made)
  BY <1>2, <1>3 DEF Promised
<1> QED
  BY <1>1, <1>2, <1>3 DEF BackupInv

LEMMA BackupPolicy == ASSUME BackupInv, ApplyRetentionPolicy PROVE BackupInv'
<1>1. /\ job' = "pruning" /\ doomed' = DOMAIN dir \ Retained(DOMAIN dir)
      /\ UNCHANGED <<second, dir, made>>
  BY DEF ApplyRetentionPolicy
<1>2. /\ second \in Nat /\ DOMAIN made \subseteq Nat /\ DOMAIN dir \subseteq DOMAIN made
      /\ \A s \in DOMAIN made : s <= second
  BY DEF BackupInv
<1>3. ASSUME NEW s \in DOMAIN made, Promised(s, second, DOMAIN made) PROVE s \in DOMAIN dir /\ s \in Retained(DOMAIN dir)
  <2>1. s \in DOMAIN dir
    BY <1>3 DEF BackupInv
  <2>2. CASE s >= second - KeepDays
    BY <2>1, <2>2 DEF Retained, WithinDays
  <2>3. CASE (\A t \in DOMAIN made : Month(t) = Month(s) => t <= s) /\ s >= second - KeepMonths * MonthTicks
    <3> DEFINE O == OfMonth(DOMAIN dir, s)
    <3>1. O \subseteq Nat /\ s \in O /\ \A t \in O : t <= s
      BY <1>2, <2>1, <2>3 DEF OfMonth
    <3> HIDE DEF O
    <3>2. Max(O) = s
      BY <3>1, GreatestIs
    <3> QED
      BY <2>1, <2>3, <3>2 DEF Retained, WithinMonths, MonthlyKept, O
  <2> QED
    BY <1>3, <2>1, <2>2, <2>3 DEF Promised
<1>4. DOMAIN dir \ doomed' = Retained(DOMAIN dir)
  BY <1>1 DEF Retained
<1>5. Cardinality(Retained(DOMAIN dir)) <= Limit
  <2> DEFINE D == DOMAIN dir
  <2>1. D \subseteq Nat /\ \A s \in D : s <= second
    BY <1>2
  <2> HIDE DEF D
  <2> QED
    BY <1>2, <2>1, RetainedAreFew DEF D
<1> QED
  BY <1>1, <1>3, <1>4, <1>5 DEF BackupInv

LEMMA BackupUnlinks == ASSUME BackupInv, NEW succeeds \in BOOLEAN, Unlinked(succeeds) PROVE BackupInv'
<1> DEFINE s0 == Max(doomed)
<1>1. /\ job = "pruning" /\ doomed # {} /\ doomed' = doomed \ {s0}
      /\ dir' = (IF succeeds THEN Deleted(s0) ELSE dir) /\ kept' = (kept /\ succeeds)
      /\ UNCHANGED <<second, job, made>>
  BY DEF Unlinked
<1>2. s0 \in doomed
  <2>1. doomed \subseteq Nat /\ second \in Nat /\ \A s \in doomed : s <= second
    BY DEF BackupInv
  <2> QED
    BY <1>1, <2>1, GreatestExists
<1> HIDE DEF s0
<1>3. CASE succeeds
  <2>1. DOMAIN dir' = DOMAIN dir \ {s0} /\ \A s \in DOMAIN dir' : dir'[s] = dir[s]
    BY <1>1, <1>3 DEF Deleted
  <2>2. DOMAIN dir' \ doomed' = DOMAIN dir \ doomed
    BY <1>1, <1>2, <2>1
  <2> QED
    BY <1>1, <1>2, <2>1, <2>2 DEF BackupInv
<1>4. CASE ~succeeds
  BY <1>1, <1>4 DEF BackupInv
<1> QED
  BY <1>3, <1>4

LEMMA BackupStep == ASSUME BackupInv, [BackNext]_backVars PROVE BackupInv'
<1>1. ASSUME UNCHANGED <<second, dir, made>>, doomed' = doomed, job' # "pruning", job' = job \/ doomed = {}
      PROVE  BackupInv'
  BY <1>1 DEF BackupInv
<1>2. CASE StartBackup \/ WriteFails \/ EndBackup \/ ConfigChanges
  BY <1>1, <1>2 DEF StartBackup, WriteFails, EndBackup, ConfigChanges, BackupInv
<1>3. CASE ProcessDies
  BY <1>3 DEF ProcessDies, BackupInv
<1>4. CASE SecondPasses
  <2>1. second' = second + 1 /\ UNCHANGED <<job, dir, doomed, made, kept>> /\ second \in Nat
    BY <1>4 DEF SecondPasses, BackupInv
  <2>2. ASSUME NEW s \in DOMAIN made, Promised(s, second + 1, DOMAIN made) PROVE Promised(s, second, DOMAIN made)
    <3>1. s \in Nat
      BY DEF BackupInv
    <3> DEFINE k == KeepMonths * MonthTicks
               last == \A t \in DOMAIN made : Month(t) = Month(s) => t <= s
    <3>2. k \in Nat /\ KeepDays \in Nat
      BY BackupTypes
    <3>3. s >= (second + 1) - KeepDays \/ (last /\ s >= (second + 1) - k)
      BY <2>2 DEF Promised
    <3>4. s >= second - KeepDays \/ (last /\ s >= second - k) => Promised(s, second, DOMAIN made)
      BY DEF Promised
    <3> HIDE DEF k, last
    <3>5. (s >= (second + 1) - KeepDays => s >= second - KeepDays) /\ (s >= (second + 1) - k => s >= second - k)
      BY <2>1, <3>1, <3>2
    <3> QED
      BY <3>3, <3>4, <3>5
  <2>3. \A s \in DOMAIN made : s <= second + 1
    BY <2>1 DEF BackupInv
  <2> QED
    BY <2>1, <2>2, <2>3 DEF BackupInv
<1>5. CASE UNCHANGED backVars
  BY <1>5 DEF backVars, BackupInv
<1> QED
  BY <1>2, <1>3, <1>4, <1>5, BackupDone, BackupPolicy, BackupUnlinks DEF BackNext

\* Whatever fails and wherever the process dies, a backup that the policy
\* promises to keep can be restored as it was made, the latest one included,
\* and a run of the policy that could delete leaves no more than it promises.
THEOREM BackupsDoSurvive == BackInit /\ [][BackNext]_backVars => []BackupsSurvive
<1>1. BackupInv => BackupsSurvive
  <2> SUFFICES ASSUME BackupInv PROVE BackupsSurvive
    OBVIOUS
  <2>0. second \in Nat /\ DOMAIN made \subseteq Nat /\ (\A s \in DOMAIN made : s <= second)
        /\ DOMAIN dir \subseteq DOMAIN made
    BY DEF BackupInv
  <2>1. ASSUME NEW s \in DOMAIN made, WithinDays(s) \/ (LastOfMonth(s) /\ WithinMonths(s))
        PROVE  s \in ListBackups /\ RestoreBackup(s) = made[s]
    <3>1. ASSUME LastOfMonth(s) PROVE \A t \in DOMAIN made : Month(t) = Month(s) => t <= s
      <4> DEFINE O == OfMonth(DOMAIN made, s)
      <4>1. O \subseteq Nat /\ O # {} /\ \A t \in O : t <= second
        BY <2>0 DEF OfMonth
      <4> HIDE DEF O
      <4>2. \A t \in O : t <= Max(O)
        BY <2>0, <4>1, GreatestExists
      <4>3. s = Max(O)
        BY <3>1 DEF LastOfMonth, O
      <4> QED
        BY <4>2, <4>3 DEF O, OfMonth
    <3>2. Promised(s, second, DOMAIN made)
      BY <2>1, <3>1 DEF Promised, WithinDays, WithinMonths
    <3> QED
      BY <3>2 DEF BackupInv, ListBackups, RestoreBackup
  <2>2. ASSUME DOMAIN made # {}, WithinDays(Max(DOMAIN made)) PROVE LatestBackup = Max(DOMAIN made)
    <3> DEFINE M == DOMAIN made
               D == DOMAIN dir
    <3>1. Max(M) \in M /\ \A t \in M : t <= Max(M)
      <4> HIDE DEF M
      <4>1. M \subseteq Nat /\ M # {} /\ \A t \in M : t <= second
        BY <2>0, <2>2 DEF M
      <4> QED
        BY <2>0, <4>1, GreatestExists
    <3>2. Max(M) \in D
      BY <2>1, <2>2, <3>1 DEF ListBackups
    <3>3. D \subseteq Nat /\ \A t \in D : t <= Max(M)
      BY <2>0, <3>1
    <3> HIDE DEF M, D
    <3>4. Max(D) = Max(M)
      BY <3>2, <3>3, GreatestIs
    <3> QED
      BY <3>2, <3>4 DEF LatestBackup, ListBackups, M, D
  <2>3. ASSUME kept, job = "pruning", doomed = {} PROVE Cardinality(ListBackups) <= KeepDays + 1 + KeepMonths + 1
    <3>1. DOMAIN dir \ doomed = DOMAIN dir
      BY <2>3
    <3> QED
      BY <2>3, <3>1 DEF BackupInv, ListBackups, Limit
  <2> QED
    BY <2>1, <2>2, <2>3 DEF BackupsSurvive
<1> QED
  BY <1>1, BackupInitial, BackupStep, PTL

(***************************************************************************)
(* The daily records: how far the record of a day is behind its trades.    *)
(***************************************************************************)
Start(d) == d * DayLength
Traded(t) == t.executed_at
\* A trade of a day that the day's records ask for.
Asked(t, d) == Day(Traded(t)) = d /\ UtcMidnight(d) <= Traded(t)
InRecord(rows, t, d) == d \in DOMAIN rows /\ t \in rows[d].trades

\* At the tick now, a trade of a day that is not among the bad ones is in the
\* rows x ticks after it at the latest.
Lag(trades, rows, bad, now, d, x) ==
    d \notin bad =>
        \A t \in trades :
            Asked(t, d) /\ Traded(t) + x < now /\ Traded(t) + x < Start(d) + DayLength => InRecord(rows, t, d)

DayTypes ==
    /\ tick \in Nat
    /\ \A t \in executed : Traded(t) \in Nat /\ Traded(t) <= tick
    /\ update \in {"idle", "trades", "save"} /\ cycled \in BOOLEAN
    /\ halted => Day(tick) \in troubled /\ update = "idle"

RecordInv ==
    \A d \in DOMAIN records :
        /\ d \in Nat /\ records[d].read \in Nat
        /\ \A t \in records[d].trades : Traded(t) \in Nat /\ UtcMidnight(d) <= Traded(t) /\ Traded(t) <= records[d].read

WriteInv ==
    \A w \in lastWrite :
        /\ w \in Nat /\ w <= tick
        /\ \A t \in executed : Asked(t, Day(w)) /\ Traded(t) < w => InRecord(records, t, Day(w))

UpdateInv ==
    update # "idle" =>
        /\ locals.now \in Nat /\ locals.now <= tick /\ tick <= locals.now + SlowestUpdate
        /\ locals.today = Day(locals.now)
        /\ locals = [now |-> locals.now, today |-> locals.today, read |-> locals.read, trades |-> locals.trades]
        /\ Lag(executed, records, troubled, tick, locals.today, UpsertCooldown + (tick - locals.now))
        /\ update = "save" =>
              /\ locals.read \in Nat
              /\ \A t \in locals.trades : Traded(t) \in Nat /\ UtcMidnight(locals.today) <= Traded(t) /\ Traded(t) <= locals.read
              /\ \A t \in executed : Asked(t, locals.today) /\ Traded(t) < locals.now => t \in locals.trades

LagInv ==
    /\ \A d \in Nat : Lag(executed, records, troubled, tick, d, UpsertCooldown + SlowestUpdate)
    /\ update = "idle" /\ ~cycled => Lag(executed, records, troubled, tick, Day(tick), UpsertCooldown)
    /\ update = "idle" /\ cycled => Lag(executed, records, troubled, tick, Day(tick), UpsertCooldown - 1)

DayInv == DayTypes /\ RecordInv /\ WriteInv /\ UpdateInv /\ LagInv

LEMMA DayBounds ==
    ASSUME NEW t \in Nat
    PROVE  /\ Day(t) \in Nat /\ Start(Day(t)) \in Nat
           /\ Start(Day(t)) <= t /\ t < Start(Day(t)) + DayLength
<1>1. DayLength \in Nat \ {0}
  BY MonitoringAssumption
<1>2. Day(t) \in Nat /\ DayLength * Day(t) \in Nat
      /\ DayLength * Day(t) <= t /\ t < DayLength * Day(t) + DayLength
  BY <1>1, Quotients DEF Day
<1>3. Start(Day(t)) = DayLength * Day(t)
  BY <1>1, <1>2 DEF Start
<1> QED
  BY <1>2, <1>3

LEMMA DaysFollow ==
    ASSUME NEW d \in Nat, NEW e \in Nat, d < e
    PROVE  Start(d) \in Nat /\ Start(e) \in Nat /\ Start(d) + DayLength <= Start(e)
<1>1. DayLength \in Nat
  BY MonitoringAssumption
<1>2. Start(d) = DayLength * d /\ Start(e) = DayLength * e
  BY <1>1 DEF Start
<1> QED
  BY <1>1, <1>2, Multiples

LEMMA DaysInOrder ==
    ASSUME NEW s \in Nat, NEW t \in Nat, s <= t
    PROVE  Day(s) <= Day(t) /\ (Day(s) < Day(t) => s < Start(Day(t)))
<1>1. Day(s) \in Nat /\ Day(t) \in Nat /\ DayLength \in Nat
      /\ Start(Day(s)) \in Nat /\ Start(Day(t)) \in Nat
      /\ Start(Day(s)) <= s /\ s < Start(Day(s)) + DayLength
      /\ Start(Day(t)) <= t /\ t < Start(Day(t)) + DayLength
  BY DayBounds, MonitoringAssumption
<1>2. ASSUME Day(t) < Day(s) PROVE FALSE
  BY <1>1, <1>2, DaysFollow
<1>3. ASSUME Day(s) < Day(t) PROVE s < Start(Day(t))
  BY <1>1, <1>3, DaysFollow
<1> QED
  BY <1>1, <1>2, <1>3

LEMMA DayOf ==
    ASSUME NEW t \in Nat, NEW d \in Nat, Start(d) <= t, t < Start(d) + DayLength
    PROVE  Day(t) = d
<1>0. Start(d) \in Nat /\ DayLength \in Nat
  BY MonitoringAssumption DEF Start
<1>1. Day(t) \in Nat /\ DayLength \in Nat /\ Start(d) \in Nat
      /\ Start(Day(t)) \in Nat /\ Start(Day(t)) <= t /\ t < Start(Day(t)) + DayLength
  BY <1>0, DayBounds
<1>2. ASSUME Day(t) < d PROVE FALSE
  BY <1>1, <1>2, DaysFollow
<1>3. ASSUME d < Day(t) PROVE FALSE
  BY <1>1, <1>3, DaysFollow
<1> QED
  BY <1>1, <1>2, <1>3

LEMMA Bounds ==
    /\ UpsertCooldown \in Nat /\ SlowestUpdate \in Nat /\ SlowestUpdate <= UpsertCooldown - 1
    /\ UpsertCooldown >= 1 /\ DayLength \in Nat /\ DayLength >= 1
<1> QED
  BY MonitoringAssumption

LEMMA MidnightType ==
    ASSUME NEW d \in Nat
    PROVE  /\ UtcMidnight(d) \in Int /\ UtcMidnight(d) = Start(d) + LocalAhead
           /\ LocalAhead \in Int /\ LocalAhead < DayLength /\ -LocalAhead < DayLength
<1> QED
  BY MonitoringAssumption DEF UtcMidnight, Start

LEMMA DayInitial == MonitoringInit => DayInv
<1> SUFFICES ASSUME MonitoringInit PROVE DayInv
  OBVIOUS
<1>1. /\ tick = 0 /\ executed = {} /\ records = << >> /\ lastWrite = {} /\ update = "idle"
      /\ cycled = FALSE /\ halted = FALSE
  BY DEF MonitoringInit
<1>2. DOMAIN records = {}
  BY <1>1
<1>3. DayTypes /\ RecordInv /\ WriteInv /\ UpdateInv
  BY <1>1, <1>2 DEF DayTypes, RecordInv, WriteInv, UpdateInv
<1>4. LagInv
  BY <1>1 DEF LagInv, Lag
<1> QED
  BY <1>3, <1>4 DEF DayInv

LEMMA LagGrows ==
    ASSUME NEW trades, NEW rows, NEW bad, NEW now, NEW d, NEW x \in Int, NEW worse, NEW y \in Int,
           \A t \in trades : Traded(t) \in Nat, now \in Int, Start(d) \in Int,
           bad \subseteq worse, x <= y, Lag(trades, rows, bad, now, d, x)
    PROVE  Lag(trades, rows, worse, now, d, y)
<1> SUFFICES ASSUME d \notin worse, NEW t \in trades,
                    Asked(t, d) /\ Traded(t) + y < now /\ Traded(t) + y < Start(d) + DayLength
             PROVE  InRecord(rows, t, d)
  BY DEF Lag
<1> DEFINE e == Traded(t)
<1>1. e \in Nat
  OBVIOUS
<1> HIDE DEF e
<1>2. e + x < now /\ e + x < Start(d) + DayLength
  BY <1>1, Bounds DEF e
<1> QED
  BY <1>2 DEF Lag, e

\* What a step keeps that leaves the trades, the rows and the clock alone.
LEMMA LagKept ==
    ASSUME DayInv, UNCHANGED <<tick, executed, records>>, troubled \subseteq troubled'
    PROVE  /\ \A d \in Nat : Lag(executed', records', troubled', tick', d, UpsertCooldown + SlowestUpdate)
           /\ update = "idle" => Lag(executed', records', troubled', tick', Day(tick'), UpsertCooldown)
           /\ update = "idle" /\ cycled => Lag(executed', records', troubled', tick', Day(tick'), UpsertCooldown - 1)
<1>1. tick \in Nat /\ (\A t \in executed : Traded(t) \in Nat) /\ Start(Day(tick)) \in Nat /\ Day(tick) \in Nat
      /\ cycled \in BOOLEAN
  BY DayBounds DEF DayInv, DayTypes
<1>2. \A d \in Nat : Lag(executed, records, troubled', tick, d, UpsertCooldown + SlowestUpdate)
  BY DEF DayInv, LagInv, Lag
<1>3. update = "idle" => Lag(executed, records, troubled, tick, Day(tick), UpsertCooldown)
  <2>1. CASE update = "idle" /\ cycled
    <3>1. Lag(executed, records, troubled, tick, Day(tick), UpsertCooldown - 1)
      BY <2>1 DEF DayInv, LagInv
    <3>2. UpsertCooldown - 1 \in Int /\ UpsertCooldown \in Int /\ UpsertCooldown - 1 <= UpsertCooldown
      BY Bounds
    <3> QED
      BY <1>1, <3>1, <3>2, LagGrows
  <2>2. CASE update = "idle" /\ ~cycled
    BY <2>2 DEF DayInv, LagInv
  <2> QED
    BY <1>1, <2>1, <2>2
<1>4. update = "idle" => Lag(executed, records, troubled', tick, Day(tick), UpsertCooldown)
  BY <1>3 DEF Lag
<1>5. update = "idle" /\ cycled => Lag(executed, records, troubled', tick, Day(tick), UpsertCooldown - 1)
  BY DEF DayInv, LagInv, Lag
<1> QED
  BY <1>2, <1>4, <1>5

\* A day that is troubled promises nothing.
LEMMA TroubledDay ==
    ASSUME NEW trades, NEW rows, NEW bad, NEW now, NEW d, NEW x, d \in bad
    PROVE  Lag(trades, rows, bad, now, d, x)
<1> QED
  BY DEF Lag

LEMMA DayRest ==
    ASSUME DayInv, UNCHANGED <<tick, executed, records>>, troubled \subseteq troubled',
           lastWrite' \subseteq lastWrite, update' = "idle", cycled' \in BOOLEAN,
           halted' => Day(tick) \in troubled',
           \/ Day(tick) \in troubled'
           \/ update = "idle" /\ (cycled' => cycled)
    PROVE  DayInv'
<1>1. DayTypes'
  BY DEF DayInv, DayTypes
<1>2. RecordInv' /\ WriteInv' /\ UpdateInv'
  BY DEF DayInv, RecordInv, WriteInv, UpdateInv
<1>3. LagInv'
  <2>1. \A d \in Nat : Lag(executed', records', troubled', tick', d, UpsertCooldown + SlowestUpdate)
    BY LagKept
  <2>2. CASE Day(tick) \in troubled'
    <3>1. \A x : Lag(executed', records', troubled', tick', Day(tick'), x)
      BY <2>2, TroubledDay
    <3> QED
      BY <2>1, <3>1 DEF LagInv
  <2>3. CASE update = "idle" /\ (cycled' => cycled)
    <3>1. Lag(executed', records', troubled', tick', Day(tick'), UpsertCooldown)
      BY <2>3, LagKept
    <3>2. cycled' => Lag(executed', records', troubled', tick', Day(tick'), UpsertCooldown - 1)
      BY <2>3, LagKept
    <3> QED
      BY <2>1, <3>1, <3>2 DEF LagInv
  <2> QED
    BY <2>2, <2>3
<1> QED
  BY <1>1, <1>2, <1>3 DEF DayInv

LEMMA DayBegins == ASSUME DayInv, BeginUpdate PROVE DayInv'
<1>1. update = "idle" /\ ~cycled /\ ~halted /\ cycled' = TRUE
      /\ UNCHANGED <<tick, executed, records, lastWrite, halted, troubled>>
  BY DEF BeginUpdate
<1>2. tick \in Nat /\ (\A t \in executed : Traded(t) \in Nat) /\ Start(Day(tick)) \in Nat
      /\ Day(tick) \in Nat /\ Start(Day(tick)) <= tick /\ tick < Start(Day(tick)) + DayLength
  BY DayBounds DEF DayInv, DayTypes
<1>3. /\ \A d \in Nat : Lag(executed', records', troubled', tick', d, UpsertCooldown + SlowestUpdate)
      /\ Lag(executed', records', troubled', tick', Day(tick'), UpsertCooldown)
  BY <1>1, LagKept
<1>4. RecordInv' /\ WriteInv'
  BY <1>1 DEF DayInv, RecordInv, WriteInv
<1>5. CASE Debounced
  <2>1. update' = "idle"
    BY <1>1, <1>5 DEF BeginUpdate
  <2>2. DayTypes' /\ UpdateInv'
    BY <1>1, <2>1 DEF DayInv, DayTypes, UpdateInv
  <2>3. PICK w \in lastWrite : tick - w < UpsertCooldown
    BY <1>5 DEF Debounced
  <2>4. /\ w \in Nat /\ w <= tick
        /\ \A t \in executed : Asked(t, Day(w)) /\ Traded(t) < w => InRecord(records, t, Day(w))
    BY DEF DayInv, WriteInv
  <2>5. ASSUME NEW t \in executed, Asked(t, Day(tick)), Traded(t) + (UpsertCooldown - 1) < tick
        PROVE  InRecord(records, t, Day(tick))
    <3> DEFINE e == Traded(t)
    <3>1. e \in Nat /\ e + (UpsertCooldown - 1) < tick /\ Start(Day(tick)) <= e
      BY <1>2, <2>5, DayBounds DEF Asked
    <3> HIDE DEF e
    <3>2. e < w
      BY <1>2, <2>3, <2>4, <3>1, Bounds
    <3>3. Day(w) <= Day(tick) /\ (Day(w) < Day(tick) => w < Start(Day(tick))) /\ Day(w) \in Nat
      BY <1>2, <2>4, DaysInOrder, DayBounds
    <3>4. Day(w) = Day(tick)
      BY <1>2, <2>4, <3>1, <3>2, <3>3
    <3> QED
      BY <2>4, <2>5, <3>2, <3>4 DEF e
  <2>6. Lag(executed', records', troubled', tick', Day(tick'), UpsertCooldown - 1)
    BY <1>1, <2>5 DEF Lag
  <2>7. LagInv'
    BY <1>3, <2>6 DEF LagInv
  <2> QED
    BY <1>4, <2>2, <2>7 DEF DayInv
<1>6. CASE ~Debounced
  <2>1. update' = "trades" /\ locals' = [Nothing EXCEPT !.now = tick, !.today = Day(tick)]
    BY <1>1, <1>6 DEF BeginUpdate
  <2>2. locals'.now = tick /\ locals'.today = Day(tick)
        /\ locals' = [now |-> locals'.now, today |-> locals'.today, read |-> locals'.read, trades |-> locals'.trades]
    BY <2>1 DEF Nothing
  <2>3. UpsertCooldown + (tick' - locals'.now) = UpsertCooldown
    BY <1>1, <1>2, <2>2, Bounds
  <2>4. tick <= tick + SlowestUpdate
    BY <1>2, Bounds
  <2>5. Lag(executed', records', troubled', tick', locals'.today, UpsertCooldown + (tick' - locals'.now))
    BY <1>1, <1>3, <2>2, <2>3
  <2>6. UpdateInv'
    BY <1>1, <1>2, <2>1, <2>2, <2>4, <2>5 DEF UpdateInv
  <2>7. DayTypes' /\ LagInv'
    BY <1>1, <1>3, <2>1 DEF DayInv, DayTypes, LagInv
  <2> QED
    BY <1>4, <2>6, <2>7 DEF DayInv
<1> QED
  BY <1>5, <1>6

LEMMA DayReads == ASSUME DayInv, ReadTrades PROVE DayInv'
<1>1. /\ update = "trades" /\ update' = "save"
      /\ locals' = [locals EXCEPT !.read = tick, !.trades = TradesSince(locals.today)]
      /\ UNCHANGED <<tick, executed, records, lastWrite, cycled, halted, troubled>>
  BY DEF ReadTrades
<1>2. /\ locals.now \in Nat /\ locals.now <= tick /\ tick <= locals.now + SlowestUpdate
      /\ locals.today = Day(locals.now)
      /\ locals = [now |-> locals.now, today |-> locals.today, read |-> locals.read, trades |-> locals.trades]
      /\ Lag(executed, records, troubled, tick, locals.today, UpsertCooldown + (tick - locals.now))
  BY <1>1 DEF DayInv, UpdateInv
<1>3. /\ locals'.now = locals.now /\ locals'.today = locals.today /\ locals'.read = tick
      /\ locals'.trades = TradesSince(locals.today)
      /\ locals' = [now |-> locals'.now, today |-> locals'.today, read |-> locals'.read, trades |-> locals'.trades]
  BY <1>1, <1>2
<1>4. tick \in Nat /\ \A t \in executed : Traded(t) \in Nat /\ Traded(t) <= tick
  BY DEF DayInv, DayTypes
<1>5. \A t \in TradesSince(locals.today) :
         t \in executed /\ UtcMidnight(locals.today) <= Traded(t)
  BY <1>2, <1>4, MidnightType, DayBounds DEF TradesSince, Traded
<1>6. \A t \in executed : Asked(t, locals.today) => t \in TradesSince(locals.today)
  BY <1>2, <1>4, MidnightType, DayBounds DEF TradesSince, Traded, Asked
<1>7. UpdateInv'
  BY <1>1, <1>2, <1>3, <1>4, <1>5, <1>6 DEF UpdateInv
<1>8. DayTypes' /\ RecordInv' /\ WriteInv' /\ LagInv'
  BY <1>1 DEF DayInv, DayTypes, RecordInv, WriteInv, LagInv
<1> QED
  BY <1>7, <1>8 DEF DayInv

LEMMA DaySaves == ASSUME DayInv, SaveRecord PROVE DayInv'
<1> DEFINE now == locals.now
           today == locals.today
<1>1. /\ update = "save" /\ update' = "idle"
      /\ records' = [d \in DOMAIN records \cup {today} |-> IF d = today THEN Figures ELSE records[d]]
      /\ lastWrite' = {now}
      /\ UNCHANGED <<tick, executed, cycled, halted, troubled>>
  BY DEF SaveRecord
<1>2. /\ now \in Nat /\ now <= tick /\ tick <= now + SlowestUpdate
      /\ today = Day(now) /\ today \in Nat /\ locals.read \in Nat
      /\ \A t \in locals.trades : Traded(t) \in Nat /\ UtcMidnight(today) <= Traded(t) /\ Traded(t) <= locals.read
      /\ \A t \in executed : Asked(t, today) /\ Traded(t) < now => t \in locals.trades
  BY <1>1, DayBounds DEF DayInv, UpdateInv
<1>3. DOMAIN records' = DOMAIN records \cup {today}
      /\ records'[today].read = locals.read /\ records'[today].trades = locals.trades
      /\ \A d \in DOMAIN records : d # today => records'[d] = records[d]
  BY <1>1 DEF Figures
<1> HIDE DEF now, today
<1>4. tick \in Nat /\ (\A t \in executed : Traded(t) \in Nat /\ Traded(t) <= tick) /\ Day(tick) \in Nat
  BY DayBounds DEF DayInv, DayTypes
<1>5. RecordInv'
  BY <1>2, <1>3 DEF DayInv, RecordInv
<1>6. ASSUME NEW t \in executed, Traded(t) < now, Asked(t, today) PROVE InRecord(records', t, today)
  BY <1>2, <1>3, <1>6 DEF InRecord
<1>7. WriteInv'
  BY <1>1, <1>2, <1>6 DEF WriteInv
<1>8. ASSUME NEW d \in Nat PROVE Lag(executed, records', troubled, tick, d, UpsertCooldown + SlowestUpdate)
  <2> SUFFICES ASSUME d \notin troubled, NEW t \in executed, Asked(t, d),
                      Traded(t) + (UpsertCooldown + SlowestUpdate) < tick,
                      Traded(t) + (UpsertCooldown + SlowestUpdate) < Start(d) + DayLength
               PROVE  InRecord(records', t, d)
    BY DEF Lag
  <2>1. CASE d = today
    <3> DEFINE e == Traded(t)
    <3>1. e \in Nat /\ e + (UpsertCooldown + SlowestUpdate) < tick
      BY <1>4
    <3> HIDE DEF e
    <3>2. e < now
      BY <1>2, <1>4, <3>1, Bounds
    <3> QED
      BY <1>6, <2>1, <3>2 DEF e
  <2>2. CASE d # today
    <3>1. InRecord(records, t, d)
      BY DEF DayInv, LagInv, Lag
    <3> QED
      BY <1>3, <2>2, <3>1 DEF InRecord
  <2> QED
    BY <2>1, <2>2
<1>9. Lag(executed, records', troubled, tick, Day(tick), UpsertCooldown - 1)
  <2> SUFFICES ASSUME NEW t \in executed, Asked(t, Day(tick)),
                      Traded(t) + (UpsertCooldown - 1) < tick
               PROVE  InRecord(records', t, Day(tick))
    BY DEF Lag
  <2> DEFINE e == Traded(t)
             first == Start(Day(tick))
  <2>1. e \in Nat /\ e + (UpsertCooldown - 1) < tick /\ first <= e /\ first \in Nat
    BY <1>4, DayBounds DEF Asked
  <2>2. today <= Day(tick) /\ (today < Day(tick) => now < first)
    BY <1>2, <1>4, DaysInOrder
  <2> HIDE DEF e, first
  <2>3. e < now
    BY <1>2, <1>4, <2>1, Bounds
  <2>4. today = Day(tick)
    BY <1>2, <1>4, <2>1, <2>2, <2>3
  <2> QED
    BY <1>6, <2>3, <2>4 DEF e
<1>10. Lag(executed, records', troubled, tick, Day(tick), UpsertCooldown)
  <2>1. /\ UpsertCooldown - 1 \in Int /\ UpsertCooldown \in Int /\ UpsertCooldown - 1 <= UpsertCooldown
        /\ Start(Day(tick)) \in Int /\ tick \in Int
    BY <1>4, Bounds, DayBounds
  <2> QED
    BY <1>4, <1>9, <2>1, LagGrows
<1>11. DayTypes' /\ UpdateInv' /\ LagInv'
  BY <1>1, <1>8, <1>9, <1>10 DEF DayInv, DayTypes, UpdateInv, LagInv
<1> QED
  BY <1>5, <1>7, <1>11 DEF DayInv

LEMMA DayTrades == ASSUME DayInv, NEW result, ExecuteTrade(result) PROVE DayInv'
<1> DEFINE n == [id |-> Cardinality(executed) + 1, executed_at |-> tick, commission |-> 1]
<1>1. /\ executed' = executed \cup {n}
      /\ UNCHANGED <<tick, records, lastWrite, update, locals, cycled, halted, troubled>>
  BY DEF ExecuteTrade
<1>2. Traded(n) = tick /\ tick \in Nat
  BY DEF DayInv, DayTypes, Traded
<1> HIDE DEF n
<1>3. ASSUME NEW d, NEW x \in Nat, Lag(executed, records, troubled, tick, d, x)
      PROVE  Lag(executed', records, troubled, tick, d, x)
  <2>1. ~(Traded(n) + x < tick)
    BY <1>2
  <2> QED
    BY <1>1, <1>3, <2>1 DEF Lag
<1>4. DayTypes'
  BY <1>1, <1>2 DEF DayInv, DayTypes
<1>5. RecordInv'
  BY <1>1 DEF DayInv, RecordInv
<1>6. WriteInv'
  BY <1>1, <1>2 DEF DayInv, WriteInv
<1>7. LagInv'
  <2>1. UpsertCooldown \in Nat /\ UpsertCooldown - 1 \in Nat /\ UpsertCooldown + SlowestUpdate \in Nat
    BY Bounds
  <2> QED
    BY <1>1, <1>3, <2>1 DEF DayInv, LagInv
<1>8. ASSUME update # "idle" PROVE UpdateInv'
  <2>1. /\ locals.now \in Nat /\ locals.now <= tick
        /\ Lag(executed, records, troubled, tick, locals.today, UpsertCooldown + (tick - locals.now))
    BY <1>8 DEF DayInv, UpdateInv
  <2>2. UpsertCooldown + (tick - locals.now) \in Nat
    BY <1>2, <2>1, Bounds
  <2>3. Lag(executed', records, troubled, tick, locals.today, UpsertCooldown + (tick - locals.now))
    BY <1>3, <2>1, <2>2
  <2>4. ~(Traded(n) < locals.now)
    BY <1>2, <2>1
  <2> QED
    BY <1>1, <1>8, <2>1, <2>3, <2>4 DEF DayInv, UpdateInv
<1>9. UpdateInv'
  BY <1>1, <1>8 DEF UpdateInv
<1> QED
  BY <1>4, <1>5, <1>6, <1>7, <1>9 DEF DayInv

LEMMA DayTicks == ASSUME DayInv, ClockTicks PROVE DayInv'
<1>1. /\ cycled \/ halted
      /\ update # "idle" => tick < locals.now + SlowestUpdate
      /\ tick' = tick + 1 /\ cycled' = (update # "idle")
      /\ troubled' = IF halted THEN troubled \cup {Day(tick), Day(tick + 1)} ELSE troubled
      /\ UNCHANGED <<executed, records, lastWrite, update, locals, halted>>
  BY DEF ClockTicks
<1>2. /\ tick \in Nat /\ (\A t \in executed : Traded(t) \in Nat /\ Traded(t) <= tick)
      /\ Day(tick) \in Nat /\ Day(tick + 1) \in Nat /\ Day(tick) <= Day(tick + 1)
      /\ cycled \in BOOLEAN /\ (halted => update = "idle")
  <2>1. tick \in Nat
    BY DEF DayInv, DayTypes
  <2>2. tick + 1 \in Nat /\ tick <= tick + 1
    BY <2>1
  <2> QED
    BY <2>1, <2>2, DayBounds, DaysInOrder DEF DayInv, DayTypes
<1>3. troubled \subseteq troubled' /\ (halted => Day(tick) \in troubled' /\ Day(tick + 1) \in troubled')
  BY <1>1
<1>4. DayTypes'
  BY <1>1, <1>2, <1>3 DEF DayInv, DayTypes
<1>5. RecordInv' /\ WriteInv'
  BY <1>1, <1>2 DEF DayInv, RecordInv, WriteInv
<1>6. ASSUME update # "idle" PROVE UpdateInv'
  <2>1. /\ locals.now \in Nat /\ locals.now <= tick /\ tick + 1 <= locals.now + SlowestUpdate
        /\ locals.today = Day(locals.now) /\ Start(locals.today) \in Nat
        /\ Lag(executed, records, troubled, tick, locals.today, UpsertCooldown + (tick - locals.now))
    BY <1>1, <1>2, <1>6, Bounds, DayBounds DEF DayInv, UpdateInv
  <2>2. Lag(executed, records, troubled', tick + 1, locals.today, UpsertCooldown + (tick + 1 - locals.now))
    <3> SUFFICES ASSUME locals.today \notin troubled', NEW t \in executed, Asked(t, locals.today),
                        Traded(t) + (UpsertCooldown + (tick + 1 - locals.now)) < tick + 1,
                        Traded(t) + (UpsertCooldown + (tick + 1 - locals.now)) < Start(locals.today) + DayLength
                 PROVE  InRecord(records, t, locals.today)
      BY DEF Lag
    <3> DEFINE e == Traded(t)
               now == locals.now
               end == Start(locals.today) + DayLength
    <3>1. /\ e \in Nat /\ now \in Nat /\ end \in Nat
          /\ e + (UpsertCooldown + (tick + 1 - now)) < tick + 1
          /\ e + (UpsertCooldown + (tick + 1 - now)) < end
      BY <1>2, <2>1, Bounds
    <3> HIDE DEF e, now, end
    <3>2. /\ e + (UpsertCooldown + (tick - now)) < tick
          /\ e + (UpsertCooldown + (tick - now)) < end
      BY <1>2, <3>1, Bounds
    <3> QED
      BY <1>3, <2>1, <3>2 DEF Lag, e, now, end
  <2>3. locals.now <= tick + 1
    BY <1>2, <2>1
  <2>4. /\ locals = [now |-> locals.now, today |-> locals.today, read |-> locals.read, trades |-> locals.trades]
        /\ update = "save" =>
              /\ locals.read \in Nat
              /\ \A t \in locals.trades : Traded(t) \in Nat /\ UtcMidnight(locals.today) <= Traded(t) /\ Traded(t) <= locals.read
              /\ \A t \in executed : Asked(t, locals.today) /\ Traded(t) < locals.now => t \in locals.trades
    BY <1>6 DEF DayInv, UpdateInv
  <2>5. Lag(executed', records', troubled', tick', locals'.today, UpsertCooldown + (tick' - locals'.now))
    <3>1. UpsertCooldown + (tick' - locals'.now) = UpsertCooldown + (tick + 1 - locals.now)
      <4>1. locals' = locals /\ tick' = tick + 1 /\ tick \in Nat /\ locals.now \in Nat
        BY <1>1, <1>2, <2>1
      <4>2. locals'.now = locals.now
        BY <4>1
      <4> QED
        BY <4>1, <4>2, Bounds
    <3>2. executed' = executed /\ records' = records /\ tick' = tick + 1 /\ locals'.today = locals.today
      BY <1>1
    <3> DEFINE x == UpsertCooldown + (tick + 1 - locals.now)
               u == tick + 1
    <3>3. Lag(executed, records, troubled', u, locals.today, x)
      BY <2>2
    <3> HIDE DEF x
    <3> QED
      BY <3>1, <3>2, <3>3 DEF x
  <2>6. locals' = locals /\ update' = update /\ executed' = executed /\ tick' = tick + 1
    BY <1>1
  <2> QED
    BY <2>1, <2>3, <2>4, <2>5, <2>6 DEF UpdateInv
<1>7. UpdateInv'
  BY <1>1, <1>6 DEF UpdateInv
<1>8. ASSUME NEW d \in Nat PROVE Lag(executed, records, troubled', tick + 1, d, UpsertCooldown + SlowestUpdate)
  <2> SUFFICES ASSUME d \notin troubled', NEW t \in executed, Asked(t, d),
                      Traded(t) + (UpsertCooldown + SlowestUpdate) < tick + 1,
                      Traded(t) + (UpsertCooldown + SlowestUpdate) < Start(d) + DayLength
               PROVE  InRecord(records, t, d)
    BY DEF Lag
  <2> DEFINE e == Traded(t)
             end == Start(d) + DayLength
  <2>1. /\ e \in Nat /\ e <= tick /\ end \in Nat /\ Start(d) <= e
        /\ e + (UpsertCooldown + SlowestUpdate) < tick + 1 /\ e + (UpsertCooldown + SlowestUpdate) < end
        /\ Day(e) = d /\ d \notin troubled
    BY <1>2, <1>3, Bounds, DayBounds DEF Start, Asked
  <2>2. Lag(executed, records, troubled, tick, d, UpsertCooldown + SlowestUpdate)
    BY DEF DayInv, LagInv
  <2>3. CASE e + (UpsertCooldown + SlowestUpdate) < tick
    BY <2>1, <2>2, <2>3 DEF Lag
  <2>4. CASE ~(e + (UpsertCooldown + SlowestUpdate) < tick)
    <3> HIDE DEF e, end
    <3>1. e + (UpsertCooldown + SlowestUpdate) = tick /\ tick < end
      BY <1>2, <2>1, <2>4, Bounds
    <3>2. Day(tick) = d
      <4>1. Start(d) <= tick
        BY <1>2, <2>1, <3>1, Bounds, DayBounds
      <4> QED
        BY <1>2, <3>1, <4>1, DayOf DEF end
    <3>3. CASE update = "idle"
      <4>1. ~halted /\ cycled
        BY <1>1, <1>3, <3>2
      <4>2. Lag(executed, records, troubled, tick, d, UpsertCooldown - 1)
        BY <3>2, <3>3, <4>1 DEF DayInv, LagInv
      <4>3. e + (UpsertCooldown - 1) < tick /\ e + (UpsertCooldown - 1) < end
        BY <1>2, <2>1, <3>1, Bounds
      <4> QED
        BY <2>1, <4>2, <4>3 DEF Lag, e, end
    <3>4. CASE update # "idle"
      <4> DEFINE now == locals.now
      <4>1. /\ now \in Nat /\ now <= tick /\ tick < now + SlowestUpdate
            /\ locals.today = Day(now)
            /\ Lag(executed, records, troubled, tick, locals.today, UpsertCooldown + (tick - now))
        BY <1>1, <3>4 DEF DayInv, UpdateInv
      <4> HIDE DEF now
      <4>2. /\ e < now /\ e + (UpsertCooldown + (tick - now)) < tick
            /\ e + (UpsertCooldown + (tick - now)) < end
        BY <1>2, <2>1, <3>1, <4>1, Bounds
      <4>3. Day(e) <= Day(now) /\ Day(now) <= Day(tick) /\ Day(now) \in Nat
        BY <1>2, <2>1, <4>1, <4>2, DaysInOrder, DayBounds
      <4>4. locals.today = d
        BY <2>1, <3>2, <4>1, <4>3
      <4> QED
        BY <2>1, <4>1, <4>2, <4>4 DEF Lag, e, end
    <3> QED
      BY <3>3, <3>4
  <2> QED
    BY <2>3, <2>4
<1>9. ASSUME update = "idle" PROVE Lag(executed, records, troubled', tick + 1, Day(tick + 1), UpsertCooldown)
  <2> SUFFICES ASSUME Day(tick + 1) \notin troubled', NEW t \in executed, Asked(t, Day(tick + 1)),
                      Traded(t) + UpsertCooldown < tick + 1,
                      Traded(t) + UpsertCooldown < Start(Day(tick + 1)) + DayLength
               PROVE  InRecord(records, t, Day(tick + 1))
    BY DEF Lag
  <2>1. ~halted /\ cycled
    BY <1>1, <1>3
  <2> DEFINE e == Traded(t)
             end == Start(Day(tick + 1)) + DayLength
  <2>2. e \in Nat /\ e <= tick /\ e + UpsertCooldown < tick + 1 /\ e + UpsertCooldown < end
        /\ Day(e) = Day(tick + 1)
    BY <1>2 DEF Asked
  <2>3. end \in Nat
    <3>1. tick + 1 \in Nat
      BY <1>2
    <3> QED
      BY <3>1, DayBounds, Bounds
  <2> HIDE DEF e, end
  <2>4. Day(tick) = Day(tick + 1)
    <3>1. Day(e) <= Day(tick)
      BY <1>2, <2>2, DaysInOrder
    <3> QED
      BY <1>2, <2>2, <3>1
  <2>5. Lag(executed, records, troubled, tick, Day(tick), UpsertCooldown - 1)
    BY <1>9, <2>1 DEF DayInv, LagInv
  <2>6. e + (UpsertCooldown - 1) < tick /\ e + (UpsertCooldown - 1) < end
    BY <1>2, <2>2, <2>3, Bounds
  <2> QED
    BY <1>3, <2>2, <2>4, <2>5, <2>6 DEF Lag, e, end
<1>10. LagInv'
  BY <1>1, <1>8, <1>9 DEF LagInv
<1> QED
  BY <1>4, <1>5, <1>7, <1>10 DEF DayInv

LEMMA DayStep == ASSUME DayInv, [MonitoringNext]_monitorVars PROVE DayInv'
<1>0. cycled \in BOOLEAN /\ (halted => Day(tick) \in troubled /\ update = "idle")
  BY DEF DayInv, DayTypes
<1>1. CASE UpdateFails
  BY <1>0, <1>1, DayRest DEF UpdateFails, Trouble
<1>2. CASE SwitchOn
  BY <1>0, <1>2, DayRest DEF SwitchOn, Trouble
<1>3. CASE SwitchOff
  BY <1>0, <1>3, DayRest DEF SwitchOff
<1>4. CASE ProcessRestarts
  BY <1>0, <1>4, DayRest DEF ProcessRestarts
<1>5. CASE UNCHANGED monitorVars
  BY <1>5 DEF monitorVars, DayInv, DayTypes, RecordInv, WriteInv, UpdateInv, LagInv
<1> QED
  BY <1>1, <1>2, <1>3, <1>4, <1>5, DayBegins, DayReads, DaySaves, DayTrades, DayTicks DEF MonitoringNext

\* However far the host's clock is from UTC: on a day without trouble its
\* record lags behind the trades since the UTC midnight of its date by the
\* cooldown and the duration of an update at most, whatever restarts and
\* midnights fall between the updates, and counts trades that are of neither
\* that local nor that UTC day only where an update began before the local
\* midnight and read after it.
THEOREM DaysAreRecorded == MonitoringSpec => []DaysAreTold
<1>1. DayInv => DaysAreTold
  <2> SUFFICES ASSUME DayInv PROVE DaysAreTold
    OBVIOUS
  <2>0. tick \in Nat /\ \A t \in executed : Traded(t) \in Nat
    BY DEF DayInv, DayTypes
  <2>1. ASSUME NEW t \in executed, NEW d, d = Day(t.executed_at), d \notin troubled,
               t.executed_at >= UtcMidnight(d),
               t.executed_at + UpsertCooldown + SlowestUpdate < Earlier(tick, (d + 1) * DayLength)
        PROVE  d \in DOMAIN records /\ t \in records[d].trades
    <3> DEFINE e == Traded(t)
               end == (d + 1) * DayLength
    <3>1. e \in Nat /\ d \in Nat /\ d = Day(e) /\ Start(d) \in Nat
      BY <2>0, <2>1, DayBounds DEF Traded
    <3>2. end = Start(d) + DayLength /\ end \in Nat
      BY <3>1, Bounds DEF Start
    <3>3. e + UpsertCooldown + SlowestUpdate < Earlier(tick, end)
      BY <2>1 DEF Traded
    <3>4. Asked(t, d)
      BY <2>1, <3>1, MidnightType DEF Asked, Traded
    <3> HIDE DEF e, end
    <3>5. e + (UpsertCooldown + SlowestUpdate) < tick /\ e + (UpsertCooldown + SlowestUpdate) < end
      BY <2>0, <3>1, <3>2, <3>3, Bounds DEF Earlier
    <3>6. Lag(executed, records, troubled, tick, d, UpsertCooldown + SlowestUpdate)
      BY <3>1 DEF DayInv, LagInv
    <3> QED
      BY <2>1, <3>2, <3>4, <3>5, <3>6 DEF Lag, InRecord, e
  <2>2. ASSUME NEW d \in DOMAIN records, Day(records[d].read) = d, NEW t \in records[d].trades
        PROVE  d \in {Day(t.executed_at), UtcDay(t.executed_at)}
    <3> DEFINE e == Traded(t)
    <3>1. d \in Nat /\ records[d].read \in Nat
          /\ e \in Nat /\ UtcMidnight(d) <= e /\ e <= records[d].read
      BY DEF DayInv, RecordInv
    <3>2. records[d].read < Start(d) + DayLength /\ Start(d) \in Nat
      BY <2>2, <3>1, DayBounds
    <3>3. e < Start(d) + DayLength
      BY <3>1, <3>2, Bounds
    <3>4. t.executed_at = e
      BY DEF Traded
    <3> HIDE DEF e
    <3>5. CASE Start(d) <= e
      BY <3>1, <3>3, <3>4, <3>5, DayOf
    <3>6. CASE e < Start(d)
      <4> DEFINE u == e - LocalAhead
      <4>1. u \in Nat /\ Start(d) <= u /\ u < Start(d) + DayLength
        BY <3>1, <3>2, <3>6, Bounds, MidnightType
      <4>2. UtcDay(e) = Day(u)
        BY DEF UtcDay, Day
      <4> HIDE DEF u
      <4>3. Day(u) = d
        BY <3>1, <4>1, DayOf
      <4> QED
        BY <3>4, <4>2, <4>3
    <3> QED
      BY <3>1, <3>2, <3>5, <3>6
  <2> QED
    BY <2>1, <2>2 DEF DaysAreTold
<1> QED
  BY <1>1, DayInitial, DayStep, PTL DEF MonitoringSpec
=============================================================================
