-------------------------- MODULE LiveTradingProofs -------------------------
(***************************************************************************)
(* What the live runner guarantees for any tiers, limits and number of     *)
(* deaths: the kill switch stops it, and what it remembers is on disk.     *)
(***************************************************************************)
EXTENDS LiveTrading, Sums

(***************************************************************************)
(* The kill switch.  An order that waits for the exchange when the switch  *)
(* is set is counted in advance: after that, only a read that fails lets   *)
(* one past its guard.                                                     *)
(***************************************************************************)
Waiting == IF at = "send" THEN 1 ELSE 0

KillInv ==
    /\ late \in Nat /\ faults \in Nat
    /\ ~killed => late = 0
    /\ late + Waiting <= 1 + faults

LEMMA KillInitial == Init => KillInv
  BY DEF Init, KillInv, Waiting

LEMMA KillStep == KillInv /\ [Next]_vars => KillInv'
<1> SUFFICES ASSUME KillInv, [Next]_vars PROVE KillInv'
  OBVIOUS
<1> USE DEF KillInv, Waiting
<1>1. CASE RefreshRegime \/ Activate \/ Fetch \/ Record \/ Backup \/ Wake
  <2>1. UNCHANGED <<killed, late>> /\ at \notin {"send"}
    BY <1>1 DEF RefreshRegime, Activate, Fetch, Record, Backup, Wake, worldVars
  <2>2. faults' = faults \/ faults' = faults + 1
    BY <1>1 DEF RefreshRegime, Activate, LoadTier, Fetch, Record, Save, Backup, Wake, Fault, bounds
  <2>3. at' # "send"
    <3>1. CASE RefreshRegime \/ Activate \/ Fetch \/ Record \/ Wake
      BY <3>1 DEF RefreshRegime, Activate, Fetch, NextTier, Record, Wake
    <3>2. CASE Backup
      BY <3>2 DEF Backup, Proceed, NextTier
    <3> QED
      BY <1>1, <3>1, <3>2
  <2> QED
    BY <2>1, <2>2, <2>3
<1>2. CASE CheckStops
  <2>1. UNCHANGED <<killed, late>> /\ at = "stops"
    BY <1>2 DEF CheckStops, worldVars
  <2>2. \/ at' = "send" /\ ~killed /\ faults' = faults
        \/ faults' = faults + 1
        \/ at' = "signal" /\ faults' = faults
    BY <1>2 DEF CheckStops, ExitApproved, ExitBlocked, Submit, Fault
  <2> QED
    BY <2>1, <2>2
<1>3. CASE HandleSignal
  <2>1. UNCHANGED <<killed, late>> /\ at = "signal"
    BY <1>3 DEF HandleSignal, worldVars
  <2>2. \/ at' = "send" /\ ~killed /\ faults' = faults
        \/ faults' = faults + 1
        \/ at' # "send" /\ faults' = faults
    BY <1>3 DEF HandleSignal, NextTier, ExitApproved, ExitBlocked, EntryApproved, Submit, Fault
  <2> QED
    BY <2>1, <2>2
<1>4. CASE Exchange
  <2>1. at = "send" /\ UNCHANGED killed
    BY <1>4 DEF Exchange
  <2>2. at' # "send"
    BY <1>4 DEF Exchange, Proceed, NextTier
  <2>3. faults' = faults \/ faults' = faults + 1
    BY <1>4 DEF Exchange, Fault
  <2>4. late' = late \/ late' = IF killed THEN late + 1 ELSE 0
    BY <1>4 DEF Exchange, Executed
  <2> QED
    BY <2>1, <2>2, <2>3, <2>4
<1>5. CASE Start
  <2>1. UNCHANGED <<killed, late>> /\ at' = "regime"
    BY <1>5 DEF Start, worldVars
  <2>2. faults' = faults \/ faults' = faults + 1
    BY <1>5 DEF Start, LoadTier, Fault
  <2> QED
    BY <2>1, <2>2
<1>6. CASE Stop \/ Crash
  <2>1. UNCHANGED <<killed, late, faults>> /\ at' = "down"
    BY <1>6 DEF Stop, Crash, Forget, bounds
  <2> QED
    BY <2>1
<1>7. CASE ToggleKillSwitch
  <2>1. late' = 0 /\ at' = at /\ faults' = faults
    BY <1>7 DEF ToggleKillSwitch, loopVars, bounds
  <2> QED
    BY <2>1
<1>8. CASE PriceMoves \/ UNCHANGED vars
  <2>1. UNCHANGED <<at, killed, late, faults>>
    BY <1>8 DEF PriceMoves, vars, loopVars, worldVars, bounds
  <2> QED
    BY <2>1
<1> QED
  BY <1>1, <1>2, <1>3, <1>4, <1>5, <1>6, <1>7, <1>8 DEF Next, Loop

\* Setting the kill switch stops trading, for any tiers and however many
\* calls fail: at most the order under way is executed after it, and an exit
\* for each read that failed.
THEOREM SwitchStopsTrading == Spec => []KillSwitchStops
<1>1. Spec => []KillInv
  BY KillInitial, KillStep, PTL DEF Spec
<1>2. KillInv => KillSwitchStops
  BY DEF KillInv, Waiting, KillSwitchStops
<1> QED
  BY <1>1, <1>2, PTL

(***************************************************************************)
(* The saved state.  Between the two writes of a save the row is already   *)
(* that of memory, and a row that is there is what a restart goes by.      *)
(***************************************************************************)
Saved == States \cup {NoState}

DiskTypes ==
    /\ cur \in DOMAIN TierSeq /\ active \subseteq Tiers
    /\ mem \in [Tiers -> States]
    /\ db \in [Tiers -> Saved] /\ json \in [Tiers -> Saved]
    /\ faults \in Nat

RowFirst == faults = 0 /\ at = "backup" => db[Tier] = mem[Tier]

SavedInv == DiskTypes /\ RowFirst /\ SavedIsCurrent

LEMMA Sequence == 1 \in DOMAIN TierSeq /\ \A i \in DOMAIN TierSeq : i # Len(TierSeq) => i + 1 \in DOMAIN TierSeq
<1>1. Len(TierSeq) \in Nat /\ DOMAIN TierSeq = 1..Len(TierSeq) /\ TierSeq # <<>>
  BY TiersAssumption
<1>2. Len(TierSeq) # 0
  BY TiersAssumption
<1> QED
  BY <1>1, <1>2

LEMMA TierIsOne == cur \in DOMAIN TierSeq => Tier \in Tiers
  BY DEF Tier, Tiers

LEMMA RealStates == Empty \in States /\ \A s \in States : s # NoState
  BY NamesAssumption DEF Empty, States

LEMMA LoadedState ==
    ASSUME DiskTypes, NEW t \in Tiers
    PROVE  FromFile(t) \in States /\ Loaded(t) \in States
  BY RealStates DEF DiskTypes, Saved, FromFile, Loaded

LEMMA NextStates ==
    ASSUME NEW s \in States
    PROVE  Closed(s) \subseteq States /\ Opened(s) \subseteq States
<1>1. Opened(s) \subseteq States
  BY DEF Opened, States
<1>2. s.lost \in Nat /\ s.lost + 1 \in Nat /\ (s.lost = 0 \/ s.lost - 1 \in Nat)
  BY DEF States
<1>3. Closed(s) \subseteq States
  BY <1>2 DEF Closed, States
<1> QED
  BY <1>1, <1>3

LEMMA SavedInitial == Init => SavedInv
<1> SUFFICES ASSUME Init PROVE SavedInv
  OBVIOUS
<1>1. DiskTypes
  BY Sequence, RealStates DEF Init, DiskTypes, Saved
<1>2. RowFirst /\ SavedIsCurrent
  BY DEF Init, RowFirst, SavedIsCurrent
<1> QED
  BY <1>1, <1>2 DEF SavedInv

(* A step that leaves memory and disk alone.                               *)
LEMMA DiskUntouched ==
    ASSUME SavedInv, UNCHANGED <<active, mem, db, json>>, cur' \in DOMAIN TierSeq,
           faults' \in Nat, faults' = 0 => faults = 0, at' # "backup"
    PROVE  SavedInv'
  BY DEF SavedInv, DiskTypes, RowFirst, SavedIsCurrent, Loaded, FromFile

(* A step that loads a tier.                                               *)
LEMMA TierLoaded ==
    ASSUME SavedInv, NEW t \in Tiers, LoadTier(t), active' \subseteq active \cup {t},
           UNCHANGED <<db, json>>, cur' \in DOMAIN TierSeq, at' # "backup"
    PROVE  SavedInv'
<1>1. mem' \in [Tiers -> States] /\ faults' \in Nat
  BY LoadedState DEF SavedInv, DiskTypes, LoadTier, Fault
<1>2. DiskTypes'
  BY <1>1 DEF SavedInv, DiskTypes
<1>3. faults' = 0 => faults = 0 /\ mem' = [mem EXCEPT ![t] = Loaded(t)]
  BY DEF SavedInv, DiskTypes, LoadTier, Fault
<1>4. SavedIsCurrent'
  BY <1>3 DEF SavedInv, DiskTypes, SavedIsCurrent, Loaded, FromFile
<1> QED
  BY <1>2, <1>4 DEF SavedInv, RowFirst

LEMMA SavedStep == SavedInv /\ [Next]_vars => SavedInv'
<1> SUFFICES ASSUME SavedInv, [Next]_vars PROVE SavedInv'
  OBVIOUS
<1>types. DiskTypes /\ Tier \in Tiers
  BY TierIsOne DEF SavedInv, DiskTypes
<1>fault. Fault => faults' = faults + 1 /\ faults' \in Nat /\ faults' # 0
  BY <1>types DEF Fault, DiskTypes
<1>next. NextTier => cur' \in DOMAIN TierSeq /\ at' \in {"sleep", "fetch"}
  BY <1>types, Sequence DEF NextTier, DiskTypes
<1>1. CASE RefreshRegime \/ Fetch \/ CheckStops \/ HandleSignal \/ Exchange \/ Wake
  <2>1. UNCHANGED <<active, mem, db, json>>
    BY <1>1 DEF RefreshRegime, Fetch, CheckStops, HandleSignal, Exchange, Wake, tierVars, diskVars
  <2>2. cur' \in DOMAIN TierSeq /\ at' # "backup"
    BY <1>1, <1>types, <1>next, Sequence
       DEF RefreshRegime, Fetch, CheckStops, HandleSignal, Exchange, Wake, Submit, Proceed, DiskTypes
  <2>3. faults' = faults \/ Fault
    BY <1>1 DEF RefreshRegime, Fetch, CheckStops, HandleSignal, Exchange, Wake, ExitApproved, bounds
  <2> QED
    BY <1>types, <1>fault, <2>1, <2>2, <2>3, DiskUntouched DEF DiskTypes
<1>2. CASE Activate
  <2>1. UNCHANGED <<db, json>> /\ cur' \in DOMAIN TierSeq /\ at' # "backup"
    BY <1>2, <1>types, Sequence DEF Activate, diskVars, DiskTypes
  <2>2. CASE active' = active \cup {Tier} /\ LoadTier(Tier)
    BY <1>types, <2>1, <2>2, TierLoaded
  <2>3. CASE UNCHANGED <<active, mem, faults>>
    BY <1>types, <2>1, <2>3, DiskUntouched DEF DiskTypes
  <2> QED
    BY <1>2, <2>2, <2>3 DEF Activate, tierVars
<1>3. CASE Start
  <2>1. /\ UNCHANGED <<db, json>> /\ cur' \in DOMAIN TierSeq /\ at' # "backup"
        /\ LoadTier(TierSeq[1]) /\ active' \subseteq active \cup {TierSeq[1]}
    BY <1>3, Sequence DEF Start, diskVars
  <2> QED
    BY <2>1, Sequence, TierLoaded DEF Tiers
<1>4. CASE Record
  <2>1. PICK s \in States : mem' = [mem EXCEPT ![Tier] = s]
    BY <1>4, <1>types, NextStates DEF Record, DiskTypes
  <2>2. UNCHANGED <<cur, active, json>> /\ Save(Tier)
    BY <1>4 DEF Record
  <2>3. Tier' = Tier
    BY <2>2 DEF Tier
  <2>4. \/ faults' = faults /\ db' = [db EXCEPT ![Tier] = s]
        \/ Fault /\ UNCHANGED db
    BY <1>types, <2>1, <2>2 DEF Save, DiskTypes
  <2>5. DiskTypes'
    BY <1>types, <1>fault, <2>1, <2>2, <2>4 DEF DiskTypes, Saved
  <2>6. ASSUME faults' = 0
        PROVE  faults = 0 /\ db' = [db EXCEPT ![Tier] = s] /\ db'[Tier] = s /\ mem'[Tier] = s
    BY <1>types, <1>fault, <2>1, <2>4, <2>6 DEF DiskTypes
  <2>7. RowFirst'
    BY <2>3, <2>6 DEF RowFirst
  <2>8. SavedIsCurrent'
    <3> SUFFICES ASSUME faults' = 0, NEW t \in active
                 PROVE  mem'[t] = Loaded(t)' \/ (mem'[t] = Empty /\ db'[t] = NoState)
      BY <2>2 DEF SavedIsCurrent
    <3>1. CASE t = Tier
      BY <2>6, <3>1, RealStates DEF Loaded
    <3>2. CASE t # Tier
      <4>1. mem'[t] = mem[t] /\ db'[t] = db[t] /\ json'[t] = json[t]
        BY <1>types, <2>1, <2>2, <2>6, <3>2 DEF DiskTypes
      <4> QED
        BY <2>6, <4>1 DEF SavedInv, SavedIsCurrent, Loaded, FromFile
    <3> QED
      BY <3>1, <3>2
  <2> QED
    BY <2>5, <2>7, <2>8 DEF SavedInv
<1>5. CASE Backup
  <2>1. /\ at = "backup" /\ UNCHANGED <<active, mem, db>>
        /\ cur' \in DOMAIN TierSeq /\ at' # "backup"
    BY <1>5, <1>types, <1>next DEF Backup, Proceed, tierVars, DiskTypes
  <2>2. \/ faults' = faults /\ json' = [json EXCEPT ![Tier] = mem[Tier]]
        \/ Fault /\ (json' = json \/ json' = [json EXCEPT ![Tier] = NoState])
    BY <1>5 DEF Backup
  <2>3. DiskTypes'
    BY <1>types, <1>fault, <2>1, <2>2 DEF DiskTypes, Saved
  <2>4. SavedIsCurrent'
    <3> SUFFICES ASSUME faults' = 0, NEW t \in active
                 PROVE  mem[t] = Loaded(t)' \/ (mem[t] = Empty /\ db[t] = NoState)
      BY <2>1 DEF SavedIsCurrent
    <3>0. faults = 0 /\ json' = [json EXCEPT ![Tier] = mem[Tier]]
      BY <1>types, <1>fault, <2>2 DEF DiskTypes
    <3>1. CASE t = Tier
      <4>1. db[t] = mem[t] /\ db[t] # NoState
        BY <1>types, <2>1, <3>0, <3>1, RealStates DEF SavedInv, RowFirst, DiskTypes
      <4> QED
        BY <2>1, <4>1 DEF Loaded
    <3>2. CASE t # Tier
      <4>1. db'[t] = db[t] /\ json'[t] = json[t]
        BY <1>types, <2>1, <3>0, <3>2 DEF DiskTypes
      <4> QED
        BY <3>0, <4>1 DEF SavedInv, SavedIsCurrent, Loaded, FromFile
    <3> QED
      BY <3>1, <3>2
  <2> QED
    BY <2>1, <2>3, <2>4 DEF SavedInv, RowFirst
<1>6. CASE Stop \/ Crash
  <2>1. /\ active' = {} /\ at' = "down" /\ cur' = 1
        /\ mem' = [t \in Tiers |-> Empty] /\ UNCHANGED <<db, faults>>
        /\ json' = json \/ json' = [json EXCEPT ![Tier] = NoState]
    BY <1>6 DEF Stop, Crash, Forget, diskVars, bounds
  <2>2. DiskTypes'
    BY <1>types, <2>1, Sequence, RealStates DEF DiskTypes, Saved
  <2> QED
    BY <2>1, <2>2 DEF SavedInv, RowFirst, SavedIsCurrent
<1>7. CASE ToggleKillSwitch \/ PriceMoves \/ UNCHANGED vars
  <2>1. UNCHANGED <<at, cur, active, mem, db, json, faults>>
    BY <1>7 DEF ToggleKillSwitch, PriceMoves, vars, loopVars, tierVars, diskVars, bounds
  <2> QED
    BY <2>1 DEF SavedInv, DiskTypes, RowFirst, SavedIsCurrent, Loaded, FromFile, Tier
<1> QED
  BY <1>1, <1>2, <1>3, <1>4, <1>5, <1>6, <1>7 DEF Next, Loop

\* As long as no call fails, what the loop remembers of its active tiers is
\* what a restart would load, however often it dies or is stopped.
THEOREM MemoryIsSaved == Spec => []SavedIsCurrent
<1>1. Spec => []SavedInv
  BY SavedInitial, SavedStep, PTL DEF Spec
<1>2. SavedInv => SavedIsCurrent
  BY DEF SavedInv
<1> QED
  BY <1>1, <1>2, PTL

(***************************************************************************)
(* The holdings.  As long as no call fails and the process does not die,   *)
(* a tier's state in memory is what a restart would load, so the account   *)
(* is explained by what is saved, and by the order not yet recorded.       *)
(***************************************************************************)
\* The order under way is one of an active tier, to enter when it is flat and
\* to leave the position it has otherwise; what the price has hit is open.
Ordered ==
    /\ order.kind \in {"stop", "close", "enter"} /\ order.side \in {"buy", "sell"}
    /\ Tier \in active
    /\ IF order.kind = "enter" THEN ~Open(Tier)
       ELSE Open(Tier) /\ order.side = ExitSide(Tier)
OrderInv ==
    /\ at = "down" => active = {} /\ hit = {}
    /\ hit \subseteq {t \in active : Open(t)}
    /\ at \in {"send", "record"} => Ordered
    /\ at \in {"stops", "signal", "backup"} => Tier \in active

\* The backup file never knows more than the row.
RowBeforeFile == faults = 0 => \A t \in Tiers : db[t] = NoState => json[t] = NoState

WorldTypes == hold \in [Symbols -> Int] /\ crashes \in Nat
HoldInv == WorldTypes /\ RowBeforeFile /\ HoldingsAddUp
LiveInv == SavedInv /\ OrderInv /\ HoldInv

LEMMA OrderInitial == Init => OrderInv
  BY DEF Init, OrderInv

LEMMA OrderStep == SavedInv /\ OrderInv /\ [Next]_vars => OrderInv'
<1> SUFFICES ASSUME SavedInv, OrderInv, [Next]_vars PROVE OrderInv'
  OBVIOUS
<1> USE DEF OrderInv
<1>types. DiskTypes /\ Tier \in Tiers
  BY TierIsOne DEF SavedInv, DiskTypes
<1>same. ASSUME UNCHANGED <<active, mem, hit>>, at' \notin {"down", "send", "record", "stops", "signal", "backup"}
         PROVE  OrderInv'
  BY <1>same DEF Open
<1>1. CASE RefreshRegime \/ Wake
  BY <1>1, <1>same DEF RefreshRegime, Wake, tierVars, worldVars
<1>2. CASE Activate
  <2>1. at' \in {"fetch", "activate"} /\ UNCHANGED hit
    BY <1>2 DEF Activate, worldVars
  <2>2. CASE UNCHANGED <<active, mem>>
    BY <2>1, <2>2, <1>same
  <2>3. CASE MayActivate(Tier) /\ active' = active \cup {Tier} /\ LoadTier(Tier)
    <3>1. Tier \notin active /\ \A t \in active : mem'[t] = mem[t]
      BY <1>types, <2>3 DEF MayActivate, LoadTier, DiskTypes
    <3> QED
      BY <2>1, <2>3, <3>1 DEF Open
  <2> QED
    BY <1>2, <2>2, <2>3 DEF Activate, tierVars
<1>3. CASE Start
  <2>1. at' = "regime" /\ hit' = {}
    BY <1>3 DEF Start, worldVars
  <2> QED
    BY <2>1
<1>4. CASE Fetch
  <2>1. UNCHANGED <<active, mem, hit>>
    BY <1>4 DEF Fetch, tierVars, worldVars
  <2>2. \/ at' \in {"sleep", "fetch"}
        \/ at' = "stops" /\ Tier \in active /\ cur' = cur
    BY <1>4 DEF Fetch, NextTier
  <2> QED
    BY <2>1, <2>2, <1>same DEF Tier, Open
<1>5. CASE CheckStops
  <2>1. UNCHANGED <<cur, active, mem, hit>> /\ Tier \in active
    BY <1>5 DEF CheckStops, Submit, tierVars, worldVars
  <2>2. \/ at' = "signal"
        \/ at' = "send" /\ Tier \in hit /\ order' = [kind |-> "stop", side |-> ExitSide(Tier)]
    BY <1>5 DEF CheckStops, Submit
  <2>3. at' = "send" => Ordered'
    BY <2>1, <2>2 DEF Ordered, Open, ExitSide, Tier
  <2> QED
    BY <2>1, <2>2, <2>3 DEF Open, Tier
<1>6. CASE HandleSignal
  <2>1. UNCHANGED <<active, mem, hit>> /\ Tier \in active
    BY <1>6 DEF HandleSignal, tierVars, worldVars
  <2>2. \/ at' \in {"sleep", "fetch"}
        \/ /\ at' = "send" /\ cur' = cur
           /\ \/ Open(Tier) /\ order' = [kind |-> "close", side |-> ExitSide(Tier)]
              \/ ~Open(Tier) /\ order' \in [kind : {"enter"}, side : {"buy", "sell"}]
    BY <1>6 DEF HandleSignal, NextTier, Submit
  <2>3. at' = "send" => Ordered'
    BY <2>1, <2>2 DEF Ordered, Open, ExitSide, Tier
  <2> QED
    BY <2>1, <2>2, <2>3, <1>same DEF Open, Tier
<1>7. CASE Exchange
  <2>1. UNCHANGED <<active, mem, hit>> /\ at = "send" /\ Ordered
    BY <1>7 DEF Exchange, tierVars
  <2>2. \/ at' = "record" /\ UNCHANGED <<cur, order>>
        \/ at' = "signal" /\ UNCHANGED cur
        \/ at' \in {"sleep", "fetch"}
    BY <1>7 DEF Exchange, Proceed, NextTier
  <2>3. at' = "record" => Ordered'
    BY <2>1, <2>2 DEF Ordered, Open, ExitSide, Tier
  <2> QED
    BY <2>1, <2>2, <2>3, <1>same DEF Open, Tier, Ordered
<1>8. CASE Record
  <2>1. /\ hit' = hit \ {Tier} /\ at' = "backup" /\ UNCHANGED <<cur, active>> /\ Tier \in active
        /\ \A t \in active : t # Tier => mem'[t] = mem[t]
    BY <1>8, <1>types DEF Record, Ordered, DiskTypes
  <2> QED
    BY <2>1 DEF Open, Tier
<1>9. CASE Backup
  <2>1. UNCHANGED <<active, mem, hit>> /\ Tier \in active
    BY <1>9 DEF Backup, tierVars, worldVars
  <2>2. \/ at' = "signal" /\ UNCHANGED cur
        \/ at' \in {"sleep", "fetch"}
    BY <1>9 DEF Backup, Proceed, NextTier
  <2> QED
    BY <2>1, <2>2, <1>same DEF Open, Tier
<1>10. CASE Stop \/ Crash
  BY <1>10 DEF Stop, Crash, Forget
<1>11. CASE ToggleKillSwitch
  BY <1>11 DEF ToggleKillSwitch, loopVars, tierVars, Ordered, Open, ExitSide, Tier
<1>12. CASE PriceMoves
  <2>1. UNCHANGED <<at, cur, order, active, mem>>
    BY <1>12 DEF PriceMoves, loopVars, tierVars
  <2>2. hit' \subseteq {t \in active : Open(t)} /\ active # {}
    BY <1>12 DEF PriceMoves
  <2> QED
    BY <2>1, <2>2 DEF Ordered, Open, ExitSide, Tier
<1>13. CASE UNCHANGED vars
  BY <1>13 DEF vars, loopVars, tierVars, worldVars, Ordered, Open, ExitSide, Tier
<1> QED
  BY <1>1, <1>2, <1>3, <1>4, <1>5, <1>6, <1>7, <1>8, <1>9, <1>10, <1>11, <1>12, <1>13
     DEF Next, Loop

\* The positions of a symbol's tiers.
Position(s) == SumFunctionOnSet([t \in Tiers |-> Units(t)], TiersOf(s))

LEMMA TiersAreFinite == IsFiniteSet(Tiers) /\ \A s : IsFiniteSet(TiersOf(s))
<1>1. IsFiniteSet(DOMAIN TierSeq)
  BY TiersAssumption, FS_Interval
<1>2. IsFiniteSet(Tiers)
  BY <1>1, FiniteImage DEF Tiers
<1> QED
  BY <1>2, FS_Subset DEF TiersOf

\* Without a failing call, what is known of a tier is what is saved.
LEMMA KnownIsLoaded ==
    ASSUME SavedInv, RowBeforeFile, faults = 0, NEW t \in Tiers
    PROVE  Known(t) = Loaded(t)
  BY DEF SavedInv, SavedIsCurrent, RowBeforeFile, Known, Loaded, FromFile

LEMMA KnownIsLoadedAfter ==
    ASSUME SavedInv', RowBeforeFile', faults' = 0, NEW t \in Tiers
    PROVE  Known(t)' = Loaded(t)'
  BY DEF SavedInv, SavedIsCurrent, RowBeforeFile, Known, Loaded, FromFile

\* A position depends on what is known of the tiers.
LEMMA PositionStays ==
    ASSUME NEW s, \A t \in Tiers : Known(t)' = Known(t)
    PROVE  Position(s)' = Position(s)
<1>1. [t \in Tiers |-> Units(t)]' = [t \in Tiers |-> Units(t)]
  BY DEF Units
<1>2. TiersOf(s)' = TiersOf(s)
  BY DEF TiersOf
<1> QED
  BY <1>1, <1>2 DEF Position

\* Steps that change neither what is saved nor what the account holds.
LEMMA HoldingsStay ==
    ASSUME SavedInv, SavedInv', HoldInv, UNCHANGED <<db, json, hold>>,
           faults' \in Nat, crashes' = crashes, faults' = 0 => faults = 0,
           at # "record", at' # "record"
    PROVE  HoldInv'
<1>1. WorldTypes' /\ RowBeforeFile'
  BY DEF HoldInv, WorldTypes, RowBeforeFile
<1>2. HoldingsAddUp'
  <2> SUFFICES ASSUME faults' = 0, crashes' = 0, NEW s \in Symbols
               PROVE  hold'[s] = Unrecorded(s)' + Position(s)'
    BY DEF HoldingsAddUp, Position
  <2>1. hold[s] = Unrecorded(s) + Position(s)
    BY DEF HoldInv, HoldingsAddUp, Position
  <2>2. \A t \in Tiers : Loaded(t)' = Loaded(t)
    BY DEF Loaded, FromFile
  <2>3. \A t \in Tiers : Known(t) = Loaded(t)
    BY KnownIsLoaded DEF HoldInv
  <2>4. \A t \in Tiers : Known(t)' = Loaded(t)'
    BY <1>1, KnownIsLoadedAfter
  <2>5. Position(s)' = Position(s)
    BY <2>2, <2>3, <2>4, PositionStays
  <2>6. Unrecorded(s) = 0 /\ Unrecorded(s)' = 0
    BY DEF Unrecorded
  <2> QED
    BY <2>1, <2>5, <2>6
<1> QED
  BY <1>1, <1>2 DEF HoldInv

LEMMA UnitsType == \A t \in Tiers : Units(t) \in {-1, 0, 1}
  BY DEF Units

LEMMA HoldInitial == Init => HoldInv
<1> SUFFICES ASSUME Init PROVE HoldInv
  OBVIOUS
<1>1. WorldTypes /\ RowBeforeFile
  BY DEF Init, WorldTypes, RowBeforeFile
<1>2. ASSUME NEW s \in Symbols PROVE hold[s] = Unrecorded(s) + Position(s)
  <2> DEFINE g == [t \in Tiers |-> Units(t)]
             T == TiersOf(s)
  <2>1. \A t \in T : g[t] = 0
    BY DEF Init, TiersOf, Units, Known, Loaded, FromFile, Empty
  <2>2. IsFiniteSet(T)
    BY TiersAreFinite
  <2> HIDE DEF g, T
  <2>3. SumFunctionOnSet(g, T) = 0
    BY <2>1, <2>2, SumZero
  <2>4. Position(s) = 0
    BY <2>3 DEF g, T, Position
  <2>5. hold[s] = 0 /\ Unrecorded(s) = 0
    BY DEF Init, Unrecorded
  <2> QED
    BY <2>4, <2>5
<1> QED
  BY <1>1, <1>2 DEF HoldInv, HoldingsAddUp, Position

LEMMA PositionType == ASSUME NEW s PROVE Position(s) \in Int
<1> DEFINE g == [t \in Tiers |-> Units(t)]
           T == TiersOf(s)
<1>1. IsFiniteSet(T) /\ Integral(g, T)
  BY TiersAreFinite, UnitsType DEF Integral, TiersOf
<1> HIDE DEF g, T
<1>2. SumFunctionOnSet(g, T) \in Int
  BY <1>1, SumType
<1> QED
  BY <1>2 DEF g, T, Position

\* A tier whose state changes moves the position of its symbol by as much.
LEMMA PositionMoves ==
    ASSUME NEW s, NEW x \in Tiers, \A t \in Tiers : t # x => Known(t)' = Known(t)
    PROVE  Position(s)' = IF SymbolOf[x] = s THEN Position(s) - Units(x) + Units(x)'
                          ELSE Position(s)
<1> DEFINE g == [t \in Tiers |-> Units(t)]
           h == [t \in Tiers |-> Units(t)']
           T == TiersOf(s)
<1>1. IsFiniteSet(T) /\ T \subseteq Tiers
  BY TiersAreFinite DEF TiersOf
<1>2. Integral(g, T) /\ Integral(h, T)
  BY <1>1 DEF Integral, Units
<1>3. \A t \in T \ {x} : g[t] = h[t]
  BY <1>1 DEF Units
<1>4. Position(s) = SumFunctionOnSet(g, T) /\ Position(s)' = SumFunctionOnSet(h, T)
  BY DEF Position, TiersOf
<1>5. g[x] = Units(x) /\ h[x] = Units(x)'
  OBVIOUS
<1>6. x \in T <=> SymbolOf[x] = s
  BY DEF TiersOf
<1> HIDE DEF g, h, T
<1>7. CASE SymbolOf[x] = s
  <2>1. SumFunctionOnSet(h, T) = SumFunctionOnSet(g, T) - g[x] + h[x]
    BY <1>1, <1>2, <1>3, <1>6, <1>7, SumAt
  <2> QED
    BY <2>1, <1>4, <1>5, <1>7
<1>8. CASE SymbolOf[x] # s
  <2>1. \A t \in T : g[t] = h[t]
    BY <1>3, <1>6, <1>8
  <2>2. SumFunctionOnSet(g, T) = SumFunctionOnSet(h, T)
    BY <2>1, <1>1, SumSame
  <2> QED
    BY <2>2, <1>4, <1>8
<1> QED
  BY <1>7, <1>8

\* The exchange executes an order, which is recorded next.
LEMMA HoldExchange ==
    ASSUME SavedInv, SavedInv', OrderInv, HoldInv, Exchange PROVE HoldInv'
<1>1. /\ UNCHANGED <<mem, active, db, json, crashes>> /\ at = "send"
      /\ faults' \in Nat /\ faults \in Nat
  BY DEF Exchange, tierVars, diskVars, SavedInv, DiskTypes
<1>2. hold' \in [Symbols -> Int]
  BY DEF Exchange, Executed, HoldInv, WorldTypes
<1>3. WorldTypes' /\ RowBeforeFile'
  <2>1. faults' = 0 => faults = 0
    BY <1>1 DEF Exchange, Fault
  <2> QED
    BY <2>1, <1>1, <1>2 DEF HoldInv, WorldTypes, RowBeforeFile
<1>4. CASE Fault
  BY <1>1, <1>3, <1>4 DEF Fault, HoldInv, HoldingsAddUp
<1>5. CASE UNCHANGED <<hold, faults>> /\ Proceed
  <2>1. at' # "record"
    BY <1>5 DEF Proceed, NextTier
  <2> QED
    BY <1>1, <1>5, <2>1, HoldingsStay
<1>6. CASE Executed /\ at' = "record" /\ UNCHANGED <<cur, order, faults>>
  <2> SUFFICES ASSUME faults' = 0, crashes' = 0, NEW s \in Symbols
               PROVE  hold'[s] = Unrecorded(s)' + Position(s)'
    BY <1>3 DEF HoldInv, HoldingsAddUp, Position
  <2>1. hold[s] = Unrecorded(s) + Position(s) /\ hold[s] \in Int
    BY <1>1, <1>6 DEF HoldInv, HoldingsAddUp, Position, WorldTypes
  <2>2. \A t \in Tiers : Known(t)' = Known(t)
    BY <1>1 DEF Known, Loaded, FromFile
  <2>3. Position(s)' = Position(s) /\ Position(s) \in Int
    BY <2>2, PositionStays, PositionType
  <2>4. Unrecorded(s) = 0
    BY <1>1 DEF Unrecorded
  <2>5. Unrecorded(s)' = IF SymbolOf[Tier] # s THEN 0 ELSE IF order.side = "buy" THEN 1 ELSE -1
    BY <1>6 DEF Unrecorded, Tier
  <2>6. hold'[s] = IF SymbolOf[Tier] # s THEN hold[s]
                   ELSE IF order.side = "buy" THEN hold[s] + 1 ELSE hold[s] - 1
    BY <1>6 DEF Executed, HoldInv, WorldTypes
  <2> QED
    BY <2>1, <2>3, <2>4, <2>5, <2>6
<1> QED
  BY <1>4, <1>5, <1>6 DEF Exchange

\* The order is recorded: the tier's state takes over what it bought or sold.
LEMMA HoldRecord ==
    ASSUME SavedInv, SavedInv', OrderInv, HoldInv, Record PROVE HoldInv'
<1>types. DiskTypes /\ Tier \in Tiers
  BY TierIsOne DEF SavedInv, DiskTypes
<1>1. PICK s \in States :
        /\ s \in (IF order.kind = "enter" THEN Opened(mem[Tier]) ELSE Closed(mem[Tier]))
        /\ mem' = [mem EXCEPT ![Tier] = s]
  BY <1>types, NextStates DEF Record, DiskTypes
<1>2. /\ UNCHANGED <<cur, order, active, json, hold, crashes>> /\ at = "record" /\ at' = "backup"
      /\ faults \in Nat /\ faults' \in Nat
  BY DEF Record, SavedInv, DiskTypes
<1>3. Fault \/ (faults' = faults /\ db' = [db EXCEPT ![Tier] = s])
  BY <1>types, <1>1 DEF Record, Save, DiskTypes
<1>4. WorldTypes'
  BY <1>2 DEF HoldInv, WorldTypes
<1>5. RowBeforeFile'
  BY <1>types, <1>2, <1>3, RealStates DEF HoldInv, RowBeforeFile, Fault, DiskTypes
<1>6. HoldingsAddUp'
  <2> SUFFICES ASSUME faults' = 0, crashes' = 0, NEW y \in Symbols
               PROVE  hold'[y] = Unrecorded(y)' + Position(y)'
    BY DEF HoldingsAddUp, Position
  <2>1. faults = 0 /\ crashes = 0 /\ db' = [db EXCEPT ![Tier] = s]
    BY <1>2, <1>3 DEF Fault
  <2>2. hold[y] = Unrecorded(y) + Position(y)
    BY <2>1 DEF HoldInv, HoldingsAddUp, Position
  <2>3. \A t \in Tiers : Known(t) = Loaded(t) /\ Known(t)' = Loaded(t)'
    BY <2>1, <1>5, KnownIsLoaded, KnownIsLoadedAfter DEF HoldInv
  <2>4. \A t \in Tiers : t # Tier => Known(t)' = Known(t)
    BY <2>1, <2>3, <1>2 DEF Loaded, FromFile, SavedInv, DiskTypes
  <2>5. Ordered /\ Tier \in active
    BY <1>2 DEF OrderInv, Ordered
  <2>6. Known(Tier) = mem[Tier] /\ Known(Tier)' = s
    <3>1. PICK x \in Tiers : x = Tier
      BY <1>types
    <3>2. db'[x] = s /\ s # NoState
      BY <2>1, <3>1, RealStates DEF SavedInv, DiskTypes
    <3>3. Known(x)' = s
      BY <2>3, <3>2 DEF Loaded
    <3>4. Tier' = Tier
      BY <1>2 DEF Tier
    <3>5. Known(Tier)' = Known(x)'
      BY <3>1, <3>4 DEF Known, Loaded, FromFile
    <3> QED
      BY <2>5, <3>3, <3>5 DEF Known
  <2>7. Units(Tier)' - Units(Tier) = (IF order.side = "buy" THEN 1 ELSE -1)
        /\ Units(Tier) \in Int /\ Units(Tier)' \in Int
    <3>1. mem[Tier].side \in {"FLAT", "LONG", "SHORT"}
      BY <1>types DEF DiskTypes, States
    <3>2. CASE order.kind = "enter"
      <4>1. mem[Tier].side = "FLAT" /\ s = [mem[Tier] EXCEPT !.side = IF order.side = "buy" THEN "LONG" ELSE "SHORT"]
        BY <2>5, <3>2, <1>1 DEF Ordered, Open, Opened
      <4>2. s.side = IF order.side = "buy" THEN "LONG" ELSE "SHORT"
        BY <4>1, <1>types DEF DiskTypes, States
      <4> QED
        BY <2>6, <4>1, <4>2 DEF Units
    <3>3. CASE order.kind # "enter"
      <4>1. s.side = "FLAT" /\ mem[Tier].side # "FLAT" /\ order.side = ExitSide(Tier)
        BY <2>5, <3>3, <1>1 DEF Ordered, Open, Closed
      <4> QED
        BY <2>6, <3>1, <4>1 DEF Units, ExitSide
    <3> QED
      BY <3>2, <3>3
  <2>8. Unrecorded(y) = IF SymbolOf[Tier] # y THEN 0 ELSE IF order.side = "buy" THEN 1 ELSE -1
    BY <1>2 DEF Unrecorded
  <2>9. Unrecorded(y)' = 0
    BY <1>2 DEF Unrecorded
  <2>10. Position(y)' = IF SymbolOf[Tier] = y THEN Position(y) - Units(Tier) + Units(Tier)'
                        ELSE Position(y)
    <3>1. PICK x \in Tiers : x = Tier
      BY <1>types
    <3>2. Tier' = Tier
      BY <1>2 DEF Tier
    <3>3. Position(y)' = IF SymbolOf[x] = y THEN Position(y) - Units(x) + Units(x)'
                         ELSE Position(y)
      BY <2>4, <3>1, PositionMoves
    <3>4. Units(x)' = Units(Tier)'
      BY <3>1, <3>2 DEF Units, Known, Loaded, FromFile
    <3> QED
      BY <3>1, <3>3, <3>4
  <2>11. Position(y) \in Int /\ hold'[y] = hold[y]
    BY <1>2, PositionType
  <2> QED
    BY <2>2, <2>7, <2>8, <2>9, <2>10, <2>11
<1> QED
  BY <1>4, <1>5, <1>6 DEF HoldInv

LEMMA HoldStep == SavedInv /\ OrderInv /\ HoldInv /\ SavedInv' /\ [Next]_vars => HoldInv'
<1> SUFFICES ASSUME SavedInv, OrderInv, HoldInv, SavedInv', [Next]_vars PROVE HoldInv'
  OBVIOUS
<1>types. DiskTypes /\ Tier \in Tiers /\ faults' \in Nat /\ faults \in Nat
  BY TierIsOne DEF SavedInv, DiskTypes
<1>fault. Fault => faults' # 0
  BY <1>types DEF Fault
<1>1. CASE RefreshRegime \/ Activate \/ Fetch \/ CheckStops \/ HandleSignal \/ Wake \/ Start
  <2>1. UNCHANGED <<db, json, hold, crashes>> /\ at # "record"
    BY <1>1 DEF RefreshRegime, Activate, Fetch, CheckStops, HandleSignal, Wake, Start, diskVars, bounds
  <2>2. at' # "record"
    BY <1>1 DEF RefreshRegime, Activate, Fetch, CheckStops, HandleSignal, Wake, Start, NextTier, Submit
  <2>3. faults' = faults \/ Fault
    BY <1>1 DEF RefreshRegime, Activate, Fetch, CheckStops, HandleSignal, Wake, Start, LoadTier,
         ExitApproved, bounds
  <2> QED
    BY <2>1, <2>2, <2>3, <1>types, <1>fault, HoldingsStay
<1>2. CASE Exchange
  BY <1>2, HoldExchange
<1>3. CASE Record
  BY <1>3, HoldRecord
<1>4. CASE Backup
  <2>1. UNCHANGED <<mem, active, db, hold, crashes>> /\ at = "backup"
    BY <1>4 DEF Backup, tierVars
  <2>2. at' # "record"
    BY <1>4 DEF Backup, Proceed, NextTier
  <2>3. Fault \/ (faults' = faults /\ json' = [json EXCEPT ![Tier] = mem[Tier]])
    BY <1>4 DEF Backup
  <2>4. WorldTypes'
    BY <2>1 DEF HoldInv, WorldTypes
  <2>5. faults' = 0 => faults = 0 /\ db[Tier] = mem[Tier] /\ db[Tier] # NoState
    BY <2>1, <2>3, <1>types, <1>fault, RealStates DEF SavedInv, RowFirst, DiskTypes
  <2>6. RowBeforeFile'
    BY <2>1, <2>3, <2>5, <1>types, <1>fault DEF HoldInv, RowBeforeFile, DiskTypes
  <2>7. HoldingsAddUp'
    <3> SUFFICES ASSUME faults' = 0, crashes' = 0, NEW s \in Symbols
                 PROVE  hold'[s] = Unrecorded(s)' + Position(s)'
      BY DEF HoldingsAddUp, Position
    <3>1. hold[s] = Unrecorded(s) + Position(s) /\ hold'[s] = hold[s]
      BY <2>1, <2>5 DEF HoldInv, HoldingsAddUp, Position
    <3>2. \A t \in Tiers : Loaded(t)' = Loaded(t)
      BY <2>1, <2>3, <2>5, <1>fault, <1>types DEF Loaded, FromFile, DiskTypes
    <3>3. \A t \in Tiers : Known(t) = Loaded(t) /\ Known(t)' = Loaded(t)'
      BY <2>5, <2>6, KnownIsLoaded, KnownIsLoadedAfter DEF HoldInv
    <3>4. Position(s)' = Position(s)
      BY <3>2, <3>3, PositionStays
    <3>5. Unrecorded(s) = 0 /\ Unrecorded(s)' = 0
      BY <2>1, <2>2 DEF Unrecorded
    <3> QED
      BY <3>1, <3>4, <3>5
  <2> QED
    BY <2>4, <2>6, <2>7 DEF HoldInv
<1>5. CASE Stop
  BY <1>5, <1>types, HoldingsStay DEF Stop, Forget, diskVars, bounds
<1>6. CASE Crash
  <2>1. crashes' = crashes + 1 /\ UNCHANGED <<db, hold, faults>>
        /\ (json' = json \/ json' = [json EXCEPT ![Tier] = NoState])
    BY <1>6 DEF Crash
  <2>2. crashes' # 0 /\ crashes' \in Nat
    BY <2>1 DEF HoldInv, WorldTypes
  <2> QED
    BY <2>1, <2>2, <1>types DEF HoldInv, WorldTypes, RowBeforeFile, HoldingsAddUp, DiskTypes
<1>7. CASE ToggleKillSwitch \/ PriceMoves \/ UNCHANGED vars
  <2>1. UNCHANGED <<at, cur, order, active, mem, db, json, hold, faults, crashes>>
    BY <1>7 DEF ToggleKillSwitch, PriceMoves, vars, loopVars, tierVars, diskVars, bounds
  <2>2. \A t \in Tiers : Known(t)' = Known(t)
    BY <2>1 DEF Known, Loaded, FromFile
  <2>3. \A s \in Symbols : Position(s)' = Position(s) /\ Unrecorded(s)' = Unrecorded(s)
    BY <2>1, <2>2, PositionStays DEF Unrecorded, Tier
  <2>4. HoldingsAddUp'
    <3> SUFFICES ASSUME faults' = 0, crashes' = 0, NEW s \in Symbols
                 PROVE  hold'[s] = Unrecorded(s)' + Position(s)'
      BY DEF HoldingsAddUp, Position
    <3> QED
      BY <2>1, <2>3 DEF HoldInv, HoldingsAddUp, Position
  <2> QED
    BY <2>1, <2>4 DEF HoldInv, WorldTypes, RowBeforeFile
<1> QED
  BY <1>1, <1>2, <1>3, <1>4, <1>5, <1>6, <1>7 DEF Next, Loop

LEMMA LiveInvariant == Spec => []LiveInv
<1>1. Init => LiveInv
  BY SavedInitial, OrderInitial, HoldInitial DEF LiveInv
<1>2. LiveInv /\ [Next]_vars => LiveInv'
  BY SavedStep, OrderStep, HoldStep DEF LiveInv
<1> QED
  BY <1>1, <1>2, PTL DEF Spec

\* What the account holds, what the loop remembers and what a restart would
\* load are three views of the same positions, for any tiers, symbols and
\* limits: with no failing call and no death of the process every unit held is
\* explained by a tier's state or by the order not yet recorded.
THEOREM ViewsDoAgree == Spec => []ViewsAgree
<1>1. LiveInv => ViewsAgree
  BY DEF LiveInv, SavedInv, HoldInv, ViewsAgree
<1> QED
  BY <1>1, LiveInvariant, PTL
=============================================================================
