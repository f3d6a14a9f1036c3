-------------------------- MODULE SimulationProofs --------------------------
(***************************************************************************)
(* Proofs about the strategy side: the paper engine and its sessions'      *)
(* resumption, the routing by regime, the backtest's ledger, the           *)
(* orchestrator that starts and stops what runs, and what the signal       *)
(* generators answer.                                                      *)
(***************************************************************************)
EXTENDS PaperTrading, RegimeRouting, Backtest, Orchestrator, SignalRules, Sums, TLAPS

(***************************************************************************)
(* A paper session: its open position and its log of closed ones, in       *)
(* memory and in the row, and how far the position has been looked at.     *)
(***************************************************************************)
Held == [id : Nat, entry : Nat]

\* The positions are among the first n, and none is in twice.
Sound(p, l, n) ==
    /\ l \in Seq(Nat) /\ IsInjective(l)
    /\ \A i \in DOMAIN l : l[i] <= n
    /\ p = None \/ (p \in Held /\ p.id <= n /\ \A i \in DOMAIN l : l[i] # p.id)

Checked(p, upTo) ==
    p \in Held => \A b \in (p.entry + 1)..upTo : <<p.id, b>> \in reached => b \in unseen

\* The bars no later poll looks at: this one is taken as it is now.
Passed == unseen \cup {forming} \cup {b \in 1..forming : b \notin Fetched /\ cursor # 0 /\ b > cursor}

Cursor(c) == c \in Nat /\ c <= forming /\ (c # 0 => c \in unseen)

PaperInv ==
    /\ forming \in Nat \ {0} /\ opened \in Nat
    /\ Cursor(cursor) /\ Sound(pos, log, opened) /\ Checked(pos, cursor)
    /\ cursor = 0 => pos = None
    /\ saved = None \/
          /\ saved \in [pos : {None} \cup Held, log : Seq(Nat), cursor : Nat \ {0}]
          /\ Cursor(saved.cursor) /\ Sound(saved.pos, saved.log, opened)
          /\ Checked(saved.pos, saved.cursor)
    /\ ~slipped /\ pos # None => saved # None /\ saved.pos = pos

LEMMA NoneIsNotHeld == None \notin Held
<1> QED
  BY DEF None, Held

LEMMA SoundClosed ==
    ASSUME NEW p \in Held, NEW l, NEW n \in Nat, Sound(p, l, n)
    PROVE  Sound(None, Append(l, p.id), n)
<1>1. l \in Seq(Nat) /\ p.id \in Nat /\ p.id <= n /\ p # None
  BY NoneIsNotHeld DEF Sound, Held
<1> DEFINE a == Append(l, p.id)
<1>2. /\ a \in Seq(Nat) /\ a[Len(l) + 1] = p.id
      /\ \A i \in DOMAIN l : a[i] = l[i]
      /\ \A i \in DOMAIN a : i \in DOMAIN l \/ i = Len(l) + 1
  BY <1>1, AppendFacts
<1> HIDE DEF a
<1>3. (\A i \in DOMAIN l : l[i] # p.id) /\ IsInjective(l) /\ \A i \in DOMAIN l : l[i] <= n
  BY <1>1 DEF Sound
<1>4. IsInjective(a)
  BY <1>2, <1>3 DEF IsInjective
<1>5. \A i \in DOMAIN a : a[i] <= n
  BY <1>1, <1>2, <1>3
<1> QED
  BY <1>2, <1>4, <1>5 DEF Sound, a

LEMMA SoundOpened ==
    ASSUME NEW l, NEW n \in Nat, Sound(None, l, n), NEW e \in Nat
    PROVE  Sound([id |-> n + 1, entry |-> e], l, n + 1)
<1> DEFINE p == [id |-> n + 1, entry |-> e]
<1>1. p \in Held /\ p.id = n + 1
  BY DEF Held
<1>2. l \in Seq(Nat) /\ IsInjective(l) /\ \A i \in DOMAIN l : l[i] \in Nat /\ l[i] <= n
  BY DEF Sound
<1> HIDE DEF p
<1>3. \A i \in DOMAIN l : l[i] <= n + 1 /\ l[i] # p.id
  BY <1>1, <1>2
<1> QED
  BY <1>1, <1>2, <1>3 DEF Sound, p

LEMMA SoundLonger ==
    ASSUME NEW p, NEW l, NEW n \in Nat, NEW m \in Nat, n <= m, Sound(p, l, n)
    PROVE  Sound(p, l, m)
<1>1. l \in Seq(Nat) /\ \A i \in DOMAIN l : l[i] \in Nat /\ l[i] <= n
  BY DEF Sound
<1>2. p \in Held => p.id \in Nat
  BY DEF Held
<1> QED
  BY <1>1, <1>2 DEF Sound

LEMMA PaperInitial == PaperInit => PaperInv
<1> SUFFICES ASSUME PaperInit PROVE PaperInv
  OBVIOUS
<1>1. <<>> \in Seq(Nat) /\ DOMAIN <<>> = {}
  OBVIOUS
<1> QED
  BY <1>1, NoneIsNotHeld DEF PaperInit, PaperInv, Cursor, Sound, Checked, IsInjective

\* The replay of a poll, with what it has taken out of the session.
LEMMA ReplaySound ==
    ASSUME PaperInv
    PROVE  /\ Sound(AfterReplay.pos, AfterReplay.log, opened)
           /\ AfterReplay.pos = None \/ (AfterReplay.pos = pos /\ pos \in Held /\ ~StopTaken)
<1>0. Sound(pos, log, opened) /\ opened \in Nat
  BY DEF PaperInv
<1>1. CASE StopTaken
  <2>1. pos \in Held
    BY <1>0, <1>1 DEF StopTaken, Sound
  <2> QED
    BY <1>0, <1>1, <2>1, SoundClosed DEF AfterReplay
<1>2. CASE ~StopTaken
  BY <1>0, <1>2 DEF AfterReplay, Sound
<1> QED
  BY <1>1, <1>2

\* What the cursor has moved past has been looked at, or could not be.
LEMMA ReplayChecks ==
    ASSUME PaperInv, pos \in Held, ~StopTaken,
           unseen' = Passed
    PROVE  \A b \in (pos.entry + 1)..forming : <<pos.id, b>> \in reached => b \in unseen'
<1>1. pos # None /\ cursor # 0 /\ cursor \in Nat /\ forming \in Nat \ {0} /\ pos.entry \in Nat
  BY NoneIsNotHeld DEF PaperInv, Cursor, Held
<1>2. ASSUME NEW b \in (pos.entry + 1)..forming, <<pos.id, b>> \in reached PROVE b \in unseen'
  <2>1. CASE b <= cursor
    <3>1. b \in (pos.entry + 1)..cursor
      BY <1>1, <1>2, <2>1
    <3> QED
      BY <1>2, <3>1 DEF PaperInv, Checked, Passed
  <2>2. CASE b > cursor
    <3>1. b \notin Replayed
      BY <1>1, <1>2 DEF StopTaken
    <3>2. b \notin Fetched
      BY <1>1, <2>2, <3>1 DEF Replayed
    <3>3. b \in 1..forming
      BY <1>1, <1>2
    <3> QED
      BY <1>1, <2>2, <3>2, <3>3 DEF Passed
  <2> QED
    <3>1. b \in Int /\ cursor \in Int
      BY <1>1
    <3> QED
      BY <2>1, <2>2, <3>1
<1> QED
  BY <1>2

\* A poll that has processed the bar, whatever it did to the session.
LEMMA PollDone ==
    ASSUME PaperInv, opened' \in Nat, opened <= opened', Sound(pos', log', opened'),
           \/ pos' = None
           \/ pos' = pos /\ pos \in Held /\ ~StopTaken
           \/ pos' \in Held /\ pos'.entry = forming,
           cursor' = forming,
           unseen' = Passed,
           UNCHANGED <<forming, reached>>,
           \/ saved' = saved /\ slipped' = TRUE
           \/ saved' = [pos |-> pos', log |-> log', cursor |-> forming] /\ slipped' = slipped
    PROVE  PaperInv'
<1>1. forming \in Nat \ {0} /\ opened \in Nat /\ forming \in unseen' /\ unseen \subseteq unseen'
  BY DEF PaperInv, Passed
<1>2. \A c : Cursor(c) => Cursor(c)'
  BY <1>1 DEF Cursor
<1>3. Cursor(cursor)'
  BY <1>1 DEF Cursor
<1>4. \A q, c : Checked(q, c) => Checked(q, c)'
  BY <1>1 DEF Checked
<1>5. Checked(pos, cursor)'
  <2>1. CASE pos' = None
    BY <2>1, NoneIsNotHeld DEF Checked
  <2>2. CASE pos' = pos /\ pos \in Held /\ ~StopTaken
    BY <2>2, ReplayChecks DEF Checked
  <2>3. CASE pos' \in Held /\ pos'.entry = forming
    <3>1. (forming + 1)..forming = {}
      BY <1>1
    <3> QED
      BY <2>3, <3>1 DEF Checked
  <2> QED
    BY <2>1, <2>2, <2>3
<1>6. CASE saved' = saved /\ slipped' = TRUE
  <2>1. saved = None \/
          /\ saved \in [pos : {None} \cup Held, log : Seq(Nat), cursor : Nat \ {0}]
          /\ Cursor(saved.cursor) /\ Sound(saved.pos, saved.log, opened)
          /\ Checked(saved.pos, saved.cursor)
    BY DEF PaperInv
  <2>2. saved # None => Sound(saved.pos, saved.log, opened')
    BY <1>1, <2>1, SoundLonger
  <2>3. saved # None => Cursor(saved.cursor)' /\ Checked(saved.pos, saved.cursor)'
    BY <1>1, <1>6, <2>1 DEF Cursor, Checked
  <2> QED
    <3>1. saved # None => /\ saved'.cursor = saved.cursor /\ Cursor(saved.cursor)'
                          /\ saved' \in [pos : {None} \cup Held, log : Seq(Nat), cursor : Nat \ {0}]
      BY <1>6, <2>1, <2>3
    <3> QED
      BY <1>1, <1>3, <1>5, <1>6, <2>1, <2>2, <2>3, <3>1 DEF PaperInv
<1>7. CASE saved' = [pos |-> pos', log |-> log', cursor |-> forming] /\ slipped' = slipped
  <2>1. /\ saved' \in [pos : {None} \cup Held, log : Seq(Nat), cursor : Nat \ {0}]
        /\ saved'.cursor = forming /\ saved'.pos = pos' /\ saved'.log = log'
    BY <1>1, <1>7 DEF Sound
  <2>2. saved' # None
    BY <1>7 DEF None
  <2> QED
    <3>1. Checked(saved.pos, saved.cursor)' /\ Cursor(saved.cursor)' /\ Sound(saved'.pos, saved'.log, opened')
      BY <1>3, <1>5, <2>1 DEF Checked, Cursor
    <3> QED
      BY <1>1, <1>3, <1>5, <1>7, <2>1, <2>2, <3>1 DEF PaperInv
<1> QED
  BY <1>6, <1>7

LEMMA ProcessKeeps ==
    ASSUME PaperInv, NEW signal \in {"none", "same", "opposite"}, NEW saves \in BOOLEAN,
           ProcessLiveBar(signal, saves)
    PROVE  PaperInv'
<1> DEFINE before == AfterReplay
           after == ExecuteSignal(before, signal)
<1>0. forming \in Nat /\ opened \in Nat
  BY DEF PaperInv
<1>1. /\ cursor' = forming /\ UNCHANGED <<forming, reached>>
      /\ unseen' = Passed
      /\ pos' = after.pos /\ log' = after.log
      /\ opened' = IF after.pos # None /\ after.pos.id > opened THEN opened + 1 ELSE opened
      /\ \/ saved' = saved /\ slipped' = TRUE
         \/ saved' = [pos |-> pos', log |-> log', cursor |-> forming] /\ slipped' = slipped
  BY DEF ProcessLiveBar, Saved, Passed
<1>2. /\ Sound(before.pos, before.log, opened)
      /\ before.pos = None \/ (before.pos = pos /\ pos \in Held /\ ~StopTaken)
  BY ReplaySound
<1>3. before = [pos |-> before.pos, log |-> before.log]
  BY DEF AfterReplay
<1> HIDE DEF before
<1>4. \/ after = before
      \/ before.pos = None /\ after = [pos |-> [id |-> opened + 1, entry |-> forming], log |-> before.log]
      \/ before.pos # None /\ after = [pos |-> None, log |-> Append(before.log, before.pos.id)]
  BY <1>3 DEF ExecuteSignal
<1> HIDE DEF after
<1>5. CASE after = before
  <2>1. after.pos # None => after.pos.id <= opened /\ after.pos.id \in Nat
    BY <1>2, <1>5 DEF Sound, Held
  <2>2. opened' = opened
    BY <1>0, <1>1, <2>1
  <2>5. Sound(pos', log', opened') /\ opened' \in Nat /\ opened <= opened'
    BY <1>0, <1>1, <1>2, <1>5, <2>2
  <2> QED
    BY <1>0, <1>1, <1>2, <1>5, <2>2, <2>5, PollDone
<1>6. CASE before.pos = None /\ after = [pos |-> [id |-> opened + 1, entry |-> forming], log |-> before.log]
  <2> DEFINE p == [id |-> opened + 1, entry |-> forming]
  <2>1. p \in Held /\ p.entry = forming /\ p # None /\ p.id = opened + 1
    BY <1>0, NoneIsNotHeld DEF Held
  <2>2. after.pos = p /\ after.log = before.log
    BY <1>6
  <2>3. Sound(p, before.log, opened + 1)
    BY <1>0, <1>2, <1>6, SoundOpened
  <2> HIDE DEF p
  <2>4. opened' = opened + 1
    BY <1>0, <1>1, <2>1, <2>2
  <2>5. Sound(pos', log', opened') /\ opened' \in Nat /\ opened <= opened'
    BY <1>0, <1>1, <2>1, <2>2, <2>3, <2>4
  <2> QED
    BY <1>0, <1>1, <2>1, <2>2, <2>3, <2>4, <2>5, PollDone
<1>7. CASE before.pos # None /\ after = [pos |-> None, log |-> Append(before.log, before.pos.id)]
  <2>1. before.pos \in Held
    BY <1>2, <1>7
  <2>2. Sound(None, Append(before.log, before.pos.id), opened)
    BY <1>0, <1>2, <2>1, SoundClosed
  <2>3. after.pos = None /\ after.log = Append(before.log, before.pos.id)
    BY <1>7
  <2>4. opened' = opened
    BY <1>1, <2>3
  <2>5. Sound(pos', log', opened') /\ opened' \in Nat /\ opened <= opened'
    BY <1>0, <1>1, <2>2, <2>3, <2>4
  <2> QED
    BY <1>0, <1>1, <2>2, <2>3, <2>4, <2>5, PollDone
<1> QED
  BY <1>4, <1>5, <1>6, <1>7

LEMMA GeneratorKeeps == ASSUME PaperInv, GeneratorFails PROVE PaperInv'
<1> DEFINE before == AfterReplay
<1>1. /\ cursor' = forming /\ UNCHANGED <<forming, reached, opened, saved>> /\ slipped' = TRUE
      /\ unseen' = Passed
      /\ pos' = before.pos /\ log' = before.log
  BY DEF GeneratorFails, Passed
<1>2. /\ Sound(before.pos, before.log, opened) /\ opened \in Nat
      /\ before.pos = None \/ (before.pos = pos /\ pos \in Held /\ ~StopTaken)
  BY ReplaySound DEF PaperInv
<1> HIDE DEF before
<1> QED
  BY <1>1, <1>2, PollDone

LEMMA ReachesKeeps == ASSUME PaperInv, Reaches PROVE PaperInv'
<1>1. /\ UNCHANGED <<pos, log, cursor, saved, forming, opened, unseen, slipped>>
      /\ \E id : reached' = reached \cup {<<id, forming>>}
  BY DEF Reaches
<1>2. forming \in Nat
  BY DEF PaperInv
<1>3. ASSUME NEW p, NEW c, Cursor(c), Checked(p, c)
      PROVE  p \in Held => \A b \in (p.entry + 1)..c : <<p.id, b>> \in reached' => b \in unseen
  <2>1. c \in Nat /\ c <= forming /\ (c # 0 => c \in unseen)
    BY <1>3 DEF Cursor
  <2> SUFFICES ASSUME p \in Held, NEW b \in (p.entry + 1)..c, <<p.id, b>> \in reached' PROVE b \in unseen
    OBVIOUS
  <2>2. CASE <<p.id, b>> \in reached
    BY <1>1, <1>3, <2>2 DEF Checked
  <2>3. CASE b = forming
    <3>1. b = c /\ c # 0
      BY <1>2, <2>1, <2>3 DEF Held
    <3> QED
      BY <1>1, <2>1, <3>1
  <2> QED
    BY <1>1, <2>2, <2>3
<1>4. \A c : Cursor(c)' <=> Cursor(c)
  BY <1>1 DEF Cursor
<1>5. Checked(pos, cursor)'
  <2>1. pos \in Held => \A b \in (pos.entry + 1)..cursor : <<pos.id, b>> \in reached' => b \in unseen
    BY <1>3 DEF PaperInv
  <2> QED
    BY <1>1, <2>1 DEF Checked
<1>6. saved # None => Checked(saved.pos, saved.cursor)'
  <2>1. saved # None /\ saved.pos \in Held =>
          \A b \in (saved.pos.entry + 1)..saved.cursor : <<saved.pos.id, b>> \in reached' => b \in unseen
    BY <1>3 DEF PaperInv
  <2> QED
    BY <1>1, <2>1 DEF Checked
<1> QED
  BY <1>1, <1>4, <1>5, <1>6 DEF PaperInv

LEMMA PaperStep == ASSUME PaperInv, [PaperNext]_paperVars PROVE PaperInv'
<1>empty. Sound(None, <<>>, opened) /\ \A c : Checked(None, c)' /\ (0 \in Nat)
  <2>1. <<>> \in Seq(Nat) /\ DOMAIN <<>> = {}
    OBVIOUS
  <2> QED
    BY <2>1, NoneIsNotHeld DEF Sound, Checked, IsInjective
<1>0. forming \in Nat \ {0} /\ opened \in Nat
  BY DEF PaperInv
<1>1. CASE UNCHANGED <<pos, log, cursor, saved, forming, reached, opened, unseen, slipped>>
  BY <1>1 DEF PaperInv, Cursor, Checked
<1>2. CASE StartSession
  <2>1. UNCHANGED <<saved, forming, reached, opened, unseen>>
    BY <1>2 DEF StartSession
  <2>2. \A c : Cursor(c)' <=> Cursor(c)
    BY <2>1 DEF Cursor
  <2>3. \A p, c : Checked(p, c)' <=> Checked(p, c)
    BY <2>1 DEF Checked
  <2>4. CASE pos' = None /\ log' = <<>> /\ cursor' = 0
    <3>1. Cursor(0)
      BY <1>0 DEF Cursor
    <3> QED
      BY <1>empty, <2>1, <2>2, <2>3, <2>4, <3>1 DEF PaperInv
  <2>5. CASE saved # None /\ pos' = saved.pos /\ log' = saved.log /\ cursor' = saved.cursor
    <3>1. saved.cursor # 0
      BY <2>5 DEF PaperInv
    <3> QED
      BY <2>1, <2>2, <2>3, <2>5, <3>1 DEF PaperInv
  <2> QED
    BY <1>2, <2>4, <2>5 DEF StartSession, Loaded
<1>3. CASE ForceClose
  <2>1. UNCHANGED <<cursor, saved, forming, reached, opened, unseen, slipped>> /\ pos' = None
        /\ log' = IF pos = None THEN log ELSE Append(log, pos.id)
    BY <1>3 DEF ForceClose
  <2>2. Sound(None, log', opened)
    BY <1>0, <2>1, SoundClosed DEF PaperInv, Sound
  <2>3. \A c : Cursor(c)' <=> Cursor(c)
    BY <2>1 DEF Cursor
  <2>4. \A p, c : Checked(p, c)' <=> Checked(p, c)
    BY <2>1 DEF Checked
  <2> QED
    BY <1>empty, <2>1, <2>2, <2>3, <2>4 DEF PaperInv
<1>4. CASE Dies
  <2>1. UNCHANGED <<saved, forming, reached, opened, unseen, slipped>>
        /\ pos' = None /\ log' = <<>> /\ cursor' = 0
    BY <1>4 DEF Dies
  <2>2. \A c : Cursor(c)' <=> Cursor(c)
    BY <2>1 DEF Cursor
  <2>3. \A p, c : Checked(p, c)' <=> Checked(p, c)
    BY <2>1 DEF Checked
  <2>4. Cursor(0)
    BY <1>0 DEF Cursor
  <2> QED
    BY <1>empty, <2>1, <2>2, <2>3, <2>4 DEF PaperInv
<1>5. CASE NewBar
  <2>1. UNCHANGED <<pos, log, cursor, saved, reached, opened, unseen, slipped>> /\ forming' = forming + 1
    BY <1>5 DEF NewBar
  <2>2. \A c : Cursor(c) => Cursor(c)'
    BY <1>0, <2>1 DEF Cursor
  <2>3. \A p, c : Checked(p, c)' <=> Checked(p, c)
    BY <2>1 DEF Checked
  <2> QED
    BY <1>0, <2>1, <2>2, <2>3 DEF PaperInv
<1>6. CASE StopSession \/ NextPoll \/ FetchFails \/ UNCHANGED paperVars
  BY <1>1, <1>6 DEF StopSession, NextPoll, FetchFails, paperVars
<1> QED
  BY <1>2, <1>3, <1>4, <1>5, <1>6, ProcessKeeps, GeneratorKeeps, ReachesKeeps DEF PaperNext

\* A session passes no bar by that a poll could have looked at in full, and a
\* trade that was closed and saved stays closed, through any stops, deaths,
\* failed saves and gaps.
THEOREM SessionsDoResume == PaperInit /\ [][PaperNext]_paperVars => []SessionsResume
<1>1. PaperInv => SessionsResume
  <2> SUFFICES ASSUME PaperInv PROVE SessionsResume
    OBVIOUS
  <2>1. pos # None => pos \in Held
    BY DEF PaperInv, Sound
  <2>2. StopsAreSeen
    BY <2>1 DEF PaperInv, StopsAreSeen, Checked
  <2>3. \A p, l, n : Sound(p, l, n) /\ p # None => p.id \notin ToSet(l)
    BY DEF Sound, ToSet
  <2>4. \A p, l, n : Sound(p, l, n) => IsInjective(l)
    BY DEF Sound
  <2>5. TradesStayClosed
    BY <2>3, <2>4 DEF PaperInv, TradesStayClosed
  <2> QED
    BY <2>2, <2>5 DEF SessionsResume
<1> QED
  BY <1>1, PaperInitial, PaperStep, PTL

(***************************************************************************)
(* The router: while the bars stand still, what the second detector finds  *)
(* is of the side of the latest bar, and so is what the first one found.   *)
(***************************************************************************)
Agreed ==
    \A side \in Sides :
        found.sub \in {Trending[side], Choppy[side]} => found.coarse \in {side, UNKNOWN}

(* Whoever has an engine has the tag, of what is applied and of what the   *)
(* last check found.                                                       *)
Fitting ==
    \A t \in Templates :
        engines[t] # "off" /\ Tags[t] # {} =>
            /\ applied.sub \in Tags[t]
            /\ phase = "waiting" => found.sub \in Tags[t] \/ found.coarse = UNKNOWN

RouteInv ==
    /\ sides \in [1..4 -> Sides] /\ kinds \in [1..2 -> Kinds]
    /\ engines \in [Templates -> {"off", "created", "running", "stopping"}]
    /\ DOMAIN found = {"coarse", "sub"}
    /\ ~moved /\ phase \in {"bootsub", "sub"} => found.coarse \in {sides[4], UNKNOWN}
    /\ ~moved /\ phase = "stopping" => Agreed
    /\ Fitting

(* A sub-regime that names a side names that of the latest bar.            *)
LEMMA SubRegimeIsOfItsSide ==
    ASSUME sides \in [1..4 -> Sides], kinds \in [1..2 -> Kinds], NEW side \in Sides,
           ConfirmedSubRegime \in {Trending[side], Choppy[side]}
    PROVE  sides[4] = side
<1>1. /\ Trending[side] \notin {UNKNOWN, "transitional"} \cup Kinds
      /\ Choppy[side] \notin {UNKNOWN, "transitional"} \cup Kinds
  BY KindsAssumption DEF Trending, Choppy, Sides, UNKNOWN
<1>2. ConfirmedSubRegime = Labels[1] /\ Labels[2] = Labels[1]
  BY <1>1 DEF ConfirmedSubRegime
<1>3. Labels[2] = Classified(4, kinds[2])
  BY DEF Labels
<1>4. Classified(4, kinds[2]) = SubRegime(sides[4], kinds[2])
  BY <1>1, <1>2, <1>3 DEF Classified
<1>5. SubRegime(sides[4], kinds[2]) \in {Trending[side], Choppy[side]}
  BY <1>2, <1>3, <1>4
<1>6. kinds[2] \in Kinds /\ sides[4] \in Sides
  OBVIOUS
<1> QED
  BY <1>1, <1>5, <1>6, KindsAssumption DEF SubRegime, Trending, Choppy, Sides

LEMMA RouteInitial == RouteInit => RouteInv
<1> SUFFICES ASSUME RouteInit PROVE RouteInv
  OBVIOUS
<1>1. PICK k \in Kinds : kinds = <<k, k>>
  BY DEF RouteInit
<1>2. kinds \in [1..2 -> Kinds]
  BY <1>1
<1>3. sides \in [1..4 -> Sides]
  BY DEF RouteInit, Sides
<1> QED
  BY <1>2, <1>3 DEF RouteInit, RouteInv, Fitting

LEMMA RouteStep == ASSUME RouteInv, [RouteNext]_routeVars PROVE RouteInv'
<1>types. /\ sides \in [1..4 -> Sides] /\ kinds \in [1..2 -> Kinds]
          /\ engines \in [Templates -> {"off", "created", "running", "stopping"}]
          /\ DOMAIN found = {"coarse", "sub"}
          /\ ~moved /\ phase \in {"bootsub", "sub"} => found.coarse \in {sides[4], UNKNOWN}
          /\ ~moved /\ phase = "stopping" => Agreed
          /\ Fitting
  BY DEF RouteInv
<1>1. CASE DetectCoarse
  <2>1. PICK state \in {UNKNOWN, ConfirmedState} \cup (IF phase = "boot" THEN {RawState} ELSE {}) :
           found' = [coarse |-> state, sub |-> UNKNOWN]
    BY <1>1 DEF DetectCoarse
  <2>2. state \in {sides[4], UNKNOWN}
    BY <2>1 DEF ConfirmedState, RawState
  <2> QED
    BY <1>types, <1>1, <2>1, <2>2 DEF DetectCoarse, RouteInv, Agreed, Fitting
<1>2. CASE DetectSub
  <2>1. PICK sub \in {UNKNOWN, ConfirmedSubRegime} :
         /\ found' = [found EXCEPT !.sub = sub]
         /\ IF phase = "sub" /\ (found.coarse = UNKNOWN \/ ~Changed(sub))
            THEN phase' = "waiting" /\ UNCHANGED engines
            ELSE /\ phase' = "stopping"
                 /\ engines' = [t \in Templates |-> IF engines[t] = "running" THEN "stopping" ELSE engines[t]]
    BY <1>2 DEF DetectSub
  <2>2. phase \in {"bootsub", "sub"} /\ UNCHANGED <<sides, kinds, applied, moved>>
    BY <1>2 DEF DetectSub
  <2>3. found'.sub = sub /\ found'.coarse = found.coarse /\ DOMAIN found' = {"coarse", "sub"}
    BY <1>types, <2>1
  <2>4. CASE phase' = "waiting" /\ UNCHANGED engines
    <3>1. found.coarse = UNKNOWN \/ sub = applied.sub
      BY <2>1, <2>4 DEF Changed
    <3>2. Fitting'
      BY <1>types, <2>2, <2>3, <2>4, <3>1 DEF Fitting
    <3> QED
      BY <1>types, <2>2, <2>3, <2>4, <3>2 DEF RouteInv
  <2>5. CASE /\ phase' = "stopping"
             /\ engines' = [t \in Templates |-> IF engines[t] = "running" THEN "stopping" ELSE engines[t]]
    <3>1. ASSUME ~moved, NEW side \in Sides, sub \in {Trending[side], Choppy[side]}
          PROVE  found.coarse \in {side, UNKNOWN}
      <4>1. sub # UNKNOWN
        BY <3>1 DEF Trending, Choppy, Sides, UNKNOWN
      <4>2. sides[4] = side
        BY <1>types, <2>1, <3>1, <4>1, SubRegimeIsOfItsSide
      <4> QED
        BY <1>types, <2>2, <3>1, <4>2
    <3>2. ~moved' => Agreed'
      BY <2>2, <2>3, <3>1 DEF Agreed
    <3>3. /\ engines' \in [Templates -> {"off", "created", "running", "stopping"}]
          /\ \A t \in Templates : engines'[t] # "off" => engines[t] # "off"
      BY <1>types, <2>5
    <3>4. Fitting'
      BY <1>types, <2>2, <2>5, <3>3 DEF Fitting
    <3> QED
      BY <1>types, <2>2, <2>3, <2>5, <3>2, <3>3, <3>4 DEF RouteInv
  <2> QED
    BY <2>1, <2>4, <2>5
<1>3. CASE ApplyRegime
  <2>1. Fitting'
    BY <1>3 DEF ApplyRegime, Matching, Fitting
  <2>2. engines' \in [Templates -> {"off", "created", "running", "stopping"}]
    BY <1>3 DEF ApplyRegime
  <2>3. phase' = "waiting" /\ UNCHANGED <<sides, kinds, found, moved>>
    BY <1>3 DEF ApplyRegime
  <2> QED
    BY <1>types, <2>1, <2>2, <2>3 DEF RouteInv
<1>4. ASSUME NEW t \in Templates, EngineRuns(t) \/ EngineEnds(t) PROVE RouteInv'
  BY <1>types, <1>4 DEF EngineRuns, EngineEnds, RouteInv, Agreed, Fitting
<1>5. CASE RouterRestarts
  BY <1>types, <1>5 DEF RouterRestarts, RouteInv, Fitting
<1>6. CASE DayMoves
  <2>1. PICK side \in Sides, k \in Kinds :
           \/ sides' = [sides EXCEPT ![4] = side] /\ kinds' = [kinds EXCEPT ![2] = k]
           \/ sides' = <<sides[2], sides[3], sides[4], side>> /\ kinds' = <<kinds[2], k>>
    BY <1>6 DEF DayMoves
  <2>2. sides' \in [1..4 -> Sides] /\ kinds' \in [1..2 -> Kinds]
    BY <1>types, <2>1
  <2>3. moved' = (moved \/ phase \in {"bootsub", "sub"}) /\ UNCHANGED <<phase, applied, found, engines>>
    BY <1>6 DEF DayMoves
  <2> QED
    BY <1>types, <2>2, <2>3 DEF RouteInv, Agreed, Fitting
<1>7. CASE UNCHANGED routeVars
  BY <1>types, <1>7 DEF routeVars, RouteInv, Agreed, Fitting
<1> QED
  BY <1>1, <1>2, <1>3, <1>4, <1>5, <1>6, <1>7 DEF RouteNext

\* Through every switch, failed fetch and restart a template with tags has an
\* engine only when the sub-regime applied last is one of its tags, and so is
\* the one the last check found unless that check had no coarse regime; and the
\* two detectors never put a sub-regime of one side beside a coarse regime of
\* the other unless the bars moved between them.
THEOREM RoutingFailsClosed == RouteInit /\ [][RouteNext]_routeVars => []FailsClosed
<1>1. RouteInv => FailsClosed
  BY DEF RouteInv, Agreed, Fitting, FailsClosed
<1> QED
  BY <1>1, RouteInitial, RouteStep, PTL

(***************************************************************************)
(* The backtest: where the money is.                                       *)
(***************************************************************************)
Taken == [direction : {"long", "short"}, quantity : Int, entry : Int, commission : Int,
          stop : Int, target : Int, trail : Int]
Tally == [count : Nat, sum : Int]
Invested(p) == IF p = Flat THEN 0 ELSE Cost(p)

LedgerInv ==
    /\ bar \in [open : Nat, high : Nat, low : Nat, close : Nat]
    /\ cash \in Int /\ wins \in Tally /\ losses \in Tally
    /\ position = Flat \/ position \in Taken
    /\ cash + Invested(position) = Initial + wins.sum + losses.sum
    /\ step = "closed" => position = Flat

LEMMA FlatIsNotTaken == Flat \notin Taken
<1> QED
  BY DEF Flat, Taken

LEMMA MoneyTypes ==
    ASSUME NEW p \in Taken, NEW price \in Int
    PROVE  Cost(p) \in Int /\ Realized(p, price) \in Int /\ Proceeds(p, price) = Cost(p) + Realized(p, price)
<1>1. p.quantity \in Int /\ p.entry \in Int /\ p.commission \in Int
  BY DEF Taken
<1>2. CommissionRate \in Nat
  BY BacktestAssumption
<1>3. Cost(p) \in Int
  BY <1>1 DEF Cost
<1>4. Gross(p, price) \in Int
  BY <1>1 DEF Gross
<1>5. Commission(p.quantity, price) \in Int
  BY <1>1, <1>2 DEF Commission
<1> QED
  BY <1>1, <1>3, <1>4, <1>5 DEF Realized, Proceeds

LEMMA FillTypes ==
    ASSUME NEW base \in Int, NEW direction
    PROVE  FillPrice(base, direction) \in Int
<1> QED
  BY BacktestAssumption DEF FillPrice

\* What a trade that is over adds to the log is its result.
LEMMA Booked ==
    ASSUME NEW pnl \in Int, wins \in Tally, losses \in Tally, Book(pnl)
    PROVE  wins' \in Tally /\ losses' \in Tally /\ wins'.sum + losses'.sum = wins.sum + losses.sum + pnl
<1>1. wins.count \in Nat /\ wins.sum \in Int /\ losses.count \in Nat /\ losses.sum \in Int
  BY DEF Tally
<1>2. CASE pnl > 0
  <2>1. wins' = [count |-> wins.count + 1, sum |-> wins.sum + pnl] /\ losses' = losses
    BY <1>2 DEF Book, Logged
  <2> QED
    BY <1>1, <2>1 DEF Tally
<1>3. CASE ~(pnl > 0)
  <2>1. losses' = [count |-> losses.count + 1, sum |-> losses.sum + pnl] /\ wins' = wins
    BY <1>3 DEF Book, Logged
  <2> QED
    BY <1>1, <2>1 DEF Tally
<1> QED
  BY <1>2, <1>3

\* Closing moves the collateral and the result into cash, whatever is done
\* with them next.
LEMMA ClosesEven ==
    ASSUME LedgerInv, position # Flat, NEW price \in Int, Book(Realized(position, price)),
           NEW purse, purse = cash + Proceeds(position, price)
    PROVE  /\ purse \in Int /\ wins' \in Tally /\ losses' \in Tally
           /\ purse = Initial + wins'.sum + losses'.sum
<1>1. position \in Taken /\ cash \in Int /\ wins \in Tally /\ losses \in Tally
      /\ cash + Cost(position) = Initial + wins.sum + losses.sum
  BY DEF LedgerInv, Invested
<1> DEFINE cost == Cost(position)
           pnl == Realized(position, price)
<1>2. cost \in Int /\ pnl \in Int /\ purse = cash + (cost + pnl)
  BY <1>1, MoneyTypes
<1> HIDE DEF cost, pnl
<1>3. wins' \in Tally /\ losses' \in Tally /\ wins'.sum + losses'.sum = wins.sum + losses.sum + pnl
  BY <1>1, <1>2, Booked DEF pnl
<1>4. wins.sum \in Int /\ losses.sum \in Int /\ wins'.sum \in Int /\ losses'.sum \in Int /\ Initial \in Int
  BY <1>1, <1>3, BacktestAssumption DEF Tally
<1>5. cash + cost = Initial + wins.sum + losses.sum
  BY <1>1 DEF cost
<1> DEFINE before == wins.sum
           after == wins'.sum
           lost == losses.sum
           losing == losses'.sum
<1>6. /\ purse = cash + (cost + pnl) /\ cash + cost = Initial + before + lost
      /\ after + losing = before + lost + pnl
      /\ {cash, cost, pnl, before, lost, after, losing, Initial} \subseteq Int
  BY <1>1, <1>2, <1>3, <1>4, <1>5
<1> HIDE DEF before, after, lost, losing
<1>7. purse \in Int /\ purse = Initial + after + losing
  BY <1>6
<1> QED
  BY <1>3, <1>7 DEF after, losing

\* Opening takes from the purse what the position has cost.
LEMMA OpensEven ==
    ASSUME NEW signal \in Signals, signal.direction # "close", NEW next \in Candles, NEW purse \in Int,
           Opens(signal, next, purse)
    PROVE  /\ cash' \in Int
           /\ position' = Flat \/ position' \in Taken
           /\ cash' + Invested(position') = purse
<1>1. signal.direction \in {"long", "short"} /\ signal.stop \in Nat /\ signal.target \in Nat
  BY BacktestAssumption
<1> DEFINE price == FillPrice(next.open, signal.direction)
           quantity == Quantity(purse, price)
<1>2. price \in Int /\ price > 0
  <2>1. next.open \in Nat /\ next.open > Slippage /\ Slippage \in Nat
    BY BacktestAssumption
  <2> QED
    BY <2>1 DEF FillPrice
<1>3. \/ position' = Flat /\ cash' = purse
      \/ position' = Opened(signal, quantity, price) /\ cash' = purse - Cost(position')
  BY DEF Opens
<1> HIDE DEF price
<1>4. quantity \in Int
  <2>1. CommissionRate \in Nat /\ PositionSize \in Nat
    BY BacktestAssumption
  <2> DEFINE divisor == price * (100 + CommissionRate)
             money == purse * PositionSize
  <2>2. divisor \in Nat \ {0} /\ money \in Int
    BY <1>2, <2>1
  <2>3. quantity = money \div divisor
    BY DEF Quantity
  <2> HIDE DEF divisor, money, quantity
  <2> QED
    BY <2>2, <2>3
<1> HIDE DEF quantity
<1>5. CASE position' = Flat /\ cash' = purse
  BY <1>5 DEF Invested
<1>6. CASE position' = Opened(signal, quantity, price) /\ cash' = purse - Cost(position')
  <2>1. Commission(quantity, price) \in Int
    BY <1>2, <1>4, BacktestAssumption DEF Commission
  <2>2. Distance(price, signal.stop) \in Int
    BY <1>1, <1>2 DEF Distance
  <2>3. position' \in Taken
    BY <1>1, <1>2, <1>4, <1>6, <2>1, <2>2 DEF Opened, Taken
  <2>4. Cost(position') \in Int /\ position' # Flat
    BY <2>3, MoneyTypes, FlatIsNotTaken
  <2> DEFINE cost == Cost(position')
  <2>5. cash' = purse - cost /\ Invested(position') = cost /\ cost \in Int
    BY <1>6, <2>4 DEF Invested
  <2> HIDE DEF cost
  <2> QED
    BY <2>3, <2>5
<1> QED
  BY <1>3, <1>5, <1>6

LEMMA LedgerInitial == BackInit => LedgerInv
<1> SUFFICES ASSUME BackInit PROVE LedgerInv
  OBVIOUS
<1>1. Initial \in Nat /\ bar \in [open : Nat, high : Nat, low : Nat, close : Nat]
  BY BacktestAssumption DEF BackInit
<1> QED
  BY <1>1 DEF BackInit, LedgerInv, Invested, Tally

\* A position whose stop has moved cost the same.
LEMMA Moved == ASSUME LedgerInv, position # Flat
               PROVE  /\ Ratcheted(position) \in Taken
                      /\ Cost(Ratcheted(position)) = Cost(position)
<1>1. position \in Taken /\ bar \in [open : Nat, high : Nat, low : Nat, close : Nat]
  BY DEF LedgerInv
<1>2. \A level \in Int : LET p == [position EXCEPT !.stop = level] IN
          p \in Taken /\ p.quantity = position.quantity /\ p.entry = position.entry
          /\ p.commission = position.commission
  BY <1>1 DEF Taken
<1>3. Ratcheted(position) = position
      \/ \E level \in Int : Ratcheted(position) = [position EXCEPT !.stop = level]
  <2> DEFINE ratchet == IF position.direction = "long" THEN bar.high - position.trail ELSE bar.low + position.trail
  <2>1. ratchet \in Int
    BY <1>1 DEF Taken
  <2>2. Ratcheted(position) = position \/ Ratcheted(position) = [position EXCEPT !.stop = ratchet]
    BY DEF Ratcheted
  <2> QED
    BY <2>1, <2>2
<1> QED
  BY <1>1, <1>2, <1>3 DEF Cost

LEMMA LedgerStops == ASSUME LedgerInv, CheckStops PROVE LedgerInv'
<1>1. step' = "signal" /\ UNCHANGED <<bar, seen>>
  BY DEF CheckStops
<1>2. CASE position = Flat /\ UNCHANGED <<cash, position, wins, losses>>
  BY <1>1, <1>2 DEF LedgerInv, Invested
<1>3. CASE position # Flat /\ position' = Ratcheted(position) /\ UNCHANGED <<cash, wins, losses>>
  <2>1. position' \in Taken /\ Cost(position') = Cost(position) /\ position' # Flat
    BY <1>3, Moved, FlatIsNotTaken
  <2>2. Invested(position') = Invested(position)
    BY <1>3, <2>1 DEF Invested
  <2> QED
    BY <1>1, <1>3, <2>1, <2>2 DEF LedgerInv
<1>4. ASSUME NEW level \in Int, position # Flat, CloseAt(level), position' = Flat PROVE LedgerInv'
  <2>1. ExitFill(level) \in Int
    BY FillTypes DEF ExitFill
  <2>2. /\ cash' \in Int /\ wins' \in Tally /\ losses' \in Tally
        /\ cash' = Initial + wins'.sum + losses'.sum
    BY <1>4, <2>1, ClosesEven DEF CloseAt
  <2>3. cash' + Invested(Flat) = Initial + wins'.sum + losses'.sum
    BY <2>2 DEF Invested
  <2> QED
    BY <1>1, <1>4, <2>2, <2>3 DEF LedgerInv
<1>5. CASE position # Flat /\ position' = Flat /\
           \E level \in {Ratcheted(position).stop, Ratcheted(position).target} : CloseAt(level)
  <2>1. Ratcheted(position).stop \in Int /\ Ratcheted(position).target \in Int
    BY <1>5, Moved DEF Taken
  <2> QED
    BY <1>4, <1>5, <2>1
<1> QED
  BY <1>2, <1>3, <1>5 DEF CheckStops

LEMMA LedgerStep == ASSUME LedgerInv, [BackNext]_backVars PROVE LedgerInv'
<1>1. ASSUME NEW signal \in Signals \cup {NoSignal}, NEW next \in Candles,
             IgnoreSignal(signal, next) \/ OpenPosition(signal, next)
             \/ ClosePosition(signal, next) \/ FlipPosition(signal, next)
      PROVE  LedgerInv'
  <2>1. next \in [open : Nat, high : Nat, low : Nat, close : Nat] /\ next.open \in Int
    BY BacktestAssumption
  <2>2. bar' = next /\ step' = "stops"
    BY <1>1 DEF IgnoreSignal, OpenPosition, ClosePosition, FlipPosition, NextBar
  <2>3. CASE IgnoreSignal(signal, next)
    BY <2>1, <2>2, <2>3 DEF IgnoreSignal, LedgerInv
  <2>4. CASE OpenPosition(signal, next)
    <3>1. signal \in Signals /\ signal.direction # "close" /\ position = Flat /\ Opens(signal, next, cash)
          /\ UNCHANGED <<wins, losses>>
      BY <2>4 DEF OpenPosition, Ignored
    <3>2. cash \in Int /\ cash = Initial + wins.sum + losses.sum
      BY <3>1 DEF LedgerInv, Invested
    <3>3. cash' \in Int /\ (position' = Flat \/ position' \in Taken) /\ cash' + Invested(position') = cash
      BY <3>1, <3>2, OpensEven
    <3> QED
      BY <2>1, <2>2, <3>1, <3>2, <3>3 DEF LedgerInv
  <2>5. CASE ClosePosition(signal, next)
    <3>1. position # Flat /\ CloseAt(next.open) /\ position' = Flat
      BY <2>5 DEF ClosePosition
    <3>2. ExitFill(next.open) \in Int
      BY <2>1, FillTypes DEF ExitFill
    <3>3. /\ cash' \in Int /\ wins' \in Tally /\ losses' \in Tally
          /\ cash' = Initial + wins'.sum + losses'.sum
      BY <3>1, <3>2, ClosesEven DEF CloseAt
    <3>4. cash' + Invested(Flat) = Initial + wins'.sum + losses'.sum
      BY <3>3 DEF Invested
    <3> QED
      BY <2>1, <2>2, <3>1, <3>3, <3>4 DEF LedgerInv
  <2>6. CASE FlipPosition(signal, next)
    <3> DEFINE price == ExitFill(next.open)
               purse == cash + Proceeds(position, price)
    <3>1. /\ signal \in Signals /\ signal.direction # "close" /\ position # Flat
          /\ Opens(signal, next, purse) /\ Book(Realized(position, price))
      BY <2>6 DEF FlipPosition, Ignored
    <3>2. price \in Int
      BY <2>1, FillTypes DEF ExitFill
    <3> HIDE DEF price
    <3>3. /\ purse \in Int /\ wins' \in Tally /\ losses' \in Tally
          /\ purse = Initial + wins'.sum + losses'.sum
      BY <3>1, <3>2, ClosesEven
    <3> HIDE DEF purse
    <3>4. cash' \in Int /\ (position' = Flat \/ position' \in Taken) /\ cash' + Invested(position') = purse
      BY <3>1, <3>3, OpensEven
    <3> QED
      BY <2>1, <2>2, <3>3, <3>4 DEF LedgerInv
  <2> QED
    BY <1>1, <2>3, <2>4, <2>5, <2>6
<1>2. CASE ForceCloseAtEnd
  <2>1. step' = "closed" /\ bar' = bar
    BY <1>2 DEF ForceCloseAtEnd
  <2>2. CASE position = Flat /\ UNCHANGED <<cash, position, wins, losses>>
    BY <2>1, <2>2 DEF LedgerInv
  <2>3. CASE position # Flat /\ CloseAt(bar.close) /\ position' = Flat
    <3>1. ExitFill(bar.close) \in Int
      BY FillTypes DEF ExitFill, LedgerInv
    <3>2. /\ cash' \in Int /\ wins' \in Tally /\ losses' \in Tally
          /\ cash' = Initial + wins'.sum + losses'.sum
      BY <2>3, <3>1, ClosesEven DEF CloseAt
    <3>3. cash' + Invested(Flat) = Initial + wins'.sum + losses'.sum
      BY <3>2 DEF Invested
    <3> QED
      BY <2>1, <2>3, <3>2, <3>3 DEF LedgerInv
  <2> QED
    BY <1>2, <2>2, <2>3 DEF ForceCloseAtEnd
<1>3. CASE UNCHANGED backVars
  BY <1>3 DEF backVars, LedgerInv
<1> QED
  BY <1>1, <1>2, <1>3, LedgerStops DEF BackNext

\* No order of stops, targets, flips and closes makes or loses money that the
\* trade log does not account for, so that a backtest that is validated has
\* really earned.
THEOREM LedgersBalance == BackInit /\ [][BackNext]_backVars => []LedgerBalances
<1>1. LedgerInv => LedgerBalances
  <2> SUFFICES ASSUME LedgerInv PROVE LedgerBalances
    OBVIOUS
  <2>1. cash + (IF position = Flat THEN 0 ELSE Cost(position)) = Initial + wins.sum + losses.sum
    BY DEF LedgerInv, Invested
  <2>2. ASSUME Validated PROVE cash > Initial
    <3>1. position = Flat /\ wins.sum - (-losses.sum) > 0
      BY <2>2 DEF Validated, Expectancy, GrossLoss, LedgerInv
    <3>2. cash \in Int /\ wins.sum \in Int /\ losses.sum \in Int /\ Initial \in Int
      BY BacktestAssumption DEF LedgerInv, Tally
    <3> QED
      BY <2>1, <3>1, <3>2
  <2> QED
    BY <2>1, <2>2 DEF LedgerBalances
<1> QED
  BY <1>1, LedgerInitial, LedgerStep, PTL

(***************************************************************************)
(* That a halt stops the entries, for any queue, intervals and thresholds. *)
(* The switch is read once per cycle and stop() does not wait, so what     *)
(* must be shown is that a cycle that has released an entry after a halt   *)
(* leads to none that could release another.                               *)
(***************************************************************************)

(* stop() ends the while test, unless the start it meets sets _running     *)
(* again.                                                                  *)
StopIsFinal ==
    /\ stopped /\ ~undone => ~running
    /\ undone => stopped

(* The cycle that has released the one entry is past the queue, and while  *)
(* the halt lasts the next cycles do not get there.                        *)
OneCycle ==
    /\ overrun \in {0, 1, 2}
    /\ overrun # 0 =>
        \/ undone /\ ~killed
        \/ overrun = 1 /\ (killed \/ stopped) /\ pc \notin {"health", "strategies"}

HaltInv == StopIsFinal /\ OneCycle

LEMMA HaltInitial == Init => HaltInv
  BY DEF Init, HaltInv, StopIsFinal, OneCycle

LEMMA HaltStep == HaltInv /\ [Next]_vars => HaltInv'
<1> SUFFICES ASSUME HaltInv, [Next]_vars PROVE HaltInv'
  OBVIOUS
<1> USE DEF HaltInv, StopIsFinal, OneCycle
<1>1. CASE Start
  BY <1>1 DEF Start
<1>2. CASE HandleSignal
  BY <1>2 DEF HandleSignal
<1>3. CASE StopBegin
  BY <1>3 DEF StopBegin
<1>5. CASE ChecklistDone
  BY <1>5 DEF ChecklistDone
<1>6. CASE Top
  <2>1. pc = "top" /\ UNCHANGED <<running, stopped, killed, overrun, undone>>
    BY <1>6 DEF Top
  <2>2. pc' # "checklist" /\ (~running \/ killed => pc' \notin {"health", "strategies"})
    BY <1>6 DEF Top, CaughtError, Blocked
  <2> QED
    BY <2>1, <2>2
<1>7. CASE CheckHealth
  <2>1. pc = "health" /\ pc' \in {"strategies", "rest"} /\ UNCHANGED <<running, stopped, undone>>
    BY <1>7 DEF CheckHealth
  <2>2. overrun = 0 \/ (undone /\ ~killed)
    BY <2>1
  <2>3. overrun' = IF killed' # killed THEN 0 ELSE overrun
    BY <1>7 DEF CheckHealth
  <2>4. overrun' = 0 \/ (undone' /\ ~killed' /\ overrun' = overrun)
    <3>1. CASE killed' # killed
      BY <2>3, <3>1
    <3>2. CASE killed' = killed
      BY <2>1, <2>2, <2>3, <3>2
    <3> QED
      BY <3>1, <3>2
  <2> QED
    BY <2>1, <2>4
<1>8. CASE ProcessEntryQueue
  <2>1. pc = "strategies" /\ pc' = "rest" /\ UNCHANGED <<running, stopped, killed, undone>>
    BY <1>8 DEF ProcessEntryQueue
  <2>2. overrun = 0 \/ (undone /\ ~killed)
    BY <2>1
  <2>3. overrun' = IF (killed \/ stopped) /\ released' # released /\ overrun < 2
                   THEN overrun + 1 ELSE overrun
    BY <1>8 DEF ProcessEntryQueue
  <2>4. CASE undone /\ ~killed
    BY <2>1, <2>3, <2>4
  <2>5. CASE overrun = 0
    BY <2>1, <2>3, <2>5
  <2> QED
    BY <2>2, <2>4, <2>5
<1>9. CASE Rest
  BY <1>9 DEF Rest, CaughtError
<1>10. CASE WakeUp
  BY <1>10 DEF WakeUp
<1>11. ASSUME NEW e \in Entries, QueueEntry(e) PROVE HaltInv'
  BY <1>11 DEF QueueEntry, loopVars
<1>12. CASE SwitchKill
  BY <1>12 DEF SwitchKill, loopVars
<1>13. CASE HealthChanges \/ Tick \/ UNCHANGED vars
  BY <1>13 DEF HealthChanges, Tick, vars, loopVars
<1> QED
  BY <1>1, <1>2, <1>3, <1>5, <1>6, <1>7, <1>8, <1>9, <1>10, <1>11, <1>12, <1>13
     DEF Next, LoopStep

\* However the kill switch, a stop and the loop interleave, one entry at most
\* is released after a halt, that of the cycle under way, unless a start that
\* was under way has undone the stop and the switch is off.
THEOREM HaltIsHonoured == Spec => []HaltStopsEntries
<1>1. Spec => []HaltInv
  BY HaltInitial, HaltStep, PTL DEF Spec
<1>2. HaltInv => HaltStopsEntries
  BY DEF HaltInv, StopIsFinal, OneCycle, HaltStopsEntries
<1> QED
  BY <1>1, <1>2, PTL

(***************************************************************************)
(* The signal generators: each entry has its stop on the losing side, and  *)
(* the mirror image of the view gives the mirror image of the entry.       *)
(***************************************************************************)
Limits(a) == IF a.direction = "long" THEN a.stop < Price ELSE a.stop > Price
Sided(a) == IsEntry(a) => Limits(a)
Reflects(a, other) ==
    IsEntry(a) =>
        \/ \E x \in {a.stop, a.target} : x <= Floor \/ Reflect(x) <= Floor
        \/ /\ IsEntry(other) /\ other.direction # a.direction
           /\ other.stop = Reflect(a.stop) /\ other.target = Reflect(a.target)

\* The numbers of a view, and what its names say.
Levelled(v) ==
    /\ v.lower \in Int /\ v.mid \in Int /\ v.upper \in Int /\ v.line \in Int
    /\ v.range \in Nat \ {0} /\ v.lower <= v.mid /\ v.mid <= v.upper
Pointed(v) ==
    \A n \in DOMAIN v.way :
        v.way[n] \in {"up", "down"} \/ (n = "regime" /\ v.way[n] = "off")
Mirrors(v, m) ==
    /\ m.lower = Reflect(v.upper) /\ m.mid = Reflect(v.mid) /\ m.upper = Reflect(v.lower)
    /\ m.line = Reflect(v.line) /\ m.range = v.range
    /\ \A c \in v.holds : Opposite(c) \in m.holds
    /\ \A n \in DOMAIN v.way : m.way[n] = Opposite(v.way[n])

\* Every name has its mirror image.
LEMMA Opposed ==
    /\ Opposite("up") = "down" /\ Opposite("down") = "up"
    /\ Opposite("touched upper") = "touched lower" /\ Opposite("touched lower") = "touched upper"
    /\ Opposite("flipped up") = "flipped down" /\ Opposite("flipped down") = "flipped up"
    /\ Opposite("rsi buys") = "rsi sells" /\ Opposite("rsi sells") = "rsi buys"
    /\ Opposite("bullish divergence") = "bearish divergence" /\ Opposite("bearish divergence") = "bullish divergence"
    /\ Opposite("broke upper") = "broke lower" /\ Opposite("broke lower") = "broke upper"
    /\ Opposite("upper bb") = "lower bb" /\ Opposite("lower bb") = "upper bb"
    /\ Opposite("upper kc") = "lower kc" /\ Opposite("lower kc") = "upper kc"
    /\ Opposite("turns up") = "turns down" /\ Opposite("turns down") = "turns up"
    /\ Opposite("ready") = "ready" /\ Opposite("volume") = "volume" /\ Opposite("squeezed") = "squeezed"
    /\ Opposite("expanding") = "expanding" /\ Opposite("fired") = "fired" /\ Opposite("adx strong") = "adx strong"
    /\ Opposite("volatile") = "volatile" /\ Opposite("ranging") = "ranging" /\ Opposite("stretched") = "stretched"
    /\ Opposite("atr rising") = "atr rising" /\ Opposite("off") = "off" /\ Opposite("rsi low") = "rsi low"
    /\ Opposite("fading") = "fading"
  BY DEF Opposite

\* An entry is none of the other answers.
LEMMA EntryIsOne ==
    \A d, s, t : IsEntry([direction |-> d, stop |-> s, target |-> t])
  BY DEF IsEntry, Nothing, Failed, Close, NotAsked

LEMMA NoEntry == ~IsEntry(Nothing) /\ ~IsEntry(Failed) /\ ~IsEntry(Close) /\ ~IsEntry(NotAsked)
  BY DEF IsEntry

LEMMA Nones == Sided(Nothing) /\ Sided(Close)
  BY NoEntry DEF Sided

LEMMA SignalSided ==
    ASSUME NEW s \in Int, NEW target
    PROVE  /\ s < Price => Sided(Signal("long", s, target))
           /\ s > Price => Sided(Signal("short", s, target))
  BY NoEntry DEF Sided, Limits, Signal

LEMMA LongSided == ASSUME NEW s \in Int, NEW target, s < Price PROVE Sided(Long(s, target))
<1>1. Highest(s, Floor) \in Int /\ Highest(s, Floor) < Price
  BY DEF Highest, Floor, Price
<1> QED
  BY <1>1, SignalSided DEF Long

LEMMA ShortSided == ASSUME NEW s \in Int, NEW target, s > Price PROVE Sided(Short(s, target))
  BY SignalSided DEF Short

LEMMA BySided == ASSUME NEW risk \in Nat \ {0} PROVE Sided(LongBy(risk)) /\ Sided(ShortBy(risk))
<1>1. /\ Price - risk \in Int /\ Price - risk < Price
      /\ Price + risk \in Int /\ Price + risk > Price
  BY DEF Price
<1> QED
  BY <1>1, LongSided, ShortSided DEF LongBy, ShortBy

\* The mirror image of a long entry, whose target may have been raised to the
\* floor, and that of a short one.
LEMMA LongReflects ==
    ASSUME NEW s \in Int, NEW t \in Int, NEW u \in Int, u = Reflect(t) \/ Reflect(t) <= Floor
    PROVE  Reflects(Long(s, t), Short(Reflect(s), u))
  BY EntryIsOne, NoEntry DEF Reflects, Long, Short, Signal, Highest, Reflect, Floor, Price

LEMMA ShortReflects ==
    ASSUME NEW s \in Int, NEW t \in Int, NEW u \in Int, u = Reflect(t) \/ t <= Floor
    PROVE  Reflects(Short(s, t), Long(Reflect(s), u))
  BY EntryIsOne, NoEntry DEF Reflects, Long, Short, Signal, Highest, Reflect, Floor, Price

LEMMA PlainReflects ==
    ASSUME NEW s \in Int, NEW t \in Int
    PROVE  /\ Reflects(Signal("long", s, t), Short(Reflect(s), Reflect(t)))
           /\ Reflects(Short(s, t), Signal("long", Reflect(s), Reflect(t)))
  BY EntryIsOne, NoEntry DEF Reflects, Short, Signal, Reflect, Floor, Price

LEMMA ByReflects == ASSUME NEW r \in Nat PROVE Reflects(LongBy(r), ShortBy(r)) /\ Reflects(ShortBy(r), LongBy(r))
<1>1. /\ Price - r \in Int /\ Price + RiskReward * r \in Int /\ Price + r \in Int /\ Price - RiskReward * r \in Int
      /\ Price + r = Reflect(Price - r) /\ Price - r = Reflect(Price + r)
      /\ Price - RiskReward * r = Reflect(Price + RiskReward * r)
      /\ Price + RiskReward * r = Reflect(Price - RiskReward * r)
  BY DEF Price, RiskReward, Reflect
<1> QED
  BY <1>1, LongReflects, ShortReflects DEF LongBy, ShortBy

LEMMA NoneReflects == \A other : Reflects(Nothing, other) /\ Reflects(Close, other)
  BY NoEntry DEF Reflects

\* What points up in the view points down in its mirror image, never both.
Turned(v, m, names) ==
    /\ Up(v, names) => Down(m, names) /\ ~Up(m, names)
    /\ Down(v, names) => Up(m, names) /\ ~Down(m, names) /\ ~Up(v, names)

LEMMA Turns ==
    ASSUME NEW v, NEW m, Pointed(v), Mirrors(v, m), NEW names, names \subseteq DOMAIN v.way, names # {}
    PROVE  Turned(v, m, names)
<1>1. PICK n \in names : TRUE
  OBVIOUS
<1>2. /\ Up(v, names) => Down(m, names)
      /\ Down(v, names) => Up(m, names)
  BY Opposed DEF Mirrors, Up, Down, All
<1>3. \A w : ~(Up(w, names) /\ Down(w, names))
  BY <1>1 DEF Up, Down, All
<1> QED
  BY <1>2, <1>3 DEF Turned

\* The conditions that hold in the mirror image.
LEMMA HeldInMirror ==
    ASSUME NEW v, NEW m, Mirrors(v, m)
    PROVE
    /\ ("touched upper" \in v.holds => "touched lower" \in m.holds) /\ ("touched lower" \in v.holds => "touched upper" \in m.holds)
    /\ ("flipped up" \in v.holds => "flipped down" \in m.holds) /\ ("flipped down" \in v.holds => "flipped up" \in m.holds)
    /\ ("rsi buys" \in v.holds => "rsi sells" \in m.holds) /\ ("rsi sells" \in v.holds => "rsi buys" \in m.holds)
    /\ ("bullish divergence" \in v.holds => "bearish divergence" \in m.holds) /\ ("bearish divergence" \in v.holds => "bullish divergence" \in m.holds)
    /\ ("broke upper" \in v.holds => "broke lower" \in m.holds) /\ ("broke lower" \in v.holds => "broke upper" \in m.holds)
    /\ ("upper bb" \in v.holds => "lower bb" \in m.holds) /\ ("lower bb" \in v.holds => "upper bb" \in m.holds)
    /\ ("upper kc" \in v.holds => "lower kc" \in m.holds) /\ ("lower kc" \in v.holds => "upper kc" \in m.holds)
    /\ ("turns up" \in v.holds => "turns down" \in m.holds) /\ ("turns down" \in v.holds => "turns up" \in m.holds)
    /\ "ready" \in v.holds => "ready" \in m.holds
    /\ "volume" \in v.holds => "volume" \in m.holds
    /\ "squeezed" \in v.holds => "squeezed" \in m.holds
    /\ "expanding" \in v.holds => "expanding" \in m.holds
    /\ "fired" \in v.holds => "fired" \in m.holds
    /\ "adx strong" \in v.holds => "adx strong" \in m.holds
    /\ "volatile" \in v.holds => "volatile" \in m.holds
    /\ "ranging" \in v.holds => "ranging" \in m.holds
    /\ "stretched" \in v.holds => "stretched" \in m.holds
    /\ "atr rising" \in v.holds => "atr rising" \in m.holds
<1> DEFINE Turn(c, o) == c \in v.holds => o \in m.holds
<1>1. \A c, o : Opposite(c) = o => Turn(c, o)
  BY DEF Mirrors
<1> HIDE DEF Turn
<1>2. Turn("touched upper", "touched lower") /\ Turn("touched lower", "touched upper")
  BY <1>1, Opposed
<1>3. Turn("flipped up", "flipped down") /\ Turn("flipped down", "flipped up")
  BY <1>1, Opposed
<1>4. Turn("rsi buys", "rsi sells") /\ Turn("rsi sells", "rsi buys")
  BY <1>1, Opposed
<1>5. Turn("bullish divergence", "bearish divergence") /\ Turn("bearish divergence", "bullish divergence")
  BY <1>1, Opposed
<1>6. Turn("broke upper", "broke lower") /\ Turn("broke lower", "broke upper")
  BY <1>1, Opposed
<1>7. Turn("upper bb", "lower bb") /\ Turn("lower bb", "upper bb")
  BY <1>1, Opposed
<1>8. Turn("upper kc", "lower kc") /\ Turn("lower kc", "upper kc")
  BY <1>1, Opposed
<1>9. Turn("turns up", "turns down") /\ Turn("turns down", "turns up")
  BY <1>1, Opposed
<1>10. /\ Turn("ready", "ready") /\ Turn("volume", "volume") /\ Turn("squeezed", "squeezed")
      /\ Turn("expanding", "expanding") /\ Turn("fired", "fired") /\ Turn("adx strong", "adx strong")
      /\ Turn("volatile", "volatile") /\ Turn("ranging", "ranging") /\ Turn("stretched", "stretched")
      /\ Turn("atr rising", "atr rising")
  BY <1>1, Opposed
<1> QED
  BY <1>2, <1>3, <1>4, <1>5, <1>6, <1>7, <1>8, <1>9, <1>10 DEF Turn

LEMMA ListsInMirror ==
    ASSUME NEW v, NEW m, Mirrors(v, m)
    PROVE  /\ Holds(v, {"ready", "ranging"}) => Holds(m, {"ready", "ranging"})
           /\ Holds(v, {"ready", "adx strong"}) => Holds(m, {"ready", "adx strong"})
           /\ Holds(v, {"ready", "fired", "volume"}) => Holds(m, {"ready", "fired", "volume"})
           /\ Holds(v, {"ready", "volume", "atr rising"}) => Holds(m, {"ready", "volume", "atr rising"})
           /\ Holds(v, {"ready", "squeezed", "expanding", "volume"}) => Holds(m, {"ready", "squeezed", "expanding", "volume"})
           /\ Holds(v, {"broke upper", "volatile", "volume"}) => Holds(m, {"broke lower", "volatile", "volume"})
           /\ Holds(v, {"broke lower", "volatile", "volume"}) => Holds(m, {"broke upper", "volatile", "volume"})
<1>1. Holds(v, {"ready", "ranging"}) => Holds(m, {"ready", "ranging"})
  <2> SUFFICES ASSUME Holds(v, {"ready", "ranging"}) PROVE Holds(m, {"ready", "ranging"})
    OBVIOUS
  <2>1. "ready" \in v.holds /\ "ranging" \in v.holds
    BY DEF Holds
  <2>2. "ready" \in m.holds /\ "ranging" \in m.holds
    BY <2>1, HeldInMirror
  <2> QED
    BY <2>2 DEF Holds
<1>2. Holds(v, {"ready", "adx strong"}) => Holds(m, {"ready", "adx strong"})
  <2> SUFFICES ASSUME Holds(v, {"ready", "adx strong"}) PROVE Holds(m, {"ready", "adx strong"})
    OBVIOUS
  <2>1. "ready" \in v.holds /\ "adx strong" \in v.holds
    BY DEF Holds
  <2>2. "ready" \in m.holds /\ "adx strong" \in m.holds
    BY <2>1, HeldInMirror
  <2> QED
    BY <2>2 DEF Holds
<1>3. Holds(v, {"ready", "fired", "volume"}) => Holds(m, {"ready", "fired", "volume"})
  <2> SUFFICES ASSUME Holds(v, {"ready", "fired", "volume"}) PROVE Holds(m, {"ready", "fired", "volume"})
    OBVIOUS
  <2>1. "ready" \in v.holds /\ "fired" \in v.holds /\ "volume" \in v.holds
    BY DEF Holds
  <2>2. "ready" \in m.holds /\ "fired" \in m.holds /\ "volume" \in m.holds
    BY <2>1, HeldInMirror
  <2> QED
    BY <2>2 DEF Holds
<1>4. Holds(v, {"ready", "volume", "atr rising"}) => Holds(m, {"ready", "volume", "atr rising"})
  <2> SUFFICES ASSUME Holds(v, {"ready", "volume", "atr rising"}) PROVE Holds(m, {"ready", "volume", "atr rising"})
    OBVIOUS
  <2>1. "ready" \in v.holds /\ "volume" \in v.holds /\ "atr rising" \in v.holds
    BY DEF Holds
  <2>2. "ready" \in m.holds /\ "volume" \in m.holds /\ "atr rising" \in m.holds
    BY <2>1, HeldInMirror
  <2> QED
    BY <2>2 DEF Holds
<1>5. Holds(v, {"ready", "squeezed", "expanding", "volume"}) => Holds(m, {"ready", "squeezed", "expanding", "volume"})
  <2> SUFFICES ASSUME Holds(v, {"ready", "squeezed", "expanding", "volume"}) PROVE Holds(m, {"ready", "squeezed", "expanding", "volume"})
    OBVIOUS
  <2>1. "ready" \in v.holds /\ "squeezed" \in v.holds /\ "expanding" \in v.holds /\ "volume" \in v.holds
    BY DEF Holds
  <2>2. "ready" \in m.holds /\ "squeezed" \in m.holds /\ "expanding" \in m.holds /\ "volume" \in m.holds
    BY <2>1, HeldInMirror
  <2> QED
    BY <2>2 DEF Holds
<1>6. Holds(v, {"broke upper", "volatile", "volume"}) => Holds(m, {"broke lower", "volatile", "volume"})
  <2> SUFFICES ASSUME Holds(v, {"broke upper", "volatile", "volume"}) PROVE Holds(m, {"broke lower", "volatile", "volume"})
    OBVIOUS
  <2>1. "broke upper" \in v.holds /\ "volatile" \in v.holds /\ "volume" \in v.holds
    BY DEF Holds
  <2>2. "broke lower" \in m.holds /\ "volatile" \in m.holds /\ "volume" \in m.holds
    BY <2>1, HeldInMirror
  <2> QED
    BY <2>2 DEF Holds
<1>7. Holds(v, {"broke lower", "volatile", "volume"}) => Holds(m, {"broke upper", "volatile", "volume"})
  <2> SUFFICES ASSUME Holds(v, {"broke lower", "volatile", "volume"}) PROVE Holds(m, {"broke upper", "volatile", "volume"})
    OBVIOUS
  <2>1. "broke lower" \in v.holds /\ "volatile" \in v.holds /\ "volume" \in v.holds
    BY DEF Holds
  <2>2. "broke upper" \in m.holds /\ "volatile" \in m.holds /\ "volume" \in m.holds
    BY <2>1, HeldInMirror
  <2> QED
    BY <2>2 DEF Holds
<1> QED
  BY <1>1, <1>2, <1>3, <1>4, <1>5, <1>6, <1>7

\* A name that has no third way; and the long average, which may be off.
LEMMA SidesInMirror ==
    ASSUME NEW v, NEW m, Pointed(v), Mirrors(v, m)
    PROVE  /\ \A n \in DOMAIN v.way \ {"regime"} :
                  \/ v.way[n] = "up" /\ m.way[n] = "down"
                  \/ v.way[n] = "down" /\ m.way[n] = "up"
           /\ "regime" \in DOMAIN v.way => (MayBuy(v) => MaySell(m)) /\ (MaySell(v) => MayBuy(m))
<1>1. /\ Opposite("up") = "down" /\ Opposite("down") = "up" /\ Opposite("off") = "off"
      /\ \A n \in DOMAIN v.way : m.way[n] = Opposite(v.way[n])
      /\ \A n \in DOMAIN v.way : v.way[n] \in {"up", "down"} \/ (n = "regime" /\ v.way[n] = "off")
  BY Opposed DEF Mirrors, Pointed
<1> QED
  BY <1>1 DEF MayBuy, MaySell

\* The numbers of a view and of its mirror image.
LEMMA Numbers ==
    ASSUME NEW v, NEW m, Levelled(v), Mirrors(v, m)
    PROVE  /\ v.lower \in Int /\ v.mid \in Int /\ v.upper \in Int /\ v.line \in Int /\ v.range \in Nat
           /\ m.lower = 2 * Price - v.upper /\ m.mid = 2 * Price - v.mid /\ m.upper = 2 * Price - v.lower
           /\ m.line = 2 * Price - v.line /\ m.range = v.range
  BY DEF Levelled, Mirrors, Reflect

LEMMA SqueezeReflects ==
    ASSUME NEW v, NEW m, Levelled(v), Pointed(v), Mirrors(v, m),
           DOMAIN v.way = {"macd"}
    PROVE  Reflects(BbSqueezeBreakout(v), BbSqueezeBreakout(m))
<1>1. Turned(v, m, {"macd"})
  BY Turns
<1>2. Holds(v, {"ready", "squeezed", "expanding", "volume"}) => Holds(m, {"ready", "squeezed", "expanding", "volume"})
  BY HeldInMirror, ListsInMirror
<1>3. /\ Price > v.upper => Price < m.lower
      /\ Price < v.lower => Price > m.upper
      /\ m.mid = Reflect(v.mid) /\ v.mid \in Int
      /\ Price - 2 * (m.mid - Price) = Reflect(Price + 2 * (Price - v.mid)) /\ Price - 2 * (m.mid - Price) \in Int
      /\ Price + 2 * (Price - m.mid) = Reflect(Price - 2 * (v.mid - Price)) /\ Price + 2 * (Price - m.mid) \in Int
      /\ Price + 2 * (Price - v.mid) \in Int /\ Price - 2 * (v.mid - Price) \in Int
  BY Numbers DEF Price, Reflect, RiskReward, Floor, Highest, Lowest, Tolerance, ExitDistance
<1>4. /\ Reflects(Long(v.mid, Price + 2 * (Price - v.mid)), Short(m.mid, Price - 2 * (m.mid - Price)))
      /\ Reflects(Short(v.mid, Price - 2 * (v.mid - Price)), Long(m.mid, Price + 2 * (Price - m.mid)))
  BY Numbers, <1>3, LongReflects, ShortReflects
<1> QED
  BY <1>1, <1>2, <1>3, <1>4, NoneReflects DEF Turned, BbSqueezeBreakout

LEMMA MomentumReflects ==
    ASSUME NEW v, NEW m, Levelled(v), Pointed(v), Mirrors(v, m),
           DOMAIN v.way = {"close", "macd", "supertrend"}
    PROVE  Reflects(BbSqueezeMomentum(v), BbSqueezeMomentum(m))
<1>1. Turned(v, m, {"close", "macd", "supertrend"})
  BY Turns
<1>2. Holds(v, {"ready", "fired", "volume"}) => Holds(m, {"ready", "fired", "volume"})
  BY HeldInMirror, ListsInMirror
<1>3. /\ m.range = v.range /\ Price + v.range = Reflect(Price - v.range) /\ Price - v.range = Reflect(Price + v.range)
      /\ Price + v.range \in Int /\ Price - v.range \in Int
  BY Numbers DEF Price, Reflect, RiskReward, Floor, Highest, Lowest, Tolerance, ExitDistance
<1>4. /\ Reflects(Long(Price - v.range, Price + v.range), Short(Price + v.range, Price - v.range))
      /\ Reflects(Short(Price + v.range, Price - v.range), Long(Price - v.range, Price + v.range))
  BY Numbers, <1>3, LongReflects, ShortReflects
<1> QED
  BY <1>1, <1>2, <1>3, <1>4, NoneReflects DEF Turned, BbSqueezeMomentum

LEMMA CascadeReflects ==
    ASSUME NEW v, NEW m, Levelled(v), Pointed(v), Mirrors(v, m),
           DOMAIN v.way = {"daily", "slope", "macd"}
    PROVE  Reflects(CascadingMomentumFilter(v), CascadingMomentumFilter(m))
<1>1. Turned(v, m, {"daily", "slope", "macd"})
  BY Turns
<1>2. /\ Holds(v, {"ready", "adx strong"}) => Holds(m, {"ready", "adx strong"})
      /\ "flipped up" \in v.holds => "flipped down" \in m.holds
      /\ "flipped down" \in v.holds => "flipped up" \in m.holds
  BY HeldInMirror, ListsInMirror
<1>3. m.range = v.range /\ Reflects(LongBy(v.range), ShortBy(v.range)) /\ Reflects(ShortBy(v.range), LongBy(v.range))
  BY Numbers, ByReflects
<1> QED
  BY <1>1, <1>2, <1>3, NoneReflects DEF Turned, CascadingMomentumFilter

LEMMA DonchianReflects ==
    ASSUME NEW v, NEW m, Levelled(v), Pointed(v), Mirrors(v, m),
           DOMAIN v.way = {"ema", "exit"}
    PROVE  Reflects(DonchianAtr(v), DonchianAtr(m))
<1>1. Turned(v, m, {"ema"})
  BY Turns
<1>2. /\ "ready" \in v.holds => "ready" \in m.holds
      /\ Holds(v, {"broke upper", "volatile", "volume"}) => Holds(m, {"broke lower", "volatile", "volume"})
      /\ Holds(v, {"broke lower", "volatile", "volume"}) => Holds(m, {"broke upper", "volatile", "volume"})
  BY HeldInMirror, ListsInMirror
<1>3. m.range = v.range /\ Reflects(LongBy(v.range), ShortBy(v.range)) /\ Reflects(ShortBy(v.range), LongBy(v.range))
  BY Numbers, ByReflects
<1> QED
  BY <1>1, <1>2, <1>3, NoneReflects DEF Turned, DonchianAtr

LEMMA RsiReflects ==
    ASSUME NEW v, NEW m, Levelled(v), Pointed(v), Mirrors(v, m),
           DOMAIN v.way = {"cross", "extreme"}
    PROVE  Reflects(EmaTrendRsi(v), EmaTrendRsi(m))
<1>1. Turned(v, m, {"cross"})
  BY Turns
<1>2. /\ "ready" \in v.holds => "ready" \in m.holds
      /\ "rsi buys" \in v.holds => "rsi sells" \in m.holds
      /\ "rsi sells" \in v.holds => "rsi buys" \in m.holds
  BY HeldInMirror, ListsInMirror
<1>3. m.range = v.range /\ Reflects(LongBy(v.range), ShortBy(v.range)) /\ Reflects(ShortBy(v.range), LongBy(v.range))
  BY Numbers, ByReflects
<1> QED
  BY <1>1, <1>2, <1>3, NoneReflects DEF Turned, EmaTrendRsi

LEMMA IchimokuReflects ==
    ASSUME NEW v, NEW m, Levelled(v), Pointed(v), Mirrors(v, m),
           DOMAIN v.way = {"tk", "chikou", "cloud"}
    PROVE  Reflects(IchimokuCloudTrend(v), IchimokuCloudTrend(m))
<1>1. Turned(v, m, {"tk", "chikou", "cloud"})
  BY Turns
<1>2. /\ "ready" \in v.holds => "ready" \in m.holds
      /\ "volume" \in v.holds => "volume" \in m.holds
  BY HeldInMirror, ListsInMirror
<1>3. /\ Price > v.upper => Price < m.lower
      /\ Price < v.lower => Price > m.upper
      /\ m.range = v.range
      /\ Lowest(m.upper, Price + v.range) = Reflect(Highest(v.lower, Price - v.range)) /\ Highest(v.lower, Price - v.range) \in Int
      /\ Highest(m.lower, Price - v.range) = Reflect(Lowest(v.upper, Price + v.range)) /\ Lowest(v.upper, Price + v.range) \in Int
      /\ \A s \in Int : /\ Reflect(s) \in Int
                            /\ Price + RiskReward * (Price - s) \in Int /\ Price - RiskReward * (s - Price) \in Int
                            /\ Price - RiskReward * (Reflect(s) - Price) = Reflect(Price + RiskReward * (Price - s))
                            /\ Price + RiskReward * (Price - Reflect(s)) = Reflect(Price - RiskReward * (s - Price))
  BY Numbers DEF Price, Reflect, RiskReward, Floor, Highest, Lowest, Tolerance, ExitDistance
<1>4. /\ \A s \in Int : Reflects(Signal("long", s, Price + RiskReward * (Price - s)),
                                     Short(Reflect(s), Price - RiskReward * (Reflect(s) - Price)))
      /\ \A s \in Int : Reflects(Short(s, Price - RiskReward * (s - Price)),
                                     Signal("long", Reflect(s), Price + RiskReward * (Price - Reflect(s))))
  BY Numbers, <1>3, PlainReflects
<1> QED
  BY <1>1, <1>2, <1>3, <1>4, NoneReflects DEF Turned, IchimokuCloudTrend

LEMMA FadeReflects ==
    ASSUME NEW v, NEW m, Levelled(v), Pointed(v), Mirrors(v, m),
           DOMAIN v.way = {"slope", "stoch"}
    PROVE  Reflects(KeltnerFadeAdx(v), KeltnerFadeAdx(m))
<1>1. /\ Turned(v, m, {"slope"})
      /\ Turned(v, m, {"stoch"})
  BY Turns
<1>2. /\ Holds(v, {"ready", "ranging"}) => Holds(m, {"ready", "ranging"})
      /\ "touched upper" \in v.holds => "touched lower" \in m.holds
      /\ "touched lower" \in v.holds => "touched upper" \in m.holds
  BY HeldInMirror, ListsInMirror
<1>3. /\ Price < v.upper => Price > m.lower
      /\ Price > v.lower => Price < m.upper
      /\ m.range = v.range /\ m.mid = Reflect(v.mid) /\ v.mid \in Int /\ m.mid \in Int
      /\ m.lower - v.range = Reflect(v.upper + v.range) /\ v.upper + v.range \in Int
      /\ m.upper + v.range = Reflect(v.lower - v.range) /\ v.lower - v.range \in Int
  BY Numbers DEF Price, Reflect, RiskReward, Floor, Highest, Lowest, Tolerance, ExitDistance
<1>4. /\ Reflects(Short(v.upper + v.range, v.mid), Long(m.lower - v.range, m.mid))
      /\ Reflects(Long(v.lower - v.range, v.mid), Short(m.upper + v.range, m.mid))
  BY Numbers, <1>3, LongReflects, ShortReflects
<1> QED
  BY <1>1, <1>2, <1>3, <1>4, NoneReflects DEF Turned, KeltnerFadeAdx

LEMMA ConfluenceReflects ==
    ASSUME NEW v, NEW m, Levelled(v), Pointed(v), Mirrors(v, m),
           DOMAIN v.way = {"daily", "daily ema", "macd"}
    PROVE  Reflects(MultiTfConfluence(v), MultiTfConfluence(m))
<1>1. /\ Turned(v, m, {"daily", "daily ema", "macd"})
      /\ Turned(v, m, {"daily", "macd"})
  BY Turns
<1>2. /\ "ready" \in v.holds => "ready" \in m.holds
      /\ "rsi buys" \in v.holds => "rsi sells" \in m.holds
      /\ "rsi sells" \in v.holds => "rsi buys" \in m.holds
  BY HeldInMirror, ListsInMirror
<1>3. m.range = v.range /\ Reflects(LongBy(v.range), ShortBy(v.range)) /\ Reflects(ShortBy(v.range), LongBy(v.range))
  BY Numbers, ByReflects
<1>8. /\ v.way["daily ema"] # "up" => m.way["daily ema"] = "up"
      /\ v.way["daily ema"] = "up" => m.way["daily ema"] = "down"
  BY SidesInMirror
<1> QED
  BY <1>1, <1>2, <1>3, <1>8, NoneReflects DEF Turned, MultiTfConfluence, Up, Down, All

LEMMA BandsReflects ==
    ASSUME NEW v, NEW m, Levelled(v), Pointed(v), Mirrors(v, m),
           DOMAIN v.way = {"rsi", "exit"}
    PROVE  Reflects(RsiBbMeanReversion(v), RsiBbMeanReversion(m))
<1>1. Turned(v, m, {"rsi"})
  BY Turns
<1>2. /\ Holds(v, {"ready", "ranging"}) => Holds(m, {"ready", "ranging"})
      /\ "touched upper" \in v.holds => "touched lower" \in m.holds
      /\ "touched lower" \in v.holds => "touched upper" \in m.holds
  BY HeldInMirror, ListsInMirror
<1>3. /\ m.range = v.range /\ Price + v.range = Reflect(Price - v.range) /\ Price - v.range = Reflect(Price + v.range)
      /\ Price + v.range \in Int /\ Price - v.range \in Int
      /\ m.mid = Reflect(v.mid) /\ v.mid \in Int /\ m.mid \in Int
  BY Numbers DEF Price, Reflect, RiskReward, Floor, Highest, Lowest, Tolerance, ExitDistance
<1>4. /\ Reflects(Long(Price - v.range, v.mid), Short(Price + v.range, m.mid))
      /\ Reflects(Short(Price + v.range, v.mid), Long(Price - v.range, m.mid))
  BY Numbers, <1>3, LongReflects, ShortReflects
<1> QED
  BY <1>1, <1>2, <1>3, <1>4, NoneReflects DEF Turned, RsiBbMeanReversion

LEMMA DivergenceReflects ==
    ASSUME NEW v, NEW m, Levelled(v), Pointed(v), Mirrors(v, m),
           DOMAIN v.way = {"regime", "rsi"}
    PROVE  Reflects(RsiDivergenceReversal(v), RsiDivergenceReversal(m))
<1>1. Turned(v, m, {"rsi"})
  BY Turns
<1>2. /\ "ready" \in v.holds => "ready" \in m.holds
      /\ "bullish divergence" \in v.holds => "bearish divergence" \in m.holds
      /\ "bearish divergence" \in v.holds => "bullish divergence" \in m.holds
  BY HeldInMirror, ListsInMirror
<1>3. m.range = v.range /\ Reflects(LongBy(v.range), ShortBy(v.range)) /\ Reflects(ShortBy(v.range), LongBy(v.range))
  BY Numbers, ByReflects
<1>8. (MayBuy(v) => MaySell(m)) /\ (MaySell(v) => MayBuy(m))
  BY SidesInMirror
<1> QED
  BY <1>1, <1>2, <1>3, <1>8, NoneReflects DEF Turned, RsiDivergenceReversal

LEMMA AccelerationReflects ==
    ASSUME NEW v, NEW m, Levelled(v), Pointed(v), Mirrors(v, m),
           DOMAIN v.way = {"regime", "structure", "spread"}
    PROVE  Reflects(TrendAccelerationMomentum(v), TrendAccelerationMomentum(m))
<1>1. Turned(v, m, {"structure", "spread"})
  BY Turns
<1>2. /\ Holds(v, {"ready", "volume", "atr rising"}) => Holds(m, {"ready", "volume", "atr rising"})
      /\ "rsi buys" \in v.holds => "rsi sells" \in m.holds
      /\ "rsi sells" \in v.holds => "rsi buys" \in m.holds
  BY HeldInMirror, ListsInMirror
<1>3. m.range = v.range /\ Reflects(LongBy(v.range), ShortBy(v.range)) /\ Reflects(ShortBy(v.range), LongBy(v.range))
  BY Numbers, ByReflects
<1>8. (MayBuy(v) => MaySell(m)) /\ (MaySell(v) => MayBuy(m))
  BY SidesInMirror
<1> QED
  BY <1>1, <1>2, <1>3, <1>8, NoneReflects DEF Turned, TrendAccelerationMomentum

LEMMA VolatilityReflects ==
    ASSUME NEW v, NEW m, Levelled(v), Pointed(v), Mirrors(v, m),
           DOMAIN v.way = {"regime", "breakout"}
    PROVE  Reflects(VolatilityRegimeBreakout(v), VolatilityRegimeBreakout(m))
<1>1. Turned(v, m, {"breakout"})
  BY Turns
<1>2. Holds(v, {"ready", "squeezed", "expanding", "volume"}) => Holds(m, {"ready", "squeezed", "expanding", "volume"})
  BY HeldInMirror, ListsInMirror
<1>3. m.range = v.range /\ Reflects(LongBy(v.range), ShortBy(v.range)) /\ Reflects(ShortBy(v.range), LongBy(v.range))
  BY Numbers, ByReflects
<1>8. (MayBuy(v) => MaySell(m)) /\ (MaySell(v) => MayBuy(m))
  BY SidesInMirror
<1> QED
  BY <1>1, <1>2, <1>3, <1>8, NoneReflects DEF Turned, VolatilityRegimeBreakout

\* A line near the price is as near in the mirror image.
LEMMA NearTurns ==
    ASSUME NEW x \in Int, Price - x \in -Tolerance..Tolerance
    PROVE  Price - Reflect(x) \in -Tolerance..Tolerance
<1>1. Price = 4000 /\ Tolerance = 1000 /\ -1000 \in Int
  BY DEF Price, Tolerance
<1>2. 4000 - x >= -1000 /\ 4000 - x <= 1000
  BY <1>1
<1>3. /\ 4000 - (2 * 4000 - x) \in Int
      /\ 4000 - (2 * 4000 - x) >= -1000 /\ 4000 - (2 * 4000 - x) <= 1000
  BY <1>2
<1> QED
  BY <1>1, <1>3 DEF Reflect

LEMMA VwapReflects ==
    ASSUME NEW v, NEW m, Levelled(v), Pointed(v), Mirrors(v, m),
           DOMAIN v.way = {"vwap", "rsi"}
    PROVE  Reflects(VwapPullbackVolume(v), VwapPullbackVolume(m))
<1>1. Turned(v, m, {"vwap", "rsi"})
  BY Turns
<1>2. /\ "ready" \in v.holds => "ready" \in m.holds
      /\ "volume" \in v.holds => "volume" \in m.holds
  BY HeldInMirror, ListsInMirror
<1>0. /\ v.line \in Int /\ v.range \in Int /\ m.line = 2 * Price - v.line /\ m.range = v.range
      /\ Price = 4000 /\ Floor = 4 /\ Tolerance = 1000 /\ ExitDistance = 1200
  BY Numbers DEF Price, Floor, Tolerance, ExitDistance
<1>3. Price - v.line \in -Tolerance..Tolerance => Price - m.line \in -Tolerance..Tolerance
  BY Numbers, NearTurns DEF Reflect
<1>4. /\ Price + v.range = Reflect(Price - v.range) /\ Price - v.range = Reflect(Price + v.range)
      /\ Price + v.range \in Int /\ Price - v.range \in Int
      /\ v.line + ExitDistance \in Int /\ m.line + ExitDistance \in Int
  BY <1>0 DEF Reflect
<1>5. /\ Highest(m.line - ExitDistance, Floor) \in Int
      /\ \/ Highest(m.line - ExitDistance, Floor) = Reflect(v.line + ExitDistance)
         \/ Reflect(v.line + ExitDistance) <= Floor
  BY <1>0 DEF Reflect, Highest
<1>6. /\ Highest(v.line - ExitDistance, Floor) \in Int
      /\ \/ m.line + ExitDistance = Reflect(Highest(v.line - ExitDistance, Floor))
         \/ Highest(v.line - ExitDistance, Floor) <= Floor
  BY <1>0 DEF Reflect, Highest
<1>7. Reflects(Long(Price - v.range, v.line + ExitDistance),
               Short(Price + v.range, Highest(m.line - ExitDistance, Floor)))
  BY <1>4, <1>5, LongReflects
<1>8. Reflects(Short(Price + v.range, Highest(v.line - ExitDistance, Floor)),
               Long(Price - v.range, m.line + ExitDistance))
  BY <1>4, <1>6, ShortReflects
<1>9. m.range = v.range
  BY <1>0
<1> QED
  BY <1>1, <1>2, <1>3, <1>7, <1>8, <1>9, NoneReflects DEF Turned, VwapPullbackVolume

\* A stop that was raised to the floor, or whose mirror image would be.
LEMMA NoRoom ==
    ASSUME NEW s \in Int, NEW t, NEW other
    PROVE  /\ s <= Floor => Reflects(Long(s, t), other)
           /\ Reflect(s) <= Floor => Reflects(Short(s, t), other)
  BY EntryIsOne, NoEntry DEF Reflects, Long, Short, Signal, Highest, Reflect, Floor, Price

LEMMA SupertrendReflects ==
    ASSUME NEW v, NEW m, Levelled(v), Pointed(v), Mirrors(v, m),
           DOMAIN v.way = {"supertrend", "macd", "sign", "flip"}
    PROVE  Reflects(SupertrendVolumeMacd(v), SupertrendVolumeMacd(m))
<1> DEFINE Above(s) == IF Price > s THEN Price + 2 * (Price - s) ELSE Price + 80
           Below(s) == IF s > Price THEN Price - 2 * (s - Price) ELSE Price - 80
<1>1. Turned(v, m, {"supertrend", "macd", "sign"})
  BY Turns
<1>2. /\ "ready" \in v.holds => "ready" \in m.holds
      /\ "volume" \in v.holds => "volume" \in m.holds
  BY HeldInMirror
<1>3. /\ v.line \in Int /\ m.line \in Int /\ m.line = Reflect(v.line) /\ v.line = Reflect(m.line)
      /\ Above(v.line) \in Int /\ Below(v.line) \in Int /\ Above(m.line) \in Int /\ Below(m.line) \in Int
      /\ Below(m.line) = Reflect(Above(v.line)) /\ Above(m.line) = Reflect(Below(v.line))
  BY Numbers DEF Reflect, Price
<1>4. \A line \in Int : Highest(line, Floor) = line \/ line <= Floor
  BY DEF Highest, Floor, Price
<1> HIDE DEF Above, Below
<1>5. /\ Reflects(Long(v.line, Above(v.line)), Short(m.line, Below(m.line)))
      /\ Reflects(Short(v.line, Below(v.line)), Long(m.line, Above(m.line)))
  BY <1>3, LongReflects, ShortReflects
<1>6. /\ v.line <= Floor => \A t, other : Reflects(Long(Highest(v.line, Floor), t), other)
      /\ m.line <= Floor => \A t, other : Reflects(Short(v.line, t), other)
  BY <1>3, NoRoom DEF Highest, Floor, Price
<1>7. /\ Reflects(Long(Highest(v.line, Floor), Above(Highest(v.line, Floor))), Short(m.line, Below(m.line)))
      /\ Reflects(Short(v.line, Below(v.line)), Long(Highest(m.line, Floor), Above(Highest(m.line, Floor))))
  BY <1>3, <1>4, <1>5, <1>6
<1>8. \A w : SupertrendVolumeMacd(w) =
          IF "ready" \notin w.holds THEN Nothing
          ELSE IF Up(w, {"supertrend", "macd", "sign"}) /\ "volume" \in w.holds
          THEN Long(Highest(w.line, Floor), Above(Highest(w.line, Floor)))
          ELSE IF Down(w, {"supertrend", "macd", "sign"}) /\ "volume" \in w.holds
          THEN Short(w.line, Below(w.line))
          ELSE IF w.way["flip"] # "flat" THEN Close ELSE Nothing
  BY DEF SupertrendVolumeMacd, Above, Below
<1> QED
  BY <1>1, <1>2, <1>7, <1>8, NoneReflects DEF Turned

\* The average macd_pullback takes its stop from is near the price.
LEMMA MacdReflects ==
    ASSUME NEW v, NEW m, Levelled(v), Pointed(v), Mirrors(v, m),
           DOMAIN v.way = {"regime", "macd", "histogram"}
    PROVE  Reflects(MacdPullback(v), MacdPullback(m))
<1> DEFINE Near(w) == Price - w.line \in -Tolerance..Tolerance
           Risk(w, distance) == IF distance > 0 THEN distance ELSE w.range
           Above(w) == Price + RiskReward * Risk(w, Price - (w.line - w.range))
           Below(w) == Price - RiskReward * Risk(w, w.line + w.range - Price)
<1>1. Turned(v, m, {"macd", "histogram"})
  BY Turns
<1>2. "ready" \in v.holds => "ready" \in m.holds
  BY HeldInMirror
<1>3. (MayBuy(v) => MaySell(m)) /\ (MaySell(v) => MayBuy(m))
  BY SidesInMirror
<1>4. Near(v) => Near(m)
  BY Numbers, NearTurns DEF Reflect
<1>5. /\ v.line - v.range \in Int /\ m.line - m.range \in Int /\ v.line + v.range \in Int /\ m.line + m.range \in Int
      /\ m.line + m.range = Reflect(v.line - v.range) /\ m.line - m.range = Reflect(v.line + v.range)
      /\ Above(v) \in Int /\ Above(m) \in Int /\ Below(v) \in Int /\ Below(m) \in Int
      /\ Below(m) = Reflect(Above(v)) /\ Above(m) = Reflect(Below(v))
  BY Numbers DEF Reflect, Price, RiskReward
<1> HIDE DEF Above, Below
<1>6. /\ Highest(Below(m), Floor) \in Int /\ Highest(Below(v), Floor) \in Int
      /\ Highest(Below(m), Floor) = Reflect(Above(v)) \/ Reflect(Above(v)) <= Floor
      /\ Above(m) = Reflect(Highest(Below(v), Floor)) \/ Highest(Below(v), Floor) <= Floor
  BY <1>5 DEF Highest, Floor, Price
<1>7. /\ Reflects(Long(v.line - v.range, Above(v)), Short(m.line + m.range, Highest(Below(m), Floor)))
      /\ Reflects(Short(v.line + v.range, Highest(Below(v), Floor)), Long(m.line - m.range, Above(m)))
  BY <1>5, <1>6, LongReflects, ShortReflects
<1>8. \A w : MacdPullback(w) =
          IF "ready" \notin w.holds \/ ~Near(w) THEN Nothing
          ELSE IF MayBuy(w) /\ Up(w, {"macd", "histogram"}) THEN Long(w.line - w.range, Above(w))
          ELSE IF MaySell(w) /\ Down(w, {"macd", "histogram"})
          THEN Short(w.line + w.range, Highest(Below(w), Floor)) ELSE Nothing
  BY DEF MacdPullback, Above, Below
<1> HIDE DEF Near
<1> QED
  BY <1>1, <1>2, <1>3, <1>4, <1>7, <1>8, NoneReflects DEF Turned

LEMMA ReversionReflects ==
    ASSUME NEW v, NEW m, Levelled(v), Pointed(v), Mirrors(v, m),
           DOMAIN v.way = {"htf", "rsi"}
    PROVE  Reflects(RegimeAwareMeanReversion(v), RegimeAwareMeanReversion(m))
<1> DEFINE Above(w) == IF w.line > Price THEN w.line ELSE w.mid
           Below(w) == IF w.line < Price THEN w.line ELSE w.mid
<1>1. /\ Turned(v, m, {"htf"}) /\ Turned(v, m, {"rsi"}) /\ Turned(v, m, {"htf", "rsi"})
  BY Turns
<1>2. /\ "ready" \in v.holds => "ready" \in m.holds
      /\ "turns up" \in v.holds => "turns down" \in m.holds
      /\ "turns down" \in v.holds => "turns up" \in m.holds
  BY HeldInMirror
<1>3. /\ Holds(v, {"lower bb", "stretched"}) => Holds(m, {"upper bb", "stretched"})
      /\ Holds(v, {"upper bb", "stretched"}) => Holds(m, {"lower bb", "stretched"})
  <2>1. /\ "lower bb" \in v.holds => "upper bb" \in m.holds
        /\ "upper bb" \in v.holds => "lower bb" \in m.holds
        /\ "stretched" \in v.holds => "stretched" \in m.holds
    BY HeldInMirror
  <2> QED
    BY <2>1 DEF Holds
<1>4. (AtUpper(v) => AtLower(m)) /\ (AtLower(v) => AtUpper(m))
  <2>1. /\ "lower bb" \in v.holds => "upper bb" \in m.holds
        /\ "upper bb" \in v.holds => "lower bb" \in m.holds
        /\ "lower kc" \in v.holds => "upper kc" \in m.holds
        /\ "upper kc" \in v.holds => "lower kc" \in m.holds
    BY HeldInMirror
  <2> QED
    BY <2>1 DEF AtUpper, AtLower
<1>5. /\ Price - v.range \in Int /\ Price + v.range \in Int /\ m.range = v.range
      /\ Price + v.range = Reflect(Price - v.range) /\ Price - v.range = Reflect(Price + v.range)
      /\ Above(v) \in Int /\ Above(m) \in Int /\ Below(v) \in Int /\ Below(m) \in Int
      /\ Below(m) = Reflect(Above(v)) /\ Above(m) = Reflect(Below(v))
      /\ Price < v.line => Price > m.line
      /\ Price > v.line => Price < m.line
  BY Numbers DEF Reflect, Price
<1> HIDE DEF Above, Below
<1>6. /\ Reflects(Long(Price - v.range, Above(v)), Short(Price + m.range, Below(m)))
      /\ Reflects(Short(Price + v.range, Below(v)), Long(Price - m.range, Above(m)))
  BY <1>5, LongReflects, ShortReflects
<1>7. \A w : RegimeAwareMeanReversion(w) =
          IF "ready" \notin w.holds THEN Nothing
          ELSE IF Down(w, {"htf"}) /\ Up(w, {"rsi"}) /\ AtUpper(w) /\ "turns down" \in w.holds
          THEN Short(Price + w.range, Below(w))
          ELSE IF Down(w, {"htf", "rsi"}) /\ Holds(w, {"lower bb", "stretched"}) /\ Price < w.line
          THEN Long(Price - w.range, Above(w))
          ELSE IF Up(w, {"htf"}) /\ Down(w, {"rsi"}) /\ AtLower(w) /\ "turns up" \in w.holds
          THEN Long(Price - w.range, Above(w))
          ELSE IF Up(w, {"htf", "rsi"}) /\ Holds(w, {"upper bb", "stretched"}) /\ Price > w.line
          THEN Short(Price + w.range, Below(w))
          ELSE Nothing
  BY DEF RegimeAwareMeanReversion, Above, Below
<1>8. \A w : ~(Up(w, {"rsi"}) /\ Down(w, {"htf", "rsi"})) /\ ~(Down(w, {"rsi"}) /\ Up(w, {"htf", "rsi"}))
  BY DEF Up, Down, All
<1> QED
  BY <1>1, <1>2, <1>3, <1>4, <1>5, <1>6, <1>7, <1>8, NoneReflects DEF Turned

\* The domains of the rules.
LEMMA Domains ==
    /\ DOMAIN TwoSided =
           {"squeeze", "momentum", "bear", "cascade", "donchian", "rsi", "ichimoku", "fade", "macd",
            "confluence", "reversion", "bands", "divergence", "supertrend", "acceleration",
            "volatility", "vwap"}
    /\ DOMAIN Buyers = {"adx", "bull", "wick", "ribbon", "heikin", "obv", "vol", "roc", "stoch", "balance", "vpt"}
    /\ DOMAIN Researched = {"lag", "premium", "rank", "flow", "extreme", "windowed", "confirmed"}
<1>1. /\ DOMAIN Riders = {"lag", "premium", "rank", "flow"}
      /\ DOMAIN Contrarians = {"extreme", "windowed"}
  BY DEF Riders, Contrarians
<1>2. DOMAIN Researched = {"lag", "premium", "rank", "flow", "extreme", "windowed", "confirmed"}
  BY <1>1 DEF Researched
<1>3. DOMAIN Buyers = {"adx", "bull", "wick", "ribbon", "heikin", "obv", "vol", "roc", "stoch", "balance", "vpt"}
  BY DEF Buyers
<1>4. DOMAIN TwoSided =
           {"squeeze", "momentum", "bear", "cascade", "donchian", "rsi", "ichimoku", "fade", "macd",
            "confluence", "reversion", "bands", "divergence", "supertrend", "acceleration",
            "volatility", "vwap"}
  BY DEF TwoSided
<1> QED
  BY <1>2, <1>3, <1>4

LEMMA WaysOfRules ==
    /\ TwoSided["squeeze"].ways = {"macd"}
    /\ TwoSided["momentum"].ways = {"close", "macd", "supertrend"}
    /\ TwoSided["bear"].ways = {"htf", "supertrend"}
    /\ TwoSided["cascade"].ways = {"daily", "slope", "macd"}
    /\ TwoSided["donchian"].ways = {"ema", "exit"}
    /\ TwoSided["rsi"].ways = {"cross", "extreme"}
    /\ TwoSided["ichimoku"].ways = {"tk", "chikou", "cloud"}
    /\ TwoSided["fade"].ways = {"slope", "stoch"}
    /\ TwoSided["macd"].ways = {"regime", "macd", "histogram"}
    /\ TwoSided["confluence"].ways = {"daily", "daily ema", "macd"}
    /\ TwoSided["reversion"].ways = {"htf", "rsi"}
    /\ TwoSided["bands"].ways = {"rsi", "exit"}
    /\ TwoSided["divergence"].ways = {"regime", "rsi"}
    /\ TwoSided["supertrend"].ways = {"supertrend", "macd", "sign", "flip"}
    /\ TwoSided["acceleration"].ways = {"regime", "structure", "spread"}
    /\ TwoSided["volatility"].ways = {"regime", "breakout"}
    /\ TwoSided["vwap"].ways = {"vwap", "rsi"}
  BY DEF TwoSided

LEMMA Answers ==
    ASSUME NEW v
    PROVE  /\ Answer("squeeze", v) = BbSqueezeBreakout(v)
           /\ Answer("momentum", v) = BbSqueezeMomentum(v)
           /\ Answer("bear", v) = BearTrendFollower(v)
           /\ Answer("cascade", v) = CascadingMomentumFilter(v)
           /\ Answer("donchian", v) = DonchianAtr(v)
           /\ Answer("rsi", v) = EmaTrendRsi(v)
           /\ Answer("ichimoku", v) = IchimokuCloudTrend(v)
           /\ Answer("fade", v) = KeltnerFadeAdx(v)
           /\ Answer("macd", v) = MacdPullback(v)
           /\ Answer("confluence", v) = MultiTfConfluence(v)
           /\ Answer("reversion", v) = RegimeAwareMeanReversion(v)
           /\ Answer("bands", v) = RsiBbMeanReversion(v)
           /\ Answer("divergence", v) = RsiDivergenceReversal(v)
           /\ Answer("supertrend", v) = SupertrendVolumeMacd(v)
           /\ Answer("acceleration", v) = TrendAccelerationMomentum(v)
           /\ Answer("volatility", v) = VolatilityRegimeBreakout(v)
           /\ Answer("vwap", v) = VwapPullbackVolume(v)
<1>1. Answer("squeeze", v) = BbSqueezeBreakout(v)
  BY Domains DEF Answer
<1>2. Answer("momentum", v) = BbSqueezeMomentum(v)
  BY Domains DEF Answer
<1>3. Answer("bear", v) = BearTrendFollower(v)
  BY Domains DEF Answer
<1>4. Answer("cascade", v) = CascadingMomentumFilter(v)
  BY Domains DEF Answer
<1>5. Answer("donchian", v) = DonchianAtr(v)
  BY Domains DEF Answer
<1>6. Answer("rsi", v) = EmaTrendRsi(v)
  BY Domains DEF Answer
<1>7. Answer("ichimoku", v) = IchimokuCloudTrend(v)
  BY Domains DEF Answer
<1>8. Answer("fade", v) = KeltnerFadeAdx(v)
  BY Domains DEF Answer
<1>9. Answer("macd", v) = MacdPullback(v)
  BY Domains DEF Answer
<1>10. Answer("confluence", v) = MultiTfConfluence(v)
  BY Domains DEF Answer
<1>11. Answer("reversion", v) = RegimeAwareMeanReversion(v)
  BY Domains DEF Answer
<1>12. Answer("bands", v) = RsiBbMeanReversion(v)
  BY Domains DEF Answer
<1>13. Answer("divergence", v) = RsiDivergenceReversal(v)
  BY Domains DEF Answer
<1>14. Answer("supertrend", v) = SupertrendVolumeMacd(v)
  BY Domains DEF Answer
<1>15. Answer("acceleration", v) = TrendAccelerationMomentum(v)
  BY Domains DEF Answer
<1>16. Answer("volatility", v) = VolatilityRegimeBreakout(v)
  BY Domains DEF Answer
<1>17. Answer("vwap", v) = VwapPullbackVolume(v)
  BY Domains DEF Answer
<1> QED
  BY <1>1, <1>2, <1>3, <1>4, <1>5, <1>6, <1>7, <1>8, <1>9, <1>10, <1>11, <1>12, <1>13, <1>14, <1>15, <1>16, <1>17

LEMMA OtherAnswers ==
    ASSUME NEW v
    PROVE  /\ \A g \in DOMAIN Buyers : Answer(g, v) = Buys(g, v)
           /\ \A g \in DOMAIN Researched : Answer(g, v) = Research(g, v)
           /\ Answer("continuation", v) = KeltnerChannelContinuation(v)
<1>1. \A g \in DOMAIN Buyers : Answer(g, v) = Buys(g, v)
  BY Domains DEF Answer
<1>2. \A g \in DOMAIN Researched : Answer(g, v) = Research(g, v)
  BY Domains DEF Answer
<1>3. Answer("continuation", v) = KeltnerChannelContinuation(v)
  BY Domains DEF Answer
<1> QED
  BY <1>1, <1>2, <1>3

\* The stop of each generator's entry is on its losing side.
LEMMA BuysSided ==
    ASSUME NEW g, NEW v, Levelled(v)
    PROVE  Sided(Buys(g, v)) /\ Sided(Research(g, v)) /\ Sided(KeltnerChannelContinuation(v))
<1>1. v.range \in Nat \ {0} /\ Sided(LongBy(v.range)) /\ Sided(ShortBy(v.range))
  BY BySided DEF Levelled
<1>2. Sided(Buys(g, v)) /\ Sided(Fades(g, v))
  BY <1>1, Nones DEF Buys, Fades
<1>3. Highest(Price - v.range, Floor) < Price
  BY <1>1 DEF Highest, Floor, Price
<1>4. Sided(Rides(g, v))
  BY <1>3, Nones DEF Rides, Sided, Limits
<1>5. Sided(Research(g, v))
  BY <1>1, <1>2, <1>4, Nones DEF Research
<1>6. Price > v.upper => Highest(v.mid, Price - v.range) \in Int /\ Highest(v.mid, Price - v.range) < Price
  BY <1>1 DEF Levelled, Highest, Price
<1>7. Sided(KeltnerChannelContinuation(v))
  <2>1. Price > v.upper => \A t : Sided(Long(Highest(v.mid, Price - v.range), t))
    BY <1>6, LongSided
  <2> QED
    BY <2>1, Nones DEF KeltnerChannelContinuation
<1> QED
  BY <1>2, <1>5, <1>7

\* ... where it is computed from the price,
LEMMA PriceSided ==
    ASSUME NEW v, Levelled(v)
    PROVE  /\ Sided(BbSqueezeMomentum(v)) /\ Sided(CascadingMomentumFilter(v)) /\ Sided(DonchianAtr(v))
           /\ Sided(EmaTrendRsi(v)) /\ Sided(MultiTfConfluence(v)) /\ Sided(RegimeAwareMeanReversion(v))
           /\ Sided(RsiBbMeanReversion(v)) /\ Sided(RsiDivergenceReversal(v))
           /\ Sided(TrendAccelerationMomentum(v)) /\ Sided(VolatilityRegimeBreakout(v))
           /\ Sided(VwapPullbackVolume(v))
<1>1. v.range \in Nat \ {0} /\ Sided(LongBy(v.range)) /\ Sided(ShortBy(v.range))
  BY BySided DEF Levelled
<1>2. /\ Price - v.range \in Int /\ Price - v.range < Price
      /\ Price + v.range \in Int /\ Price + v.range > Price
  BY <1>1 DEF Price
<1>3. \A t : Sided(Long(Price - v.range, t)) /\ Sided(Short(Price + v.range, t))
  BY <1>2, LongSided, ShortSided
<1>4. /\ Sided(BbSqueezeMomentum(v)) /\ Sided(RegimeAwareMeanReversion(v))
      /\ Sided(RsiBbMeanReversion(v)) /\ Sided(VwapPullbackVolume(v))
  BY <1>3, Nones DEF BbSqueezeMomentum, RegimeAwareMeanReversion, RsiBbMeanReversion, VwapPullbackVolume
<1>5. /\ Sided(CascadingMomentumFilter(v)) /\ Sided(DonchianAtr(v))
      /\ Sided(EmaTrendRsi(v)) /\ Sided(MultiTfConfluence(v))
  BY <1>1, Nones DEF CascadingMomentumFilter, DonchianAtr, EmaTrendRsi, MultiTfConfluence
<1>6. /\ Sided(RsiDivergenceReversal(v)) /\ Sided(TrendAccelerationMomentum(v))
      /\ Sided(VolatilityRegimeBreakout(v))
  BY <1>1, Nones DEF RsiDivergenceReversal, TrendAccelerationMomentum, VolatilityRegimeBreakout
<1> QED
  BY <1>4, <1>5, <1>6

\* ... and where it is computed from a band, a cloud or an average.
LEMMA BandSided ==
    ASSUME NEW v, Levelled(v)
    PROVE  /\ Sided(BbSqueezeBreakout(v)) /\ Sided(BearTrendFollower(v))
           /\ Sided(IchimokuCloudTrend(v)) /\ Sided(KeltnerFadeAdx(v))
<1>1. /\ v.lower \in Int /\ v.mid \in Int /\ v.upper \in Int /\ v.range \in Nat \ {0}
      /\ v.lower <= v.mid /\ v.mid <= v.upper
  BY DEF Levelled
<1>2. /\ Price > v.upper => v.mid < Price
      /\ Price < v.lower => v.mid > Price
  BY <1>1 DEF Price
<1>3. Sided(BbSqueezeBreakout(v))
  <2>1. /\ Price > v.upper => \A t : Sided(Long(v.mid, t))
        /\ Price < v.lower => \A t : Sided(Short(v.mid, t))
    BY <1>1, <1>2, LongSided, ShortSided
  <2> QED
    BY <2>1, Nones DEF BbSqueezeBreakout
<1>4. /\ v.upper + v.range \in Int /\ v.lower - v.range \in Int
      /\ Price < v.upper => v.upper + v.range > Price
      /\ Price > v.lower => v.lower - v.range < Price
  BY <1>1 DEF Price
<1>5. /\ Price < v.upper => \A t : Sided(Short(v.upper + v.range, t))
      /\ Price > v.lower => \A t : Sided(Long(v.lower - v.range, t))
  BY <1>4, LongSided, ShortSided
<1>6. Sided(BearTrendFollower(v)) /\ Sided(KeltnerFadeAdx(v))
  BY <1>5, Nones DEF BearTrendFollower, KeltnerFadeAdx
<1>7. Sided(IchimokuCloudTrend(v))
  <2>1. /\ Highest(v.lower, Price - v.range) \in Int /\ Lowest(v.upper, Price + v.range) \in Int
        /\ Price > v.upper => Highest(v.lower, Price - v.range) < Price
        /\ Price < v.lower => Lowest(v.upper, Price + v.range) > Price
    BY <1>1 DEF Highest, Lowest, Price
  <2>2. /\ Price > v.upper => \A t : Sided(Signal("long", Highest(v.lower, Price - v.range), t))
        /\ Price < v.lower => \A t : Sided(Short(Lowest(v.upper, Price + v.range), t))
    BY <2>1, SignalSided, ShortSided
  <2> QED
    BY <2>2, Nones DEF IchimokuCloudTrend
<1> QED
  BY <1>3, <1>6, <1>7

\* The two generators whose stop is a line need it on its side of the price.
LEMMA LineSided ==
    ASSUME NEW v, Levelled(v)
    PROVE  /\ v.line - Price \in (1 - v.range)..(v.range - 1) => Sided(MacdPullback(v))
           /\ (/\ v.line # Price
               /\ v.way["supertrend"] = "up" => v.line <= Price
               /\ v.way["supertrend"] = "down" => v.line >= Price) => Sided(SupertrendVolumeMacd(v))
<1>1. v.line \in Int /\ v.range \in Nat \ {0}
  BY DEF Levelled
<1>2. ASSUME v.line - Price \in (1 - v.range)..(v.range - 1) PROVE Sided(MacdPullback(v))
  <2>1. /\ v.line - v.range \in Int /\ v.line - v.range < Price
        /\ v.line + v.range \in Int /\ v.line + v.range > Price
    BY <1>1, <1>2 DEF Price
  <2>2. \A t : Sided(Long(v.line - v.range, t)) /\ Sided(Short(v.line + v.range, t))
    BY <2>1, LongSided, ShortSided
  <2> QED
    BY <2>2, Nones DEF MacdPullback
<1>3. ASSUME v.line # Price,
             v.way["supertrend"] = "up" => v.line <= Price,
             v.way["supertrend"] = "down" => v.line >= Price
      PROVE  Sided(SupertrendVolumeMacd(v))
  <2>1. /\ Highest(v.line, Floor) \in Int
        /\ v.way["supertrend"] = "up" => Highest(v.line, Floor) < Price
        /\ v.way["supertrend"] = "down" => v.line > Price
    BY <1>1, <1>3 DEF Highest, Floor, Price
  <2>2. /\ v.way["supertrend"] = "up" => \A t : Sided(Long(Highest(v.line, Floor), t))
        /\ v.way["supertrend"] = "down" => \A t : Sided(Short(v.line, t))
    BY <1>1, <2>1, LongSided, ShortSided
  <2>3. /\ Up(v, {"supertrend", "macd", "sign"}) => v.way["supertrend"] = "up"
        /\ Down(v, {"supertrend", "macd", "sign"}) => v.way["supertrend"] = "down"
    BY DEF Up, Down, All
  <2> QED
    BY <2>2, <2>3, Nones DEF SupertrendVolumeMacd
<1> QED
  BY <1>2, <1>3

\* What a generator is asked about, and what it answers.
Asked(g, v) ==
    /\ g \in Rules /\ Levelled(v) /\ Possible(v) /\ Mirrors(v, Mirrored(v))
    /\ g \in DOMAIN TwoSided => DOMAIN v.way = TwoSided[g].ways
    /\ \A n \in DOMAIN v.way : v.way[n] \in Directions(n)
AskedWell == answer = NotAsked \/ (Asked(rule, view) /\ answer = Answer(rule, view))

LEMMA EveryStopLimits ==
    ASSUME NEW g, NEW v, Asked(g, v),
           g = "macd" => v.line - Price \in (1 - v.range)..(v.range - 1),
           g = "supertrend" => v.line # Price
    PROVE  Sided(Answer(g, v))
<1>1. Levelled(v)
  BY DEF Asked
<1>2. CASE g \in DOMAIN Buyers \cup DOMAIN Researched \cup {"continuation"}
  BY <1>1, <1>2, OtherAnswers, BuysSided
<1>3. CASE g = "supertrend"
  <2>1. "supertrend" \in DOMAIN v.way
    BY <1>3, Domains, WaysOfRules DEF Asked
  <2>2. Sided(SupertrendVolumeMacd(v))
    BY <1>1, <1>3, <2>1, LineSided DEF Asked, Possible
  <2> QED
    BY <1>3, <2>2, Answers
<1>4. CASE g = "macd"
  BY <1>1, <1>4, LineSided, Answers
<1>5. CASE g \in {"squeeze", "bear", "ichimoku", "fade"}
  BY <1>1, <1>5, BandSided, Answers
<1>6. CASE g \in {"momentum", "cascade", "donchian", "rsi", "confluence", "reversion"}
  BY <1>1, <1>6, PriceSided, Answers
<1>7. CASE g \in {"bands", "divergence", "acceleration", "volatility", "vwap"}
  BY <1>1, <1>7, PriceSided, Answers
<1> QED
  BY <1>2, <1>3, <1>4, <1>5, <1>6, <1>7, Domains DEF Asked, Rules

LEMMA EveryRuleReflects ==
    ASSUME NEW g \in DOMAIN TwoSided \ {"bear"}, NEW v, Asked(g, v), \A n \in DOMAIN v.way : v.way[n] # "flat"
    PROVE  Reflects(Answer(g, v), Answer(g, Mirrored(v)))
<1>1. PICK m : m = Mirrored(v)
  OBVIOUS
<1>2. Levelled(v) /\ Mirrors(v, m) /\ DOMAIN v.way = TwoSided[g].ways
  BY <1>1 DEF Asked
<1>3. Pointed(v)
  BY DEF Asked, Pointed, Directions
<1> SUFFICES Reflects(Answer(g, v), Answer(g, m))
  BY <1>1
<1>4. CASE g = "squeeze"
  <2>1. DOMAIN v.way = {"macd"}
    BY <1>2, <1>4, WaysOfRules
  <2>2. Reflects(BbSqueezeBreakout(v), BbSqueezeBreakout(m))
    BY <1>2, <1>3, <2>1, SqueezeReflects
  <2> QED
    BY <1>4, <2>2, Answers
<1>5. CASE g = "momentum"
  <2>1. DOMAIN v.way = {"close", "macd", "supertrend"}
    BY <1>2, <1>5, WaysOfRules
  <2>2. Reflects(BbSqueezeMomentum(v), BbSqueezeMomentum(m))
    BY <1>2, <1>3, <2>1, MomentumReflects
  <2> QED
    BY <1>5, <2>2, Answers
<1>6. CASE g = "cascade"
  <2>1. DOMAIN v.way = {"daily", "slope", "macd"}
    BY <1>2, <1>6, WaysOfRules
  <2>2. Reflects(CascadingMomentumFilter(v), CascadingMomentumFilter(m))
    BY <1>2, <1>3, <2>1, CascadeReflects
  <2> QED
    BY <1>6, <2>2, Answers
<1>7. CASE g = "donchian"
  <2>1. DOMAIN v.way = {"ema", "exit"}
    BY <1>2, <1>7, WaysOfRules
  <2>2. Reflects(DonchianAtr(v), DonchianAtr(m))
    BY <1>2, <1>3, <2>1, DonchianReflects
  <2> QED
    BY <1>7, <2>2, Answers
<1>8. CASE g = "rsi"
  <2>1. DOMAIN v.way = {"cross", "extreme"}
    BY <1>2, <1>8, WaysOfRules
  <2>2. Reflects(EmaTrendRsi(v), EmaTrendRsi(m))
    BY <1>2, <1>3, <2>1, RsiReflects
  <2> QED
    BY <1>8, <2>2, Answers
<1>9. CASE g = "ichimoku"
  <2>1. DOMAIN v.way = {"tk", "chikou", "cloud"}
    BY <1>2, <1>9, WaysOfRules
  <2>2. Reflects(IchimokuCloudTrend(v), IchimokuCloudTrend(m))
    BY <1>2, <1>3, <2>1, IchimokuReflects
  <2> QED
    BY <1>9, <2>2, Answers
<1>10. CASE g = "fade"
  <2>1. DOMAIN v.way = {"slope", "stoch"}
    BY <1>2, <1>10, WaysOfRules
  <2>2. Reflects(KeltnerFadeAdx(v), KeltnerFadeAdx(m))
    BY <1>2, <1>3, <2>1, FadeReflects
  <2> QED
    BY <1>10, <2>2, Answers
<1>11. CASE g = "macd"
  <2>1. DOMAIN v.way = {"regime", "macd", "histogram"}
    BY <1>2, <1>11, WaysOfRules
  <2>2. Reflects(MacdPullback(v), MacdPullback(m))
    BY <1>2, <1>3, <2>1, MacdReflects
  <2> QED
    BY <1>11, <2>2, Answers
<1>12. CASE g = "confluence"
  <2>1. DOMAIN v.way = {"daily", "daily ema", "macd"}
    BY <1>2, <1>12, WaysOfRules
  <2>2. Reflects(MultiTfConfluence(v), MultiTfConfluence(m))
    BY <1>2, <1>3, <2>1, ConfluenceReflects
  <2> QED
    BY <1>12, <2>2, Answers
<1>13. CASE g = "reversion"
  <2>1. DOMAIN v.way = {"htf", "rsi"}
    BY <1>2, <1>13, WaysOfRules
  <2>2. Reflects(RegimeAwareMeanReversion(v), RegimeAwareMeanReversion(m))
    BY <1>2, <1>3, <2>1, ReversionReflects
  <2> QED
    BY <1>13, <2>2, Answers
<1>14. CASE g = "bands"
  <2>1. DOMAIN v.way = {"rsi", "exit"}
    BY <1>2, <1>14, WaysOfRules
  <2>2. Reflects(RsiBbMeanReversion(v), RsiBbMeanReversion(m))
    BY <1>2, <1>3, <2>1, BandsReflects
  <2> QED
    BY <1>14, <2>2, Answers
<1>15. CASE g = "divergence"
  <2>1. DOMAIN v.way = {"regime", "rsi"}
    BY <1>2, <1>15, WaysOfRules
  <2>2. Reflects(RsiDivergenceReversal(v), RsiDivergenceReversal(m))
    BY <1>2, <1>3, <2>1, DivergenceReflects
  <2> QED
    BY <1>15, <2>2, Answers
<1>16. CASE g = "supertrend"
  <2>1. DOMAIN v.way = {"supertrend", "macd", "sign", "flip"}
    BY <1>2, <1>16, WaysOfRules
  <2>2. Reflects(SupertrendVolumeMacd(v), SupertrendVolumeMacd(m))
    BY <1>2, <1>3, <2>1, SupertrendReflects
  <2> QED
    BY <1>16, <2>2, Answers
<1>17. CASE g = "acceleration"
  <2>1. DOMAIN v.way = {"regime", "structure", "spread"}
    BY <1>2, <1>17, WaysOfRules
  <2>2. Reflects(TrendAccelerationMomentum(v), TrendAccelerationMomentum(m))
    BY <1>2, <1>3, <2>1, AccelerationReflects
  <2> QED
    BY <1>17, <2>2, Answers
<1>18. CASE g = "volatility"
  <2>1. DOMAIN v.way = {"regime", "breakout"}
    BY <1>2, <1>18, WaysOfRules
  <2>2. Reflects(VolatilityRegimeBreakout(v), VolatilityRegimeBreakout(m))
    BY <1>2, <1>3, <2>1, VolatilityReflects
  <2> QED
    BY <1>18, <2>2, Answers
<1>19. CASE g = "vwap"
  <2>1. DOMAIN v.way = {"vwap", "rsi"}
    BY <1>2, <1>19, WaysOfRules
  <2>2. Reflects(VwapPullbackVolume(v), VwapPullbackVolume(m))
    BY <1>2, <1>3, <2>1, VwapReflects
  <2> QED
    BY <1>19, <2>2, Answers
<1> QED
  BY <1>4, <1>5, <1>6, <1>7, <1>8, <1>9, <1>10, <1>11, <1>12, <1>13, <1>14, <1>15, <1>16, <1>17,
     <1>18, <1>19, Domains

\* The mirror image of a view is one.
LEMMA MirrorsHold ==
    ASSUME NEW h, NEW w, NEW lower, NEW mid, NEW upper, NEW line, NEW range
    PROVE  LET v == [holds |-> h, way |-> w, lower |-> lower, mid |-> mid, upper |-> upper, line |-> line, range |-> range]
           IN  Mirrors(v, Mirrored(v))
  BY DEF Mirrors, Mirrored

LEMMA GenerateAsks == ASSUME Generate PROVE AskedWell'
<1>0. PICK g \in Rules :
          \E w \in Ways(g), b \in Bands(g), l \in Lines(g), r \in Ranges, h \in SUBSET Conditions(g) :
              LET v == [holds |-> h, way |-> w, lower |-> b[1], mid |-> b[2], upper |-> b[3], line |-> l, range |-> r]
              IN  Possible(v) /\ rule' = g /\ view' = v /\ answer' = Answer(g, v)
  BY DEF Generate
<1>1. PICK w \in Ways(g), b \in Bands(g), l \in Lines(g), r \in Ranges, h \in SUBSET Conditions(g) :
          LET v == [holds |-> h, way |-> w, lower |-> b[1], mid |-> b[2], upper |-> b[3], line |-> l, range |-> r]
          IN  Possible(v) /\ rule' = g /\ view' = v /\ answer' = Answer(g, v)
  BY <1>0
<1>2. PICK v : /\ v = [holds |-> h, way |-> w, lower |-> b[1], mid |-> b[2], upper |-> b[3], line |-> l, range |-> r]
               /\ Possible(v) /\ rule' = g /\ view' = v /\ answer' = Answer(g, v)
  BY <1>1
<1>3. /\ v.way = w /\ v.lower = b[1] /\ v.mid = b[2] /\ v.upper = b[3] /\ v.line = l /\ v.range = r
  BY <1>2
<1>4. Levelled(v)
  <2>1. /\ b[1] \in Int /\ b[2] \in Int /\ b[3] \in Int /\ b[1] <= b[2] /\ b[2] <= b[3]
    <3>1. CASE g \notin OnBands
      <4>1. b = <<Price, Price, Price>>
        BY <3>1 DEF Bands
      <4> QED
        BY <4>1 DEF Price
    <3>2. CASE g \in OnBands
      <4>1. b \in Levels \X Levels \X Levels /\ b[1] <= b[2] /\ b[2] <= b[3]
        BY <3>2 DEF Bands
      <4>2. b[1] \in Levels /\ b[2] \in Levels /\ b[3] \in Levels
        BY <4>1
      <4>3. \A x \in Levels : x \in Int
        BY RulesAssumption
      <4>4. b[1] \in Int /\ b[2] \in Int /\ b[3] \in Int
        BY <4>2, <4>3
      <4>5. b[1] <= b[2] /\ b[2] <= b[3]
        BY <4>1, Zenon
      <4> QED
        BY <4>4, <4>5
    <3> QED
      BY <3>1, <3>2
  <2>2. l \in Int
    BY RulesAssumption DEF Lines, Price
  <2>3. r \in Nat \ {0}
    BY RulesAssumption
  <2> QED
    BY <1>3, <2>1, <2>2, <2>3 DEF Levelled
<1>5. Mirrors(v, Mirrored(v))
  BY <1>2, MirrorsHold
<1>6. /\ g \in DOMAIN TwoSided => DOMAIN w = TwoSided[g].ways
      /\ \A n \in DOMAIN w : w[n] \in Directions(n)
  BY DEF Ways
<1>7. Asked(g, v)
  BY <1>2, <1>3, <1>4, <1>5, <1>6 DEF Asked
<1>8. Asked(rule', view') /\ answer' = Answer(rule', view')
  BY <1>2, <1>7
<1> QED
  BY <1>8 DEF AskedWell, Asked

LEMMA AnswersAreSound == AskedWell => EntriesAreSound
<1> SUFFICES ASSUME AskedWell, IsEntry(answer) PROVE Guarded /\ Symmetric
  BY DEF EntriesAreSound
<1>1. Asked(rule, view) /\ answer = Answer(rule, view)
  BY NoEntry DEF AskedWell
<1>2. Guarded
  <2> SUFFICES ASSUME rule = "macd" => view.line - Price \in (1 - view.range)..(view.range - 1),
                      rule = "supertrend" => view.line # Price
               PROVE  IF answer.direction = "long" THEN answer.stop < Price ELSE answer.stop > Price
    BY DEF Guarded
  <2>1. Sided(answer)
    BY <1>1, EveryStopLimits
  <2> QED
    BY <2>1 DEF Sided, Limits
<1>3. Symmetric
  <2> SUFFICES ASSUME rule \in DOMAIN TwoSided \ {"bear"}, \A n \in DOMAIN view.way : view.way[n] # "flat"
               PROVE  LET other == Answer(rule, Mirrored(view))
                      IN \/ \E x \in {answer.stop, answer.target} : x <= Floor \/ Reflect(x) <= Floor
                         \/ /\ IsEntry(other) /\ other.direction # answer.direction
                            /\ other.stop = Reflect(answer.stop) /\ other.target = Reflect(answer.target)
    BY DEF Symmetric
  <2>1. Reflects(answer, Answer(rule, Mirrored(view)))
    BY <1>1, EveryRuleReflects
  <2> QED
    BY <2>1 DEF Reflects
<1> QED
  BY <1>2, <1>3

\* In every market a generator can look at, the stop of its entry limits a
\* loss, and the mirror image of the market gives the mirror image of the
\* entry.
THEOREM EntriesHold == RuleInit /\ [][RuleNext]_ruleVars => []EntriesAreSound
<1>1. RuleInit => AskedWell
  BY DEF RuleInit, AskedWell
<1>2. AskedWell /\ [RuleNext]_ruleVars => AskedWell'
  <2> SUFFICES ASSUME AskedWell, [RuleNext]_ruleVars PROVE AskedWell'
    OBVIOUS
  <2>1. CASE Generate
    BY <2>1, GenerateAsks
  <2>2. CASE UNCHANGED ruleVars
    BY <2>2 DEF AskedWell, Asked, ruleVars
  <2> QED
    BY <2>1, <2>2 DEF RuleNext
<1> QED
  BY <1>1, <1>2, AnswersAreSound, PTL
=============================================================================
