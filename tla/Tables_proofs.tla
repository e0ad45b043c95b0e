---------------------------- MODULE Tables_proofs ----------------------------
(***************************************************************************)
(* The tables that every daemon keeps about others.  For any daemons,      *)
(* segments, timeout and bounds: no record of a peer registry grows older  *)
(* than two timeouts; a timeout of three beats or more never costs a       *)
(* beating peer its record when one presence was lost; and every daemon    *)
(* that was sent the owner's present member table of a room has it, or it  *)
(* is the last signal on its way to it.                                    *)
(***************************************************************************)
EXTENDS Presence, Rooms, Sequences, SequenceTheorems, FiniteSetTheorems, TLAPS

Age == Nat \cup {Gone}

(* A daemon that does not run has no records: its prune timer is stopped,  *)
(* so the bound would not survive the next unit of time otherwise.         *)
Inv ==
  /\ up \in [Device -> BOOLEAN]
  /\ pruneIn \in [Device -> 0..Timeout]
  /\ age \in [Device -> [Device -> Age]]
  /\ \A a, b \in Device : ~up[a] => age[a][b] = Gone
  /\ StaleBounded

LEMMA AgeType == Gone \in Int /\ Age \subseteq Int /\ 0 \in Age /\ Gone \in Age
                 /\ \A x \in Age : x = Gone \/ x >= 0
BY DEF Gone, Age

(* Timeouts are positive, and a new or missing record is within the bound. *)
LEMMA FreshBounded ==
  ASSUME NEW p \in 0..Timeout
  PROVE  /\ 0 + p <= 2 * Timeout /\ Gone + p <= 2 * Timeout
         /\ \A x \in Int : x <= Timeout => x + p <= 2 * Timeout
BY PresenceAssumption DEF Gone

(* What AnnounceTo does to the records: b is refreshed at the daemons R.   *)
RefreshedAt(table, b, R, t) ==
  /\ table \in [Device -> [Device -> Age]]
  /\ b \in Device
  /\ t = [a \in Device |-> IF a \in R THEN [table[a] EXCEPT ![b] = 0] ELSE table[a]]

LEMMA Refreshed ==
  ASSUME NEW table, NEW b, NEW R, NEW t, RefreshedAt(table, b, R, t)
  PROVE  /\ t \in [Device -> [Device -> Age]]
         /\ \A a, c \in Device : t[a][c] = table[a][c] \/ (a \in R /\ t[a][c] = 0)
<1> USE DEF RefreshedAt
<1>1. ASSUME NEW a \in Device
      PROVE  /\ t[a] \in [Device -> Age]
             /\ \A c \in Device : t[a][c] = table[a][c] \/ (a \in R /\ t[a][c] = 0)
  <2>1. CASE a \in R
    <3>1. t[a] = [table[a] EXCEPT ![b] = 0] /\ table[a] \in [Device -> Age]
      BY <2>1
    <3> QED
      BY <2>1, <3>1, AgeType
  <2>2. CASE a \notin R
    BY <2>2
  <2> QED
    BY <2>1, <2>2
<1> QED
  BY <1>1

(* Records that are refreshed or dropped at a running daemon.              *)
LEMMA RecordStep ==
  ASSUME Inv, up' = up, pruneIn' = pruneIn,
         age' \in [Device -> [Device -> Age]],
         \A a, c \in Device : \/ age'[a][c] = age[a][c]
                              \/ up[a] /\ age'[a][c] \in {0, Gone}
  PROVE  Inv'
<1>1. \A a, c \in Device : ~up[a] => age'[a][c] = Gone
  BY DEF Inv
<1>2. ASSUME NEW a \in Device, NEW c \in Device
      PROVE  age'[a][c] + pruneIn[a] <= 2 * Timeout
  <2>1. age[a][c] + pruneIn[a] <= 2 * Timeout /\ pruneIn[a] \in 0..Timeout
    BY DEF Inv, StaleBounded
  <2>2. CASE age'[a][c] = age[a][c]
    BY <2>1, <2>2
  <2>3. CASE age'[a][c] \in {0, Gone}
    BY <2>1, <2>3, FreshBounded
  <2> QED
    BY <2>2, <2>3
<1> QED
  BY <1>1, <1>2 DEF Inv, StaleBounded

LEMMA ListenersRun ==
  ASSUME NEW b \in Device, NEW R \in SUBSET Listeners(b)
  PROVE  \A a \in R : a \in Device /\ up[a] /\ a # b
BY DEF Listeners

LEMMA AnnounceStep ==
  ASSUME Inv, NEW b \in Device, Tick(b) \/ Scan(b)
  PROVE  Inv'
<1>1. up' = up /\ pruneIn' = pruneIn
  BY DEF Tick, Scan
<1>2. PICK R \in SUBSET Listeners(b) :
        age' = [a \in Device |-> IF a \in R THEN [age[a] EXCEPT ![b] = 0] ELSE age[a]]
  BY DEF Tick, Scan, AnnounceTo
<1>3. RefreshedAt(age, b, R, age')
  BY <1>2 DEF RefreshedAt, Inv
<1>4. /\ age' \in [Device -> [Device -> Age]]
      /\ \A a, c \in Device : age'[a][c] = age[a][c] \/ (a \in R /\ age'[a][c] = 0)
  BY <1>3, Refreshed
<1>5. \A a \in R : up[a]
  BY ListenersRun
<1> QED
  BY <1>1, <1>4, <1>5, RecordStep

LEMMA RelayStep ==
  ASSUME Inv, NEW a \in Device, NEW b \in Device,
         \/ RelayPeerOnline(a, b) \/ RelayPeerOffline(a, b) \/ FrameArrives(a, b)
  PROVE  Inv'
<1>1. /\ up' = up /\ pruneIn' = pruneIn /\ up[a]
      /\ \E x \in {0, Gone} : age' = [age EXCEPT ![a][b] = x]
  BY DEF RelayPeerOnline, RelayPeerOffline, FrameArrives
<1>2. PICK x \in {0, Gone} : age' = [age EXCEPT ![a][b] = x]
  BY <1>1
<1>3. age \in [Device -> [Device -> Age]]
  BY DEF Inv
<1>4. age' \in [Device -> [Device -> Age]]
  BY <1>2, <1>3, AgeType
<1>5. ASSUME NEW d \in Device, NEW c \in Device
      PROVE  age'[d][c] = age[d][c] \/ (up[d] /\ age'[d][c] \in {0, Gone})
  <2>1. CASE d = a /\ c = b
    BY <1>1, <1>2, <1>3, <2>1
  <2>2. CASE d # a \/ c # b
    BY <1>2, <1>3, <2>2
  <2> QED
    BY <2>1, <2>2
<1> QED
  BY <1>1, <1>4, <1>5, RecordStep

(* What PruneStale leaves is at most one timeout old.                      *)
LEMMA PruneBounds ==
  ASSUME NEW ages \in [Device -> Age], NEW kept
  PROVE  /\ PruneStale(ages, kept) \in [Device -> Age]
         /\ \A c \in Device : PruneStale(ages, kept)[c] <= Timeout
<1> DEFINE stale == {b \in Device : ages[b] > Timeout \/ (ages[b] = Timeout /\ b \notin kept)}
           t == [b \in Device |-> IF b \in stale THEN Gone ELSE ages[b]]
<1>1. PruneStale(ages, kept) = t
  BY DEF PruneStale
<1>2. ASSUME NEW c \in Device
      PROVE  t[c] \in Age /\ t[c] <= Timeout
  <2>1. CASE c \in stale
    <3>1. t[c] = Gone
      BY <2>1
    <3> HIDE DEF t
    <3> QED
      BY <3>1, PresenceAssumption DEF Age, Gone
  <2>2. CASE c \notin stale
    <3>1. t[c] = ages[c] /\ ~(ages[c] > Timeout) /\ ages[c] \in Age
      BY <2>2
    <3>2. ages[c] <= Timeout
      <4>1. ages[c] \in Int /\ Timeout \in Int
        <5>1. ages[c] \in Age
          BY <3>1
        <5>2. Age \subseteq Int /\ Timeout \in Int
          BY AgeType, PresenceAssumption
        <5> HIDE DEF t, stale
        <5> QED
          BY <5>1, <5>2
      <4>2. ~(ages[c] > Timeout)
        BY <3>1
      <4> QED
        BY <4>1, <4>2
    <3> HIDE DEF t
    <3> QED
      BY <3>1, <3>2
  <2> QED
    BY <2>1, <2>2
<1>3. t \in [Device -> Age]
  BY <1>2
<1> QED
  BY <1>1, <1>2, <1>3

LEMMA PruneStep ==
  ASSUME Inv, NEW a \in Device, PruneStalePeers(a)
  PROVE  Inv'
<1>1. /\ up' = up /\ up[a] /\ pruneIn' = [pruneIn EXCEPT ![a] = Timeout]
      /\ pruneIn \in [Device -> 0..Timeout] /\ age \in [Device -> [Device -> Age]]
      /\ up \in [Device -> BOOLEAN]
  BY DEF PruneStalePeers, Inv
<1>2. PICK kept \in SUBSET Device :
        LET table == [age EXCEPT ![a] = PruneStale(@, kept)]
        IN  IF changed[a]
            THEN \E R \in SUBSET Listeners(a) : AnnounceTo(a, R, TRUE, table)
            ELSE age' = table
  BY DEF PruneStalePeers
<1> DEFINE table == [age EXCEPT ![a] = PruneStale(@, kept)]
<1>3. /\ table \in [Device -> [Device -> Age]]
      /\ table[a] = PruneStale(age[a], kept)
      /\ \A d \in Device \ {a} : table[d] = age[d]
      /\ \A c \in Device : table[a][c] <= Timeout
  <2>1. /\ PruneStale(age[a], kept) \in [Device -> Age]
        /\ \A c \in Device : PruneStale(age[a], kept)[c] <= Timeout
    BY <1>1, PruneBounds
  <2> QED
    BY <1>1, <2>1
<1>4. PICK R \in SUBSET Device :
        /\ age' \in [Device -> [Device -> Age]]
        /\ \A d \in R : up[d] /\ d # a
        /\ \A d, c \in Device : age'[d][c] = table[d][c] \/ (d \in R /\ age'[d][c] = 0)
  <2>1. CASE changed[a]
    <3>1. PICK Q \in SUBSET Listeners(a) : AnnounceTo(a, Q, TRUE, table)
      BY <1>2, <2>1
    <3>2. age' = [d \in Device |-> IF d \in Q THEN [table[d] EXCEPT ![a] = 0]
                                   ELSE table[d]]
      BY <3>1 DEF AnnounceTo
    <3> HIDE DEF table
    <3>3. RefreshedAt(table, a, Q, age')
      BY <1>3, <3>2 DEF RefreshedAt
    <3>4. Q \in SUBSET Device /\ \A d \in Q : up[d] /\ d # a
      BY ListenersRun
    <3>5. /\ age' \in [Device -> [Device -> Age]]
          /\ \A d, c \in Device : age'[d][c] = table[d][c] \/ (d \in Q /\ age'[d][c] = 0)
      BY <3>3, Refreshed
    <3> QED
      BY <3>4, <3>5
  <2>2. CASE ~changed[a]
    <3>1. age' = table
      BY <1>2, <2>2
    <3> HIDE DEF table
    <3> WITNESS {} \in SUBSET Device
    <3> QED
      BY <1>3, <3>1
  <2> QED
    BY <2>1, <2>2
<1> HIDE DEF table
<1>5. /\ pruneIn' \in [Device -> 0..Timeout] /\ pruneIn'[a] = Timeout
      /\ \A d \in Device \ {a} : pruneIn'[d] = pruneIn[d]
  BY <1>1, PresenceAssumption
<1>6. ASSUME NEW d \in Device, NEW c \in Device
      PROVE  /\ ~up[d] => age'[d][c] = Gone
             /\ age'[d][c] + pruneIn'[d] <= 2 * Timeout
  <2>1. /\ ~up[d] => age[d][c] = Gone
        /\ age[d][c] + pruneIn[d] <= 2 * Timeout
    BY DEF Inv, StaleBounded
  <2>2. pruneIn'[d] \in 0..Timeout /\ table[d][c] \in Age
    BY <1>3, <1>5
  <2>3. CASE d = a
    <3>1. age'[d][c] = table[a][c] /\ up[d]
      BY <1>1, <1>4, <2>3
    <3>2. table[a][c] \in Int /\ table[a][c] <= Timeout
      BY <1>3, <2>2, <2>3, AgeType
    <3> QED
      BY <2>2, <3>1, <3>2, FreshBounded
  <2>4. CASE d # a /\ age'[d][c] = table[d][c]
    <3>1. age'[d][c] = age[d][c] /\ pruneIn'[d] = pruneIn[d]
      BY <1>3, <1>5, <2>4
    <3> QED
      BY <2>1, <3>1
  <2>5. CASE d \in R /\ age'[d][c] = 0
    BY <1>4, <2>2, <2>5, FreshBounded
  <2> QED
    BY <1>4, <2>3, <2>4, <2>5
<1> QED
  BY <1>1, <1>4, <1>5, <1>6 DEF Inv, StaleBounded

LEMMA CrashStep ==
  ASSUME Inv, NEW a \in Device, Crash(a)
  PROVE  Inv'
<1>1. /\ up' = [up EXCEPT ![a] = FALSE] /\ pruneIn' = pruneIn
      /\ age' = [age EXCEPT ![a] = [b \in Device |-> Gone]]
      /\ pruneIn \in [Device -> 0..Timeout] /\ age \in [Device -> [Device -> Age]]
      /\ up \in [Device -> BOOLEAN]
  BY DEF Crash, Inv
<1>2. /\ up' \in [Device -> BOOLEAN]
      /\ age' \in [Device -> [Device -> Age]]
  BY <1>1, AgeType
<1>3. ASSUME NEW d \in Device, NEW c \in Device
      PROVE  /\ ~up'[d] => age'[d][c] = Gone
             /\ age'[d][c] + pruneIn'[d] <= 2 * Timeout
  <2>1. /\ ~up[d] => age[d][c] = Gone
        /\ age[d][c] + pruneIn[d] <= 2 * Timeout
        /\ pruneIn[d] \in 0..Timeout
    BY DEF Inv, StaleBounded
  <2>2. CASE d = a
    <3>1. age'[d][c] = Gone
      BY <1>1, <2>2
    <3> QED
      BY <1>1, <2>1, <3>1, FreshBounded
  <2>3. CASE d # a
    <3>1. age'[d][c] = age[d][c] /\ up'[d] = up[d]
      BY <1>1, <2>3
    <3> QED
      BY <1>1, <2>1, <3>1
  <2> QED
    BY <2>2, <2>3
<1> QED
  BY <1>1, <1>2, <1>3 DEF Inv, StaleBounded

LEMMA StartStep ==
  ASSUME Inv, NEW a \in Device, StartOnIo(a)
  PROVE  Inv'
<1>1. /\ ~up[a] /\ up' = [up EXCEPT ![a] = TRUE]
      /\ pruneIn' = [pruneIn EXCEPT ![a] = Timeout]
      /\ pruneIn \in [Device -> 0..Timeout] /\ age \in [Device -> [Device -> Age]]
      /\ up \in [Device -> BOOLEAN]
  BY DEF StartOnIo, Inv
<1>2. PICK R \in SUBSET Listeners(a) :
        age' = [d \in Device |-> IF d \in R THEN [age[d] EXCEPT ![a] = 0] ELSE age[d]]
  BY DEF StartOnIo, AnnounceTo
<1>3. RefreshedAt(age, a, R, age')
  BY <1>1, <1>2 DEF RefreshedAt
<1>4. /\ age' \in [Device -> [Device -> Age]]
      /\ \A d, c \in Device : age'[d][c] = age[d][c] \/ (d \in R /\ age'[d][c] = 0)
      /\ \A d \in R : up[d]
  BY <1>3, Refreshed, ListenersRun
<1>5. /\ up' \in [Device -> BOOLEAN] /\ pruneIn' \in [Device -> 0..Timeout]
      /\ pruneIn'[a] = Timeout /\ up'[a]
      /\ \A d \in Device \ {a} : pruneIn'[d] = pruneIn[d] /\ up'[d] = up[d]
  BY <1>1, PresenceAssumption
<1>6. ASSUME NEW d \in Device, NEW c \in Device
      PROVE  /\ ~up'[d] => age'[d][c] = Gone
             /\ age'[d][c] + pruneIn'[d] <= 2 * Timeout
  <2>1. /\ ~up[d] => age[d][c] = Gone
        /\ age[d][c] + pruneIn[d] <= 2 * Timeout
        /\ pruneIn'[d] \in 0..Timeout
    BY <1>5 DEF Inv, StaleBounded
  <2>2. CASE d = a
    <3>1. age'[d][c] = Gone \/ age'[d][c] = 0
      BY <1>1, <1>4, <2>1, <2>2
    <3> QED
      BY <1>5, <2>1, <2>2, <3>1, FreshBounded
  <2>3. CASE d # a /\ age'[d][c] = age[d][c]
    BY <1>5, <2>1, <2>3
  <2>4. CASE d # a /\ d \in R /\ age'[d][c] = 0
    BY <1>4, <1>5, <2>1, <2>4, FreshBounded
  <2> QED
    BY <1>4, <2>2, <2>3, <2>4
<1> QED
  BY <1>4, <1>5, <1>6 DEF Inv, StaleBounded

LEMMA ElapseStep ==
  ASSUME Inv, Elapse
  PROVE  Inv'
<1>1. /\ up' = up
      /\ pruneIn' = [a \in Device |-> IF up[a] THEN pruneIn[a] - 1 ELSE pruneIn[a]]
      /\ age' = [a \in Device |-> [b \in Device |->
                   IF age[a][b] = Gone THEN Gone ELSE age[a][b] + 1]]
      /\ \A a \in Device : up[a] => pruneIn[a] > 0
      /\ pruneIn \in [Device -> 0..Timeout] /\ age \in [Device -> [Device -> Age]]
      /\ up \in [Device -> BOOLEAN]
  BY DEF Elapse, Inv
<1>2. ASSUME NEW a \in Device, NEW c \in Device
      PROVE  /\ pruneIn'[a] \in 0..Timeout
             /\ age'[a][c] \in Age
             /\ ~up[a] => age'[a][c] = Gone
             /\ age'[a][c] + pruneIn'[a] <= 2 * Timeout
  <2>1. /\ pruneIn[a] \in 0..Timeout /\ age[a][c] \in Age
        /\ ~up[a] => age[a][c] = Gone
        /\ age[a][c] + pruneIn[a] <= 2 * Timeout
        /\ up[a] => pruneIn[a] > 0
    BY <1>1 DEF Inv, StaleBounded
  <2>2. /\ pruneIn'[a] = IF up[a] THEN pruneIn[a] - 1 ELSE pruneIn[a]
        /\ age'[a][c] = IF age[a][c] = Gone THEN Gone ELSE age[a][c] + 1
    BY <1>1
  <2>3. pruneIn'[a] \in 0..Timeout
    BY <2>1, <2>2, PresenceAssumption
  <2>4. CASE age[a][c] = Gone
    BY <2>2, <2>3, <2>4, FreshBounded, AgeType
  <2>5. CASE age[a][c] # Gone
    <3>1. up[a] /\ age[a][c] \in Nat
      BY <2>1, <2>5 DEF Age
    <3>2. age'[a][c] = age[a][c] + 1 /\ pruneIn'[a] = pruneIn[a] - 1
      BY <2>2, <2>5, <3>1
    <3> QED
      BY <2>1, <2>3, <3>1, <3>2 DEF Age
  <2> QED
    BY <2>4, <2>5
<1>3. pruneIn' \in [Device -> 0..Timeout]
  BY <1>1, <1>2
<1>4. age' \in [Device -> [Device -> Age]]
  BY <1>1, <1>2
<1> QED
  BY <1>1, <1>2, <1>3, <1>4 DEF Inv, StaleBounded

LEMMA Invariance == Spec => []Inv
<1>1. Init => Inv
  <2> SUFFICES ASSUME Init PROVE Inv
    OBVIOUS
  <2>1. /\ up \in [Device -> BOOLEAN] /\ pruneIn \in [Device -> 0..Timeout]
        /\ age \in [Device -> [Device -> Age]]
        /\ \A a, b \in Device : age[a][b] = Gone /\ pruneIn[a] = Timeout
    BY AgeType, PresenceAssumption DEF Init
  <2>2. Timeout \in 0..Timeout
    BY PresenceAssumption
  <2> QED
    BY <2>1, <2>2, FreshBounded DEF Inv, StaleBounded
<1>2. Inv /\ [Next]_vars => Inv'
  <2> SUFFICES ASSUME Inv, [Next]_vars PROVE Inv'
    OBVIOUS
  <2>1. ASSUME NEW a \in Device, Tick(a) \/ Scan(a)
        PROVE  Inv'
    BY <2>1, AnnounceStep
  <2>2. ASSUME NEW a \in Device, PruneStalePeers(a) \/ Crash(a) \/ StartOnIo(a)
        PROVE  Inv'
    BY <2>2, PruneStep, CrashStep, StartStep
  <2>3. ASSUME NEW a \in Device, NEW b \in Device,
               \/ RelayPeerOnline(a, b) \/ RelayPeerOffline(a, b) \/ FrameArrives(a, b)
        PROVE  Inv'
    BY <2>3, RelayStep
  <2>4. CASE Elapse
    BY <2>4, ElapseStep
  <2>5. CASE UNCHANGED <<up, pruneIn, age>>
    BY <2>5 DEF Inv, StaleBounded
  <2>6. ASSUME NEW a \in Device,
               InterfacesChange(a) \/ RelayRegisters(a) \/ RelayUnregisters(a)
        PROVE  UNCHANGED <<up, pruneIn, age>>
    BY <2>6 DEF InterfacesChange, RelayRegisters, RelayUnregisters
  <2>7. UNCHANGED vars => UNCHANGED <<up, pruneIn, age>>
    BY DEF vars
  <2> QED
    BY <2>1, <2>2, <2>3, <2>4, <2>5, <2>6, <2>7
       DEF Next, Timers, Outside, RelayEvents, Frames
<1> QED
  BY <1>1, <1>2, PTL DEF Spec

(***************************************************************************)
(* The theorem: however losses, crashes, interface changes and the relay   *)
(* interleave with the timers, a roster never shows a record older than    *)
(* two timeouts (PruneStalePeers).                                         *)
(***************************************************************************)
THEOREM RecordsAgeOut == Spec => []StaleBounded
<1>1. Inv => StaleBounded
  BY DEF Inv
<1> QED
  BY <1>1, Invariance, PTL

------------------------------------------------------------------------------
(***************************************************************************)
(* The rest of the types.                                                  *)
(***************************************************************************)
Watch ==
  /\ tick \in [Device -> {"due", "later", "cancelled"}]
  /\ changed \in [Device -> BOOLEAN]
  /\ via \in [Device -> [Device -> {"lan", "relay"}]]
  /\ reg \in [Device -> BOOLEAN]
  /\ told \in [Device -> SUBSET Device]

Counters ==
  /\ losses \in 0..MaxLosses
  /\ changes \in 0..MaxChanges
  /\ drops \in 0..MaxDrops
  /\ crashes \in 0..MaxCrashes

LEMMA BoundedCount ==
  ASSUME NEW n, NEW max \in Nat, n \in 0..max, n < max
  PROVE  n + 1 \in 0..max
OBVIOUS

(* An announcement marks its listeners' records, and whoever was not       *)
(* reached counts as a loss.                                               *)
LEMMA AnnounceFacts ==
  ASSUME Watch, losses \in 0..MaxLosses,
         NEW b \in Device, NEW R \in SUBSET Listeners(b),
         NEW reachable \in BOOLEAN, NEW table, AnnounceTo(b, R, reachable, table)
  PROVE  /\ via' \in [Device -> [Device -> {"lan", "relay"}]]
         /\ losses' \in 0..MaxLosses
         /\ losses' >= losses
         /\ (reachable /\ R # Listeners(b)) => losses' >= losses + 1
<1> DEFINE n == Cardinality(Listeners(b) \ R)
<1>1. n \in Nat /\ (R # Listeners(b) => n # 0)
  <2>1. IsFiniteSet(Listeners(b) \ R)
    <3>1. Listeners(b) \ R \subseteq Device
      BY DEF Listeners
    <3> QED
      BY <3>1, PresenceAssumption, FS_Subset
  <2>2. R # Listeners(b) => Listeners(b) \ R # {}
    OBVIOUS
  <2> QED
    BY <2>1, <2>2, FS_CardinalityType, FS_EmptySet
<1>2. losses' = losses + (IF reachable THEN n ELSE 0) /\ losses' <= MaxLosses
  BY DEF AnnounceTo
<1>3. via' \in [Device -> [Device -> {"lan", "relay"}]]
  <2>1. via' = [a \in Device |-> IF a \in R THEN [via[a] EXCEPT ![b] = "lan"] ELSE via[a]]
    BY DEF AnnounceTo
  <2>2. \A a \in Device : via[a] \in [Device -> {"lan", "relay"}]
    BY DEF Watch
  <2>3. \A a \in Device : [via[a] EXCEPT ![b] = "lan"] \in [Device -> {"lan", "relay"}]
    BY <2>2
  <2> QED
    BY <2>1, <2>2, <2>3
<1> HIDE DEF n
<1> QED
  BY <1>1, <1>2, <1>3, PresenceAssumption DEF AnnounceTo

LEMMA TypesOfTimers ==
  ASSUME Watch, Counters, NEW a \in Device, Tick(a) \/ Scan(a) \/ PruneStalePeers(a)
  PROVE  Watch' /\ Counters'
<1>1. losses \in 0..MaxLosses
  BY DEF Counters
<1>2. via' \in [Device -> [Device -> {"lan", "relay"}]] /\ losses' \in 0..MaxLosses
  <2>1. CASE Tick(a) \/ Scan(a)
    <3>1. PICK R \in SUBSET Listeners(a) : AnnounceTo(a, R, ~changed[a], age)
      BY <2>1 DEF Tick, Scan
    <3>2. (~changed[a]) \in BOOLEAN
      OBVIOUS
    <3> QED
      BY <1>1, <3>1, <3>2, AnnounceFacts
  <2>2. CASE PruneStalePeers(a) /\ changed[a]
    <3>1. PICK kept \in SUBSET Device, R \in SUBSET Listeners(a) :
            AnnounceTo(a, R, TRUE, [age EXCEPT ![a] = PruneStale(@, kept)])
      BY <2>2 DEF PruneStalePeers
    <3> QED
      BY <1>1, <3>1, AnnounceFacts
  <2>3. CASE PruneStalePeers(a) /\ ~changed[a]
    BY <1>1, <2>3 DEF PruneStalePeers, Watch
  <2> QED
    BY <2>1, <2>2, <2>3
<1>3. /\ tick' \in [Device -> {"due", "later", "cancelled"}]
      /\ changed' \in [Device -> BOOLEAN]
  BY DEF Tick, Scan, PruneStalePeers, Watch
<1>4. UNCHANGED <<reg, told, changes, drops, crashes>>
  BY DEF Tick, Scan, PruneStalePeers, relay
<1> QED
  BY <1>2, <1>3, <1>4 DEF Watch, Counters

LEMMA TypesOfProcesses ==
  ASSUME Watch, Counters, NEW a \in Device,
         InterfacesChange(a) \/ Crash(a) \/ StartOnIo(a)
  PROVE  Watch' /\ Counters'
<1>1. CASE InterfacesChange(a)
  <2>1. changes' \in 0..MaxChanges
    BY <1>1, PresenceAssumption, BoundedCount DEF InterfacesChange, Counters
  <2>2. changed' \in [Device -> BOOLEAN]
    BY <1>1 DEF InterfacesChange, Watch
  <2> QED
    BY <1>1, <2>1, <2>2 DEF InterfacesChange, relay, Watch, Counters
<1>2. CASE Crash(a)
  <2>1. crashes' \in 0..MaxCrashes
    BY <1>2, PresenceAssumption, BoundedCount DEF Crash, Counters
  <2>2. /\ tick' \in [Device -> {"due", "later", "cancelled"}]
        /\ changed' \in [Device -> BOOLEAN]
        /\ told' \in [Device -> SUBSET Device]
    BY <1>2 DEF Crash, Watch
  <2> QED
    BY <1>2, <2>1, <2>2 DEF Crash, Watch, Counters
<1>3. CASE StartOnIo(a)
  <2>1. PICK R \in SUBSET Listeners(a) : AnnounceTo(a, R, TRUE, age)
    BY <1>3 DEF StartOnIo
  <2>2. via' \in [Device -> [Device -> {"lan", "relay"}]] /\ losses' \in 0..MaxLosses
    BY <2>1, AnnounceFacts DEF Counters
  <2>3. tick' \in [Device -> {"due", "later", "cancelled"}]
    BY <1>3 DEF StartOnIo, Watch
  <2> QED
    BY <1>3, <2>2, <2>3 DEF StartOnIo, relay, Watch, Counters
<1> QED
  BY <1>1, <1>2, <1>3

LEMMA TypesOfRelay ==
  ASSUME Watch, Counters, NEW a \in Device, NEW b \in Device,
         \/ RelayRegisters(b) \/ RelayUnregisters(b)
         \/ RelayPeerOnline(a, b) \/ RelayPeerOffline(a, b) \/ FrameArrives(a, b)
  PROVE  Watch' /\ Counters'
<1>1. CASE RelayRegisters(b)
  BY <1>1 DEF RelayRegisters, counters, Watch, Counters
<1>2. CASE RelayUnregisters(b)
  <2>1. drops' \in 0..MaxDrops
    BY <1>2, PresenceAssumption, BoundedCount DEF RelayUnregisters, Counters
  <2> QED
    BY <1>2, <2>1 DEF RelayUnregisters, Watch, Counters
<1>3. CASE RelayPeerOnline(a, b) \/ RelayPeerOffline(a, b) \/ FrameArrives(a, b)
  <2>1. via' \in [Device -> [Device -> {"lan", "relay"}]]
    <3>1. via' = via \/ \E x \in {"lan", "relay"} : via' = [via EXCEPT ![a][b] = x]
      BY <1>3 DEF RelayPeerOnline, RelayPeerOffline, FrameArrives
    <3> QED
      BY <3>1 DEF Watch
  <2>2. told' \in [Device -> SUBSET Device]
    BY <1>3 DEF RelayPeerOnline, RelayPeerOffline, FrameArrives, relay, Watch
  <2> QED
    BY <1>3, <2>1, <2>2
       DEF RelayPeerOnline, RelayPeerOffline, FrameArrives, relay, counters,
           Watch, Counters
<1> QED
  BY <1>1, <1>2, <1>3

LEMMA TypesOfTime ==
  ASSUME Watch, Counters, Elapse
  PROVE  Watch' /\ Counters'
<1>1. tick' \in [Device -> {"due", "later", "cancelled"}]
  BY DEF Elapse, Watch
<1> QED
  BY <1>1 DEF Elapse, relay, counters, Watch, Counters

LEMMA Types == Spec => [](Watch /\ Counters)
<1>1. Init => Watch /\ Counters
  BY PresenceAssumption DEF Init, Watch, Counters
<1>2. Watch /\ Counters /\ [Next]_vars => Watch' /\ Counters'
  <2> SUFFICES ASSUME Watch, Counters, [Next]_vars PROVE Watch' /\ Counters'
    OBVIOUS
  <2>1. ASSUME NEW a \in Device, Tick(a) \/ Scan(a) \/ PruneStalePeers(a)
        PROVE  Watch' /\ Counters'
    BY <2>1, TypesOfTimers
  <2>2. ASSUME NEW a \in Device, InterfacesChange(a) \/ Crash(a) \/ StartOnIo(a)
        PROVE  Watch' /\ Counters'
    BY <2>2, TypesOfProcesses
  <2>3. ASSUME NEW a \in Device, NEW b \in Device,
               \/ RelayRegisters(b) \/ RelayUnregisters(b)
               \/ RelayPeerOnline(a, b) \/ RelayPeerOffline(a, b)
               \/ FrameArrives(a, b)
        PROVE  Watch' /\ Counters'
    BY <2>3, TypesOfRelay
  <2>4. CASE Elapse
    BY <2>4, TypesOfTime
  <2>5. CASE UNCHANGED vars
    BY <2>5 DEF vars, relay, counters, Watch, Counters
  <2> QED
    BY <2>1, <2>2, <2>3, <2>4, <2>5 DEF Next, Timers, Outside, RelayEvents, Frames
<1> QED
  BY <1>1, <1>2, PTL DEF Spec

(***************************************************************************)
(* Timers and records hold what their types say in every state.            *)
(***************************************************************************)
THEOREM TypeCorrect == Spec => []TypeOK
<1>1. Inv /\ Watch /\ Counters => TypeOK
  BY DEF Inv, Watch, Counters, TypeOK, Age
<1> QED
  BY <1>1, Invariance, Types, PTL

------------------------------------------------------------------------------
(***************************************************************************)
(* How old the record of a beating peer gets: a beat for every loss so     *)
(* far, and one more while the next beat is due.  A daemon keeps no        *)
(* record of itself.                                                       *)
(***************************************************************************)
Due(b) == IF tick[b] = "due" THEN 1 ELSE 0

Young(a, b) ==
  (Segment[a] = Segment[b] /\ Beating(b)) => age[a][b] <= losses + Due(b)

NotItself == \A a \in Device : age[a][a] = Gone

BeatInv ==
  /\ NotItself
  /\ crashes = 0 => /\ \A d \in Device : up[d]
                    /\ \A a, b \in Device : Young(a, b)

Typed == Inv /\ Watch /\ Counters

LEMMA Numbers ==
  ASSUME Typed
  PROVE  /\ losses \in Nat /\ crashes \in Nat
         /\ \A b \in Device : Due(b) \in 0..1
         /\ \A a, b \in Device : age[a][b] \in Int
         /\ age \in [Device -> [Device -> Age]]
         /\ tick \in [Device -> {"due", "later", "cancelled"}]
         /\ changed \in [Device -> BOOLEAN]
         /\ up \in [Device -> BOOLEAN]
<1>1. age \in [Device -> [Device -> Age]] /\ up \in [Device -> BOOLEAN]
  BY DEF Typed, Inv
<1>2. \A a, b \in Device : age[a][b] \in Int
  BY <1>1, AgeType
<1> QED
  BY <1>1, <1>2, PresenceAssumption DEF Typed, Watch, Counters, Due

(* A step that beats no timer, and leaves a record or makes it new.        *)
LEMMA YoungerStep ==
  ASSUME Typed, BeatInv, losses' \in Nat, losses' >= losses, crashes' = crashes,
         \A d \in Device : up'[d] = up[d],
         \A a, b \in Device : \/ age'[a][b] = age[a][b]
                              \/ age'[a][b] = Gone
                              \/ a # b /\ age'[a][b] = 0,
         \A b \in Device : Beating(b)' => Beating(b) /\ tick'[b] = tick[b]
  PROVE  BeatInv'
<1>1. NotItself'
  BY DEF BeatInv, NotItself
<1>2. ASSUME crashes = 0, NEW a \in Device, NEW b \in Device,
             Segment[a] = Segment[b], Beating(b)'
      PROVE  age'[a][b] <= losses' + Due(b)'
  <2>1. age[a][b] <= losses + Due(b) /\ Due(b)' = Due(b)
    BY <1>2 DEF BeatInv, Young, Due
  <2>2. losses \in Nat /\ Due(b) \in 0..1 /\ age[a][b] \in Int
    BY Numbers
  <2>3. age'[a][b] = age[a][b] \/ age'[a][b] = Gone \/ age'[a][b] = 0
    OBVIOUS
  <2> HIDE DEF Due
  <2> QED
    BY <2>1, <2>2, <2>3 DEF Gone
<1>3. crashes = 0 => \A d \in Device : up'[d]
  BY DEF BeatInv
<1> QED
  BY <1>1, <1>2, <1>3 DEF BeatInv, Young

LEMMA OwnListener ==
  ASSUME NEW b \in Device
  PROVE  b \notin Listeners(b) /\ Listeners(b) \subseteq Device
BY DEF Listeners

(* What an announcement does to the records, pointwise.                    *)
LEMMA HeardBy ==
  ASSUME NEW table, NEW b, NEW R \in SUBSET Listeners(b), NEW t,
         RefreshedAt(table, b, R, t)
  PROVE  \A d, c \in Device :
            t[d][c] = IF d \in R /\ c = b THEN 0 ELSE table[d][c]
<1> USE DEF RefreshedAt
<1>1. ASSUME NEW d \in Device, NEW c \in Device
      PROVE  t[d][c] = IF d \in R /\ c = b THEN 0 ELSE table[d][c]
  <2>1. table[d] \in [Device -> Age]
    OBVIOUS
  <2>2. CASE d \in R
    <3>1. t[d] = [table[d] EXCEPT ![b] = 0]
      BY <2>2
    <3> QED
      BY <2>1, <2>2, <3>1
  <2>3. CASE d \notin R
    BY <2>3
  <2> QED
    BY <2>2, <2>3
<1> QED
  BY <1>1

(* The beat of b makes its record new, or one more presence is lost.       *)
LEMMA BeatOfTick ==
  ASSUME Typed, BeatInv, NEW b \in Device, Tick(b)
  PROVE  BeatInv'
<1>1. /\ up' = up /\ changed' = changed /\ crashes' = crashes
      /\ tick' = [tick EXCEPT ![b] = "later"] /\ tick[b] = "due"
  BY DEF Tick
<1>2. PICK R \in SUBSET Listeners(b) : AnnounceTo(b, R, ~changed[b], age)
  BY DEF Tick
<1>3. /\ losses' \in 0..MaxLosses /\ losses' >= losses
      /\ (~changed[b] /\ R # Listeners(b)) => losses' >= losses + 1
  <2>1. (~changed[b]) \in BOOLEAN /\ losses \in 0..MaxLosses /\ Watch
    BY DEF Typed, Counters
  <2> QED
    BY <1>2, <2>1, AnnounceFacts
<1>4. \A d, c \in Device : age'[d][c] = IF d \in R /\ c = b THEN 0 ELSE age[d][c]
  <2>1. age' = [a \in Device |-> IF a \in R THEN [age[a] EXCEPT ![b] = 0] ELSE age[a]]
    BY <1>2 DEF AnnounceTo
  <2> QED
    BY <2>1, Numbers, HeardBy DEF RefreshedAt
<1>5. losses' \in Nat
  BY <1>3, PresenceAssumption
<1>6. NotItself'
  BY <1>4, OwnListener DEF BeatInv, NotItself
<1>7. ASSUME crashes = 0, NEW d \in Device, NEW c \in Device,
             Segment[d] = Segment[c], Beating(c)'
      PROVE  age'[d][c] <= losses' + Due(c)'
  <2>1. /\ up[c] /\ tick'[c] # "cancelled" /\ ~changed[c]
        /\ losses \in Nat /\ age[d][c] \in Int
        /\ tick \in [Device -> {"due", "later", "cancelled"}]
    BY <1>1, <1>7, Numbers DEF Beating
  <2>2. Beating(c)
    BY <1>1, <2>1 DEF Beating
  <2>3. age[d][c] <= losses + Due(c)
    BY <1>7, <2>2 DEF BeatInv, Young
  <2>4. CASE c # b
    <3>1. age'[d][c] = age[d][c] /\ tick'[c] = tick[c]
      BY <1>1, <1>4, <2>1, <2>4
    <3>2. Due(c)' = Due(c) /\ Due(c) \in 0..1
      BY <3>1 DEF Due
    <3> HIDE DEF Due
    <3> QED
      BY <1>3, <1>5, <2>1, <2>3, <3>1, <3>2
  <2>5. CASE c = b /\ d = b
    <3>1. age'[d][c] = Gone /\ Due(c)' \in 0..1
      BY <1>6, <2>5 DEF NotItself, Due
    <3> HIDE DEF Due
    <3> QED
      BY <1>5, <3>1 DEF Gone
  <2>6. CASE c = b /\ d # b
    <3>1. d \in Listeners(b)
      BY <1>7, <2>6 DEF Listeners, BeatInv
    <3>2. CASE d \in R
      BY <1>4, <1>5, <2>6, <3>2 DEF Due
    <3>3. CASE d \notin R
      <4>1. losses' >= losses + 1 /\ age'[d][c] = age[d][c]
        BY <1>3, <1>4, <2>1, <2>6, <3>1, <3>3
      <4>2. Due(c) = 1 /\ Due(c)' \in 0..1
        BY <1>1, <2>6 DEF Due
      <4> HIDE DEF Due
      <4> QED
        BY <1>5, <2>1, <2>3, <4>1, <4>2
    <3> QED
      BY <3>2, <3>3
  <2> QED
    BY <2>4, <2>5, <2>6
<1>8. crashes = 0 => \A d \in Device : up'[d]
  BY <1>1 DEF BeatInv
<1> QED
  BY <1>1, <1>6, <1>7, <1>8 DEF BeatInv, Young

LEMMA BeatOfScan ==
  ASSUME Typed, BeatInv, NEW b \in Device, Scan(b)
  PROVE  BeatInv'
<1>1. up' = up /\ changed' = changed /\ crashes' = crashes /\ tick' = tick
  BY DEF Scan
<1>2. PICK R \in SUBSET Listeners(b) : AnnounceTo(b, R, ~changed[b], age)
  BY DEF Scan
<1>3. losses' \in 0..MaxLosses /\ losses' >= losses
  <2>1. (~changed[b]) \in BOOLEAN /\ losses \in 0..MaxLosses /\ Watch
    BY DEF Typed, Counters
  <2> QED
    BY <1>2, <2>1, AnnounceFacts
<1>4. \A d, c \in Device : age'[d][c] = IF d \in R /\ c = b THEN 0 ELSE age[d][c]
  <2>1. age' = [a \in Device |-> IF a \in R THEN [age[a] EXCEPT ![b] = 0] ELSE age[a]]
    BY <1>2 DEF AnnounceTo
  <2> QED
    BY <2>1, Numbers, HeardBy DEF RefreshedAt
<1>5. losses' \in Nat
  BY <1>3, PresenceAssumption
<1>6. \A c \in Device : Beating(c)' => Beating(c) /\ tick'[c] = tick[c]
  BY <1>1 DEF Beating
<1>7. \A d, c \in Device : age'[d][c] = age[d][c] \/ (d # c /\ age'[d][c] = 0)
  BY <1>4, OwnListener
<1> QED
  BY <1>1, <1>3, <1>5, <1>6, <1>7, YoungerStep

(* A record that PruneStale changes is gone.                               *)
LEMMA PrunedIsGone ==
  ASSUME NEW ages, NEW kept, NEW c \in Device
  PROVE  PruneStale(ages, kept)[c] \in {ages[c], Gone}
BY DEF PruneStale

LEMMA BeatOfPrune ==
  ASSUME Typed, BeatInv, NEW a \in Device, PruneStalePeers(a)
  PROVE  BeatInv'
<1>1. /\ up' = up /\ changed' = [changed EXCEPT ![a] = FALSE] /\ crashes' = crashes
      /\ tick' = IF changed[a] THEN [tick EXCEPT ![a] = "cancelled"] ELSE tick
  BY DEF PruneStalePeers
<1>2. \A c \in Device : Beating(c)' => Beating(c) /\ tick'[c] = tick[c]
  <2>1. /\ tick \in [Device -> {"due", "later", "cancelled"}]
        /\ changed \in [Device -> BOOLEAN]
    BY Numbers
  <2>2. CASE changed[a]
    BY <1>1, <2>1, <2>2 DEF Beating
  <2>3. CASE ~changed[a]
    BY <1>1, <2>1, <2>3 DEF Beating
  <2> QED
    BY <2>2, <2>3
<1>3. PICK kept \in SUBSET Device :
        LET table == [age EXCEPT ![a] = PruneStale(@, kept)]
        IN  IF changed[a]
            THEN \E R \in SUBSET Listeners(a) : AnnounceTo(a, R, TRUE, table)
            ELSE age' = table /\ UNCHANGED <<via, losses>>
  BY DEF PruneStalePeers
<1> DEFINE table == [age EXCEPT ![a] = PruneStale(@, kept)]
<1>4. /\ table \in [Device -> [Device -> Age]]
      /\ \A d, c \in Device : table[d][c] = age[d][c] \/ (d = a /\ table[d][c] = Gone)
  <2>1. age \in [Device -> [Device -> Age]]
    BY Numbers
  <2>2. PruneStale(age[a], kept) \in [Device -> Age]
    BY <2>1, PruneBounds
  <2>3. \A d \in Device : table[d] = IF d = a THEN PruneStale(age[a], kept) ELSE age[d]
    BY <2>1
  <2>4. table \in [Device -> [Device -> Age]]
    BY <2>1, <2>2
  <2> HIDE DEF table
  <2> QED
    BY <2>3, <2>4, PrunedIsGone
<1>5. /\ losses' \in Nat /\ losses' >= losses
      /\ \A d, c \in Device : \/ age'[d][c] = age[d][c]
                              \/ age'[d][c] = Gone
                              \/ d # c /\ age'[d][c] = 0
  <2>1. CASE changed[a]
    <3>1. PICK R \in SUBSET Listeners(a) : AnnounceTo(a, R, TRUE, table)
      BY <1>3, <2>1
    <3> HIDE DEF table
    <3>2. losses' \in 0..MaxLosses /\ losses' >= losses
      BY <3>1, AnnounceFacts DEF Typed, Counters
    <3>3. \A d, c \in Device :
             age'[d][c] = IF d \in R /\ c = a THEN 0 ELSE table[d][c]
      <4>1. age' = [d \in Device |-> IF d \in R THEN [table[d] EXCEPT ![a] = 0]
                                    ELSE table[d]]
        BY <3>1 DEF AnnounceTo
      <4> QED
        BY <1>4, <4>1, HeardBy DEF RefreshedAt
    <3>4. \A d \in R : d # a
      BY OwnListener
    <3> QED
      BY <1>4, <3>2, <3>3, <3>4, PresenceAssumption
  <2>2. CASE ~changed[a]
    <3>1. age' = table /\ losses' = losses
      BY <1>3, <2>2
    <3> HIDE DEF table
    <3> QED
      BY <1>4, <3>1, Numbers
  <2> QED
    BY <2>1, <2>2
<1> QED
  BY <1>1, <1>2, <1>5, YoungerStep

LEMMA BeatOfRelay ==
  ASSUME Typed, BeatInv, NEW a \in Device, NEW b \in Device,
         \/ RelayPeerOnline(a, b) \/ RelayPeerOffline(a, b) \/ FrameArrives(a, b)
  PROVE  BeatInv'
<1>1. /\ up' = up /\ tick' = tick /\ changed' = changed
      /\ losses' = losses /\ crashes' = crashes
  BY DEF RelayPeerOnline, RelayPeerOffline, FrameArrives, counters
<1>2. \/ age' = [age EXCEPT ![a][b] = Gone]
      \/ a # b /\ age' = [age EXCEPT ![a][b] = 0]
  BY DEF RelayPeerOnline, RelayPeerOffline, FrameArrives
<1>3. \A d, c \in Device : \/ age'[d][c] = age[d][c]
                           \/ age'[d][c] = Gone
                           \/ d # c /\ age'[d][c] = 0
  BY <1>2, Numbers
<1>4. \A c \in Device : Beating(c)' => Beating(c) /\ tick'[c] = tick[c]
  BY <1>1 DEF Beating
<1>5. losses' \in Nat /\ losses' >= losses
  BY <1>1, Numbers
<1> QED
  BY <1>1, <1>3, <1>4, <1>5, YoungerStep

LEMMA BeatOfProcesses ==
  ASSUME Typed, BeatInv, NEW a \in Device, Crash(a) \/ StartOnIo(a)
  PROVE  BeatInv'
<1>1. CASE Crash(a)
  <2>1. crashes' # 0 /\ age' = [age EXCEPT ![a] = [b \in Device |-> Gone]]
    BY <1>1, Numbers DEF Crash
  <2>2. NotItself'
    BY <2>1, Numbers DEF BeatInv, NotItself
  <2> QED
    BY <2>1, <2>2 DEF BeatInv
<1>2. CASE StartOnIo(a)
  <2>1. crashes' = crashes /\ crashes # 0
    BY <1>2 DEF StartOnIo, BeatInv
  <2>2. PICK R \in SUBSET Listeners(a) : AnnounceTo(a, R, TRUE, age)
    BY <1>2 DEF StartOnIo
  <2>3. age' = [d \in Device |-> IF d \in R THEN [age[d] EXCEPT ![a] = 0] ELSE age[d]]
    BY <2>2 DEF AnnounceTo
  <2>4. \A d, c \in Device : age'[d][c] = IF d \in R /\ c = a THEN 0 ELSE age[d][c]
    BY <2>3, Numbers, HeardBy DEF RefreshedAt
  <2>5. NotItself'
    BY <2>4, OwnListener DEF BeatInv, NotItself
  <2> QED
    BY <2>1, <2>5 DEF BeatInv
<1> QED
  BY <1>1, <1>2

(* A unit passes only when no beat is due: every record grows by one, and  *)
(* every beat falls due.                                                   *)
LEMMA BeatOfTime ==
  ASSUME Typed, BeatInv, Elapse
  PROVE  BeatInv'
<1>1. /\ up' = up /\ changed' = changed /\ losses' = losses /\ crashes' = crashes
      /\ tick' = [a \in Device |-> IF tick[a] = "later" THEN "due" ELSE tick[a]]
      /\ \A a \in Device : up[a] => tick[a] # "due"
  BY DEF Elapse, counters
<1>2. \A d, c \in Device :
         age'[d][c] = IF age[d][c] = Gone THEN Gone ELSE age[d][c] + 1
  BY DEF Elapse
<1>3. NotItself'
  BY <1>2 DEF BeatInv, NotItself
<1>4. ASSUME crashes = 0, NEW d \in Device, NEW c \in Device,
             Segment[d] = Segment[c], Beating(c)'
      PROVE  age'[d][c] <= losses' + Due(c)'
  <2>1. up[c] /\ tick'[c] # "cancelled" /\ ~changed[c] /\ tick[c] # "due"
    BY <1>1, <1>4 DEF Beating
  <2>2. /\ tick \in [Device -> {"due", "later", "cancelled"}]
        /\ losses \in Nat /\ age[d][c] \in Int
    BY Numbers
  <2>3. tick[c] = "later" /\ tick'[c] = "due"
    BY <1>1, <2>1, <2>2
  <2>4. age[d][c] <= losses + Due(c)
    BY <1>4, <2>1, <2>3 DEF BeatInv, Young, Beating
  <2>5. Due(c) = 0 /\ Due(c)' = 1
    BY <2>3 DEF Due
  <2> HIDE DEF Due
  <2> QED
    BY <1>1, <1>2, <2>2, <2>4, <2>5 DEF Gone
<1>5. crashes = 0 => \A d \in Device : up'[d]
  BY <1>1 DEF BeatInv
<1> QED
  BY <1>1, <1>3, <1>4, <1>5 DEF BeatInv, Young

LEMMA BeatOfRest ==
  ASSUME Typed, BeatInv, NEW a \in Device,
         \/ InterfacesChange(a) \/ RelayRegisters(a) \/ RelayUnregisters(a)
         \/ UNCHANGED vars
  PROVE  BeatInv'
<1>1. up' = up /\ tick' = tick /\ age' = age /\ losses' = losses /\ crashes' = crashes
  BY DEF InterfacesChange, RelayRegisters, RelayUnregisters, counters, vars
<1>2. \A c \in Device : changed[c] => changed'[c]
  BY Numbers DEF InterfacesChange, RelayRegisters, RelayUnregisters, vars
<1>3. \A c \in Device : Beating(c)' => Beating(c) /\ tick'[c] = tick[c]
  BY <1>1, <1>2 DEF Beating
<1>4. losses' \in Nat /\ losses' >= losses
  BY <1>1, Numbers
<1> QED
  BY <1>1, <1>3, <1>4, YoungerStep

LEMMA BeatStep ==
  ASSUME Typed, BeatInv, [Next]_vars
  PROVE  BeatInv'
<1>1. ASSUME NEW a \in Device, Tick(a) \/ Scan(a) \/ PruneStalePeers(a)
      PROVE  BeatInv'
  BY <1>1, BeatOfTick, BeatOfScan, BeatOfPrune
<1>2. ASSUME NEW a \in Device, Crash(a) \/ StartOnIo(a)
      PROVE  BeatInv'
  BY <1>2, BeatOfProcesses
<1>3. ASSUME NEW a \in Device, NEW b \in Device,
             \/ RelayPeerOnline(a, b) \/ RelayPeerOffline(a, b) \/ FrameArrives(a, b)
      PROVE  BeatInv'
  BY <1>3, BeatOfRelay
<1>4. ASSUME NEW a \in Device,
             InterfacesChange(a) \/ RelayRegisters(a) \/ RelayUnregisters(a)
      PROVE  BeatInv'
  BY <1>4, BeatOfRest
<1>5. CASE Elapse
  BY <1>5, BeatOfTime
<1>6. CASE UNCHANGED vars
  <2>1. BeatInv' = BeatInv
    BY <1>6 DEF vars, relay, counters, BeatInv, NotItself, Young, Beating, Due
  <2> QED
    BY <2>1
<1> QED
  BY <1>1, <1>2, <1>3, <1>4, <1>5, <1>6 DEF Next, Timers, Outside, RelayEvents, Frames

(* While one presence was lost, pruning leaves the record of a beating     *)
(* peer: it is at most two beats old.                                      *)
LEMMA PruningSpares ==
  ASSUME Timeout >= 3, Typed, BeatInv,
         NEW a \in Device, NEW b \in Device,
         losses <= 1, crashes = 0, PruneStalePeers(a), Beating(b),
         Segment[a] = Segment[b], age[a][b] # Gone
  PROVE  age'[a][b] # Gone
<1>1. age[a][b] <= losses + Due(b)
  BY DEF BeatInv, Young
<1>2. age[a][b] < Timeout /\ age[a][b] \in Int
  BY <1>1, Numbers, PresenceAssumption
<1>3. age \in [Device -> [Device -> Age]]
  BY Numbers
<1>4. PICK kept \in SUBSET Device :
        LET table == [age EXCEPT ![a] = PruneStale(@, kept)]
        IN  IF changed[a]
            THEN \E R \in SUBSET Listeners(a) : AnnounceTo(a, R, TRUE, table)
            ELSE age' = table
  BY DEF PruneStalePeers
<1> DEFINE table == [age EXCEPT ![a] = PruneStale(@, kept)]
<1>5. table[a][b] = age[a][b]
  <2>1. PruneStale(age[a], kept)[b] = age[a][b]
    BY <1>2, PresenceAssumption DEF PruneStale
  <2> QED
    BY <1>3, <2>1
<1>6. CASE changed[a]
  <2>1. PICK R \in SUBSET Listeners(a) : AnnounceTo(a, R, TRUE, table)
    BY <1>4, <1>6
  <2> HIDE DEF table
  <2>2. age' = [d \in Device |-> IF d \in R THEN [table[d] EXCEPT ![a] = 0]
                                ELSE table[d]]
    BY <2>1 DEF AnnounceTo
  <2>3. a \notin R
    BY OwnListener
  <2> QED
    BY <1>5, <2>2, <2>3
<1>7. CASE ~changed[a]
  <2>1. age' = table
    BY <1>4, <1>7
  <2> HIDE DEF table
  <2> QED
    BY <1>5, <2>1
<1> QED
  BY <1>6, <1>7

(***************************************************************************)
(* The race of the timers: with a timeout of three beats or more (the code *)
(* has 15 s and 5 s) and one presence lost, PruneStalePeers never takes a  *)
(* beating peer of the segment off the roster.                             *)
(***************************************************************************)
THEOREM LossTolerated ==
  ASSUME Timeout >= 3
  PROVE  Spec => OneLossIsHarmless
<1>1. Spec => []Typed
  BY Invariance, Types, PTL DEF Typed
<1>2. Init => BeatInv
  <2> SUFFICES ASSUME Init PROVE BeatInv
    OBVIOUS
  <2>1. /\ \A a, b \in Device : age[a][b] = Gone
        /\ \A d \in Device : up[d] /\ tick[d] = "later"
        /\ losses = 0
    BY DEF Init
  <2> QED
    BY <2>1 DEF BeatInv, NotItself, Young, Due, Gone
<1>3. Typed /\ BeatInv /\ [Next]_vars => BeatInv'
  BY BeatStep
<1>4. Typed /\ BeatInv /\ [Next]_vars =>
      [\A a, b \in Device :
         (/\ losses <= 1 /\ crashes = 0
          /\ PruneStalePeers(a) /\ Beating(b) /\ Segment[a] = Segment[b]
          /\ age[a][b] # Gone) => age'[a][b] # Gone]_vars
  BY PruningSpares
<1> QED
  BY <1>1, <1>2, <1>3, <1>4, PTL DEF Spec, OneLossIsHarmless

-----------------------------------------------------------------------------
(* The member tables of a room.                                            *)

(* What else is needed: no daemon is in its own registry, none signals     *)
(* itself, and only the owner sends tables and departures, so nothing but  *)
(* its channel to a daemon and the daemon's own requests change the        *)
(* daemon's table.                                                         *)
ChannelTypes ==
  /\ members \in [Daemon -> SUBSET Daemon]
  /\ sees \in [Daemon -> SUBSET Daemon]
  /\ \A d \in Daemon : d \notin sees[d]
  /\ net \in [Daemon -> [Daemon -> Seq(Signal)]]

OwnerSends(n) ==
  /\ \A a \in Daemon : n[a][a] = <<>>
  /\ \A a, b \in Daemon \ {Owner} : n[a][b] = <<>>
  /\ \A a \in Daemon \ {Owner} : \A i \in 1..Len(n[a][Owner]) :
        n[a][Owner][i].m = "member_joined"
  /\ \A b \in Daemon : \A i \in 1..Len(n[Owner][b]) :
        n[Owner][b][i].m \in {"sync", "member_left"}

MeshInv == ChannelTypes /\ OwnerSends(net) /\ MeshAgrees

LEMMA TableType ==
  ASSUME NEW S \in SUBSET Daemon
  PROVE  Table(S) \in Signal /\ Table(S).m = "sync" /\ Table(S).members = S
BY RoomsAssumption DEF Table, Signal

LEMMA JoinedType ==
  ASSUME NEW d \in Daemon
  PROVE  /\ Joined(d) \in Signal /\ Joined(d).m = "member_joined"
         /\ Left(d) \in Signal /\ Left(d).m = "member_left"
BY DEF Joined, Left, Signal

(* Appending to a queue keeps its elements and ends it with the new one.   *)
LEMMA AppendLast ==
  ASSUME NEW q \in Seq(Signal), NEW s \in Signal
  PROVE  /\ Append(q, s) \in Seq(Signal)
         /\ Append(q, s) # <<>>
         /\ Len(Append(q, s)) = Len(q) + 1
         /\ Append(q, s)[Len(Append(q, s))] = s
         /\ \A i \in 1..Len(Append(q, s)) :
              Append(q, s)[i] = s \/ (i \in 1..Len(q) /\ Append(q, s)[i] = q[i])
OBVIOUS

(* Reading a queue leaves the elements behind the first.                   *)
LEMMA TailElements ==
  ASSUME NEW q \in Seq(Signal), q # <<>>
  PROVE  /\ Head(q) = q[1] /\ Head(q) \in Signal
         /\ 1 \in 1..Len(q)
         /\ Tail(q) \in Seq(Signal)
         /\ Len(Tail(q)) = Len(q) - 1
         /\ \A i \in 1..Len(Tail(q)) : i + 1 \in 1..Len(q) /\ Tail(q)[i] = q[i + 1]
         /\ Tail(q) # <<>> => Tail(q)[Len(Tail(q))] = q[Len(q)]
         /\ Tail(q) = <<>> => q[Len(q)] = Head(q)
<1>1. Len(q) \in Nat \ {0}
  BY EmptySeq
<1>2. Head(q) = q[1] /\ Tail(q) \in Seq(Signal) /\ Len(Tail(q)) = Len(q) - 1
  BY <1>1
<1>3. \A i \in 1..Len(Tail(q)) : i + 1 \in 1..Len(q) /\ Tail(q)[i] = q[i + 1]
  BY <1>1, <1>2
<1>4. Tail(q) # <<>> => Len(Tail(q)) \in 1..Len(Tail(q))
  BY <1>2
<1>5. Tail(q) = <<>> => Len(q) = 1
  BY <1>1, <1>2
<1> QED
  BY <1>1, <1>2, <1>3, <1>4, <1>5

(***************************************************************************)
(* The fan-outs of the owner: n and ms are the channels and the missed     *)
(* set it leaves; the signal before the table is the table itself, to an   *)
(* excluded member, or a departure.                                        *)
(***************************************************************************)
FanOutAdded(peers, S, exclude, first, s, added) ==
  /\ peers \in SUBSET Daemon /\ S \in SUBSET Daemon
  /\ exclude \in Daemon /\ s \in Signal
  /\ s = Table(S) \/ s.m = "member_left"
  /\ \A d \in Daemon : first[d] \in {<<>>, <<s>>}
  /\ \A d \in Daemon : d # exclude \/ d = Owner => first[d] = <<>>
  /\ s = Table(S) => exclude \in S
  /\ added = [d \in Daemon |-> IF d \in (S \cap peers) \ {Owner, exclude}
                               THEN Append(first[d], Table(S)) ELSE first[d]]

ChannelsAfter(base, added, n) ==
  /\ base \in [Daemon -> [Daemon -> Seq(Signal)]]
  /\ n = [base EXCEPT ![Owner] = [d \in Daemon |-> base[Owner][d] \o added[d]]]

(* It adds nothing, the table or the departure to a channel, and whoever   *)
(* it does not add the table for has missed it.                            *)
LEMMA FanOutAdds ==
  ASSUME NEW peers, NEW S, NEW exclude, NEW first, NEW s, NEW added,
         FanOutAdded(peers, S, exclude, first, s, added)
  PROVE  /\ \A d \in Daemon : added[d] \in {<<>>, <<Table(S)>>, <<s>>}
         /\ added[Owner] = <<>>
         /\ \A d \in Daemon :
               Table(S) \in Range(added[d]) <=> added[d] = <<Table(S)>>
         /\ \A d \in Daemon : added[d] = <<Table(S)>> => d \in S
<1> USE DEF FanOutAdded
<1> DEFINE reached == (S \cap peers) \ {Owner, exclude}
<1>2. ASSUME NEW d \in Daemon
      PROVE  added[d] = IF d \in reached THEN <<Table(S)>> ELSE first[d]
  <2>1. CASE d \in reached
    <3>1. first[d] = <<>>
      BY <2>1
    <3>2. Append(<<>>, Table(S)) = <<Table(S)>>
      OBVIOUS
    <3>3. added[d] = Append(first[d], Table(S))
      BY <2>1
    <3> QED
      BY <2>1, <3>1, <3>2, <3>3
  <2>2. CASE d \notin reached
    BY <2>2
  <2> QED
    BY <2>1, <2>2
<1>3. \A d \in Daemon : added[d] \in {<<>>, <<Table(S)>>, <<s>>}
  BY <1>2
<1>4. ASSUME NEW d \in Daemon
      PROVE  Table(S) \in Range(added[d]) <=> added[d] = <<Table(S)>>
  <2>1. Range(<<>>) = {} /\ Range(<<s>>) = {s} /\ Range(<<Table(S)>>) = {Table(S)}
    BY DEF Range
  <2>2. added[d] \in {<<>>, <<Table(S)>>, <<s>>}
    BY <1>3
  <2>3. s # Table(S) => <<s>> # <<Table(S)>>
    <3>1. <<s>>[1] = s /\ <<Table(S)>>[1] = Table(S)
      OBVIOUS
    <3> QED
      BY <3>1
  <2>4. <<>> # <<Table(S)>>
    OBVIOUS
  <2> QED
    BY <2>1, <2>2, <2>3, <2>4
<1>5. added[Owner] = <<>>
  BY <1>2, RoomsAssumption
<1>6. ASSUME NEW d \in Daemon, added[d] = <<Table(S)>>
      PROVE  d \in S
  <2>1. CASE d \in reached
    BY <2>1
  <2>2. CASE d \notin reached
    <3>1. first[d] = <<Table(S)>>
      BY <1>2, <1>6, <2>2
    <3>2. first[d] = <<s>> /\ d = exclude
      <4>1. <<Table(S)>> # <<>>
        OBVIOUS
      <4> QED
        BY <3>1, <4>1
    <3>3. s = Table(S)
      <4>1. <<s>>[1] = <<Table(S)>>[1]
        BY <3>1, <3>2
      <4> QED
        BY <4>1
    <3> QED
      BY <3>2, <3>3
  <2> QED
    BY <2>1, <2>2
<1> QED
  BY <1>3, <1>4, <1>5, <1>6

(* It keeps the owner's channels in order.                                 *)
LEMMA FanOutKeeps ==
  ASSUME NEW peers, NEW S, NEW exclude, NEW first, NEW s, NEW added,
         FanOutAdded(peers, S, exclude, first, s, added),
         NEW base, NEW n, ChannelsAfter(base, added, n), OwnerSends(base)
  PROVE  /\ n \in [Daemon -> [Daemon -> Seq(Signal)]]
         /\ OwnerSends(n)
         /\ \A d \in Daemon : added[d] = <<Table(S)>> =>
               n[Owner][d] # <<>> /\ n[Owner][d][Len(n[Owner][d])] = Table(S)
<1> DEFINE row == [d \in Daemon |-> base[Owner][d] \o added[d]]
<1>1. /\ S \in SUBSET Daemon /\ s \in Signal
      /\ s = Table(S) \/ s.m = "member_left"
      /\ base \in [Daemon -> [Daemon -> Seq(Signal)]]
      /\ n = [base EXCEPT ![Owner] = row]
  BY DEF FanOutAdded, ChannelsAfter
<1>2. /\ \A d \in Daemon : added[d] \in {<<>>, <<Table(S)>>, <<s>>}
      /\ added[Owner] = <<>>
  BY FanOutAdds
<1>3. /\ s.m \in {"sync", "member_left"}
      /\ Table(S) \in Signal /\ Table(S).m = "sync"
  BY <1>1, TableType
<1>4. /\ Owner \in Daemon
      /\ \A d \in Daemon : base[Owner][d] \in Seq(Signal)
      /\ \A d \in Daemon : \A i \in 1..Len(base[Owner][d]) :
            base[Owner][d][i].m \in {"sync", "member_left"}
  BY <1>1, RoomsAssumption DEF OwnerSends
<1>5. ASSUME NEW q \in Seq(Signal), NEW e,
             e \in {<<>>, <<Table(S)>>, <<s>>},
             \A i \in 1..Len(q) : q[i].m \in {"sync", "member_left"}
      PROVE  /\ q \o e \in Seq(Signal)
             /\ \A i \in 1..Len(q \o e) : (q \o e)[i].m \in {"sync", "member_left"}
             /\ e = <<Table(S)>> =>
                  q \o e # <<>> /\ (q \o e)[Len(q \o e)] = Table(S)
             /\ e = <<>> => q \o e = q
  <2>1. CASE e = <<>>
    <3>1. q \o e = q
      BY <2>1
    <3>2. <<>> # <<Table(S)>>
      OBVIOUS
    <3> QED
      BY <1>5, <2>1, <3>1, <3>2
  <2>2. CASE e # <<>>
    <3>1. PICK r \in Signal : e = <<r>> /\ r.m \in {"sync", "member_left"}
      BY <1>1, <1>3, <1>5, <2>2
    <3>2. q \o e = Append(q, r)
      BY <3>1
    <3>3. /\ Append(q, r) \in Seq(Signal) /\ Append(q, r) # <<>>
          /\ Append(q, r)[Len(Append(q, r))] = r
          /\ \A i \in 1..Len(Append(q, r)) :
                Append(q, r)[i] = r \/ (i \in 1..Len(q) /\ Append(q, r)[i] = q[i])
      BY AppendLast
    <3>4. \A i \in 1..Len(Append(q, r)) : Append(q, r)[i].m \in {"sync", "member_left"}
      BY <1>5, <3>1, <3>3
    <3>5. e = <<Table(S)>> => r = Table(S)
      <4>1. <<r>>[1] = r /\ <<Table(S)>>[1] = Table(S)
        OBVIOUS
      <4> QED
        BY <3>1, <4>1
    <3> QED
      BY <2>2, <3>2, <3>3, <3>4, <3>5
  <2> QED
    BY <2>1, <2>2
<1>6. ASSUME NEW d \in Daemon
      PROVE  /\ base[Owner][d] \o added[d] \in Seq(Signal)
             /\ \A i \in 1..Len(base[Owner][d] \o added[d]) :
                  (base[Owner][d] \o added[d])[i].m \in {"sync", "member_left"}
             /\ added[d] = <<Table(S)>> =>
                  /\ base[Owner][d] \o added[d] # <<>>
                  /\ (base[Owner][d] \o added[d])[Len(base[Owner][d] \o added[d])]
                       = Table(S)
             /\ added[d] = <<>> => base[Owner][d] \o added[d] = base[Owner][d]
  <2>1. base[Owner][d] \in Seq(Signal) /\ added[d] \in {<<>>, <<Table(S)>>, <<s>>}
    BY <1>2, <1>4
  <2>2. \A i \in 1..Len(base[Owner][d]) :
          base[Owner][d][i].m \in {"sync", "member_left"}
    BY <1>4
  <2> QED
    BY <1>5, <2>1, <2>2
<1>7. /\ row \in [Daemon -> Seq(Signal)]
      /\ \A d \in Daemon : row[d] = base[Owner][d] \o added[d]
  BY <1>6
<1> HIDE DEF row
<1>8. /\ n \in [Daemon -> [Daemon -> Seq(Signal)]]
      /\ n[Owner] = row
      /\ \A a \in Daemon \ {Owner} : n[a] = base[a]
  BY <1>1, <1>4, <1>7
<1>9. n[Owner][Owner] = <<>>
  <2>1. base[Owner][Owner] = <<>>
    BY <1>4 DEF OwnerSends
  <2> QED
    BY <1>2, <1>4, <1>6, <1>7, <1>8, <2>1
<1>10. \A d \in Daemon : \A i \in 1..Len(n[Owner][d]) :
         n[Owner][d][i].m \in {"sync", "member_left"}
  BY <1>6, <1>7, <1>8
<1>11. OwnerSends(n)
  <2>1. /\ \A a \in Daemon : base[a][a] = <<>>
        /\ \A a, b \in Daemon \ {Owner} : base[a][b] = <<>>
        /\ \A a \in Daemon \ {Owner} : \A i \in 1..Len(base[a][Owner]) :
              base[a][Owner][i].m = "member_joined"
    BY DEF OwnerSends
  <2>2. \A a \in Daemon : n[a][a] = <<>>
    BY <1>8, <1>9, <2>1
  <2>3. \A a, b \in Daemon \ {Owner} : n[a][b] = <<>>
    BY <1>8, <2>1
  <2>4. \A a \in Daemon \ {Owner} : \A i \in 1..Len(n[a][Owner]) :
          n[a][Owner][i].m = "member_joined"
    BY <1>8, <2>1
  <2> QED
    BY <1>10, <2>2, <2>3, <2>4 DEF OwnerSends
<1> QED
  BY <1>6, <1>7, <1>8, <1>11

(***************************************************************************)
(* Taking a signal off a channel: every signal comes from the owner or     *)
(* goes to it.                                                             *)
(***************************************************************************)
TakenFrom(n, a, b, r) ==
  /\ n \in [Daemon -> [Daemon -> Seq(Signal)]]
  /\ a \in Daemon /\ b \in Daemon /\ n[a][b] # <<>>
  /\ r = [n EXCEPT ![a][b] = Tail(@)]

LEMMA TailKeeps ==
  ASSUME NEW n, NEW a, NEW b, NEW r, TakenFrom(n, a, b, r), OwnerSends(n)
  PROVE  /\ r \in [Daemon -> [Daemon -> Seq(Signal)]]
         /\ OwnerSends(r)
         /\ a # b
         /\ Head(n[a][b]) \in Signal
         /\ a # Owner => b = Owner /\ Head(n[a][b]).m = "member_joined"
         /\ a = Owner => Head(n[a][b]).m \in {"sync", "member_left"}
         /\ a # Owner => r[Owner] = n[Owner]
         /\ a = Owner => r[Owner][b] = Tail(n[Owner][b])
         /\ \A d \in Daemon \ {b} : r[Owner][d] = n[Owner][d]
<1>1. /\ n \in [Daemon -> [Daemon -> Seq(Signal)]]
      /\ a \in Daemon /\ b \in Daemon /\ n[a][b] # <<>>
      /\ r = [n EXCEPT ![a][b] = Tail(@)]
      /\ Owner \in Daemon
      /\ n[a][b] \in Seq(Signal)
  BY RoomsAssumption DEF TakenFrom
<1>2. /\ Head(n[a][b]) = n[a][b][1] /\ Head(n[a][b]) \in Signal
      /\ 1 \in 1..Len(n[a][b])
      /\ Tail(n[a][b]) \in Seq(Signal)
      /\ \A i \in 1..Len(Tail(n[a][b])) :
            i + 1 \in 1..Len(n[a][b]) /\ Tail(n[a][b])[i] = n[a][b][i + 1]
  BY <1>1, TailElements
<1>3. /\ \A c \in Daemon : n[c][c] = <<>>
      /\ \A c, d \in Daemon \ {Owner} : n[c][d] = <<>>
      /\ \A c \in Daemon \ {Owner} : \A i \in 1..Len(n[c][Owner]) :
            n[c][Owner][i].m = "member_joined"
      /\ \A d \in Daemon : \A i \in 1..Len(n[Owner][d]) :
            n[Owner][d][i].m \in {"sync", "member_left"}
  BY DEF OwnerSends
<1>4. a # b /\ (a # Owner => b = Owner)
  BY <1>1, <1>3
<1>5. /\ a # Owner => Head(n[a][b]).m = "member_joined"
      /\ a = Owner => Head(n[a][b]).m \in {"sync", "member_left"}
  BY <1>1, <1>2, <1>3, <1>4
<1>6. /\ r \in [Daemon -> [Daemon -> Seq(Signal)]]
      /\ r[a][b] = Tail(n[a][b])
      /\ \A c, d \in Daemon : (c # a \/ d # b) => r[c][d] = n[c][d]
      /\ a # Owner => r[Owner] = n[Owner]
  BY <1>1, <1>2
<1>8. /\ a # Owner => \A i \in 1..Len(Tail(n[a][b])) :
                          Tail(n[a][b])[i].m = "member_joined"
      /\ a = Owner => \A i \in 1..Len(Tail(n[a][b])) :
                          Tail(n[a][b])[i].m \in {"sync", "member_left"}
  <2>1. CASE a # Owner
    <3>1. \A i \in 1..Len(n[a][b]) : n[a][b][i].m = "member_joined"
      BY <1>1, <1>3, <1>4, <2>1
    <3> QED
      BY <1>2, <2>1, <3>1
  <2>2. CASE a = Owner
    <3>1. \A i \in 1..Len(n[a][b]) : n[a][b][i].m \in {"sync", "member_left"}
      BY <1>1, <1>3, <2>2
    <3> QED
      BY <1>2, <2>2, <3>1
  <2> QED
    BY <2>1, <2>2
<1>7. OwnerSends(r)
  <2>1. ASSUME NEW c \in Daemon PROVE r[c][c] = <<>>
    <3>1. c # a \/ c # b
      BY <1>4
    <3>2. r[c][c] = n[c][c]
      BY <1>6, <3>1
    <3> QED
      BY <1>3, <3>2
  <2>2. ASSUME NEW c \in Daemon \ {Owner}, NEW d \in Daemon \ {Owner}
        PROVE  r[c][d] = <<>>
    <3>1. c # a \/ d # b
      BY <1>4
    <3>2. r[c][d] = n[c][d]
      BY <1>6, <3>1
    <3> QED
      BY <1>3, <3>2
  <2>3. ASSUME NEW c \in Daemon \ {Owner}, NEW i \in 1..Len(r[c][Owner])
        PROVE  r[c][Owner][i].m = "member_joined"
    <3>1. CASE c = a
      <4>1. a # Owner /\ b = Owner /\ r[c][Owner] = Tail(n[a][b])
        BY <1>4, <1>6, <3>1
      <4> QED
        BY <1>8, <2>3, <4>1
    <3>2. CASE c # a
      BY <1>1, <1>3, <1>6, <3>2
    <3> QED
      BY <3>1, <3>2
  <2>4. ASSUME NEW d \in Daemon, NEW i \in 1..Len(r[Owner][d])
        PROVE  r[Owner][d][i].m \in {"sync", "member_left"}
    <3>1. CASE a = Owner /\ d = b
      <4>1. r[Owner][d] = Tail(n[a][b])
        BY <1>6, <3>1
      <4> QED
        BY <1>8, <2>4, <3>1, <4>1
    <3>2. CASE ~(a = Owner /\ d = b)
      <4>1. r[Owner][d] = n[Owner][d]
        BY <1>1, <1>6, <3>2
      <4> QED
        BY <1>3, <4>1
    <3> QED
      BY <3>1, <3>2
  <2> QED
    BY <2>1, <2>2, <2>3, <2>4 DEF OwnerSends
<1> QED
  BY <1>1, <1>2, <1>4, <1>5, <1>6, <1>7

LEMMA MeshInit == RoomsInit => MeshInv
<1> SUFFICES ASSUME RoomsInit PROVE MeshInv
  OBVIOUS
<1>1. /\ members \in [Daemon -> SUBSET Daemon]
      /\ sees \in [Daemon -> SUBSET Daemon]
      /\ \A d \in Daemon : d \notin sees[d]
  BY DEF RoomsInit
<1>2. /\ net \in [Daemon -> [Daemon -> Seq(Signal)]]
      /\ \A a, b \in Daemon : net[a][b] = <<>> /\ Len(net[a][b]) = 0
  BY DEF RoomsInit
<1>3. OwnerSends(net)
  BY <1>2, RoomsAssumption DEF OwnerSends
<1>4. MeshAgrees
  BY DEF RoomsInit, MeshAgrees
<1> QED
  BY <1>1, <1>2, <1>3, <1>4 DEF MeshInv, ChannelTypes

(***************************************************************************)
(* A step of the owner that gives it the table S and fans it out keeps the *)
(* invariant.                                                              *)
(***************************************************************************)
LEMMA FanOutStep ==
  ASSUME NEW peers, NEW S, NEW exclude, NEW first, NEW s, NEW added, NEW base,
         FanOutAdded(peers, S, exclude, first, s, added),
         ChannelsAfter(base, added, net'), OwnerSends(base),
         \A d \in Daemon : d \notin missed' => Table(S) \in Range(added[d]),
         members' \in [Daemon -> SUBSET Daemon], members'[Owner] = S,
         sees' \in [Daemon -> SUBSET Daemon], \A d \in Daemon : d \notin sees'[d]
  PROVE  MeshInv'
<1>1. /\ net' \in [Daemon -> [Daemon -> Seq(Signal)]]
      /\ OwnerSends(net')
      /\ \A d \in Daemon : added[d] = <<Table(S)>> =>
            net'[Owner][d] # <<>> /\ net'[Owner][d][Len(net'[Owner][d])] = Table(S)
  BY FanOutKeeps
<1>2. /\ \A d \in Daemon :
            Table(S) \in Range(added[d]) <=> added[d] = <<Table(S)>>
      /\ \A d \in Daemon : added[d] = <<Table(S)>> => d \in S
  BY FanOutAdds
<1>3. ASSUME NEW d \in Daemon \ (missed' \cup {Owner})
      PROVE  /\ d \in members'[Owner]
             /\ net'[Owner][d] # <<>>
             /\ net'[Owner][d][Len(net'[Owner][d])] = Table(members'[Owner])
  <2>1. added[d] = <<Table(S)>>
    BY <1>2
  <2> QED
    BY <1>1, <1>2, <2>1
<1>4. MeshAgrees'
  BY <1>3 DEF MeshAgrees
<1>5. ChannelTypes'
  BY <1>1 DEF ChannelTypes
<1> QED
  BY <1>1, <1>4, <1>5 DEF MeshInv

(* Changes that leave the owner's table and its channels alone, and the    *)
(* tables of the members that have not missed it, keep the invariant.      *)
LEMMA LocalStep ==
  ASSUME MeshInv, OwnerSends(net'),
         net' \in [Daemon -> [Daemon -> Seq(Signal)]],
         members' \in [Daemon -> SUBSET Daemon],
         sees' \in [Daemon -> SUBSET Daemon], \A d \in Daemon : d \notin sees'[d],
         \A d \in Daemon \ (missed' \cup {Owner}) :
            /\ d \notin missed
            /\ net'[Owner][d] = net[Owner][d]
            /\ members'[Owner] = members[Owner]
            /\ d \in members[d] => members'[d] = members[d]
  PROVE  MeshInv'
<1>1. ASSUME NEW d \in Daemon \ (missed' \cup {Owner})
      PROVE  LET q == net'[Owner][d]
             IN  /\ d \in members'[Owner]
                 /\ IF q = <<>> THEN members'[d] = members'[Owner]
                    ELSE q[Len(q)] = Table(members'[Owner])
  <2>1. /\ d \in members[Owner]
        /\ IF net[Owner][d] = <<>> THEN members[d] = members[Owner]
           ELSE net[Owner][d][Len(net[Owner][d])] = Table(members[Owner])
    BY DEF MeshInv, MeshAgrees
  <2>2. /\ net'[Owner][d] = net[Owner][d]
        /\ members'[Owner] = members[Owner]
        /\ d \in members[d] => members'[d] = members[d]
    OBVIOUS
  <2>3. CASE net[Owner][d] = <<>>
    <3>1. members'[d] = members[d]
      BY <2>1, <2>2, <2>3
    <3> QED
      BY <2>1, <2>2, <2>3, <3>1
  <2>4. CASE net[Owner][d] # <<>>
    BY <2>1, <2>2, <2>4
  <2> QED
    BY <2>3, <2>4
<1>2. MeshAgrees'
  BY <1>1 DEF MeshAgrees
<1> QED
  BY <1>2 DEF MeshInv, ChannelTypes

(* A daemon takes a signal of the owner: if the owner's table is not still *)
(* behind it, the daemon has that table or has missed it.                  *)
LEMMA ReadStep ==
  ASSUME MeshInv, NEW b, TakenFrom(net, Owner, b, net'),
         members' \in [Daemon -> SUBSET Daemon],
         sees' \in [Daemon -> SUBSET Daemon], \A d \in Daemon : d \notin sees'[d],
         members'[Owner] = members[Owner],
         \A d \in Daemon \ {b, Owner} : members'[d] = members[d],
         missed \subseteq missed',
         \/ b \in missed'
         \/ Tail(net[Owner][b]) # <<>>
         \/ members'[b] = members[Owner]
  PROVE  MeshInv'
<1>1. /\ net' \in [Daemon -> [Daemon -> Seq(Signal)]]
      /\ OwnerSends(net')
      /\ net'[Owner][b] = Tail(net[Owner][b])
      /\ \A d \in Daemon \ {b} : net'[Owner][d] = net[Owner][d]
  BY TailKeeps DEF MeshInv
<1>2. b \in Daemon /\ net[Owner][b] # <<>> /\ net[Owner][b] \in Seq(Signal)
  BY DEF TakenFrom
<1>3. ASSUME NEW d \in Daemon \ (missed' \cup {Owner})
      PROVE  LET q == net'[Owner][d]
             IN  /\ d \in members'[Owner]
                 /\ IF q = <<>> THEN members'[d] = members'[Owner]
                    ELSE q[Len(q)] = Table(members'[Owner])
  <2>1. /\ d \in members[Owner]
        /\ IF net[Owner][d] = <<>> THEN members[d] = members[Owner]
           ELSE net[Owner][d][Len(net[Owner][d])] = Table(members[Owner])
    BY DEF MeshInv, MeshAgrees
  <2>2. CASE d = b
    <3>1. net[Owner][b][Len(net[Owner][b])] = Table(members[Owner])
      BY <1>2, <2>1, <2>2
    <3>2. CASE Tail(net[Owner][b]) = <<>>
      BY <1>1, <2>1, <2>2, <3>2
    <3>3. CASE Tail(net[Owner][b]) # <<>>
      <4>1. Tail(net[Owner][b])[Len(Tail(net[Owner][b]))]
              = net[Owner][b][Len(net[Owner][b])]
        BY <1>2, <3>3, TailElements
      <4> QED
        BY <1>1, <2>1, <2>2, <3>1, <3>3, <4>1
    <3> QED
      BY <3>2, <3>3
  <2>3. CASE d # b
    <3>1. net'[Owner][d] = net[Owner][d] /\ members'[d] = members[d]
      BY <1>1, <2>3
    <3> QED
      BY <2>1, <3>1
  <2> QED
    BY <2>2, <2>3
<1>4. MeshAgrees'
  BY <1>3 DEF MeshAgrees
<1> QED
  BY <1>1, <1>4 DEF MeshInv, ChannelTypes

(* Requests of the WebUI. *)

LEMMA CreateStep == MeshInv /\ Create => MeshInv'
<1> SUFFICES ASSUME MeshInv, Create PROVE MeshInv'
  OBVIOUS
<1>1. /\ members' \in [Daemon -> SUBSET Daemon]
      /\ net' = net /\ sees' = sees /\ missed' = Daemon
  BY RoomsAssumption DEF MeshInv, ChannelTypes, Create
<1>2. /\ OwnerSends(net) /\ net \in [Daemon -> [Daemon -> Seq(Signal)]]
      /\ sees \in [Daemon -> SUBSET Daemon] /\ \A d \in Daemon : d \notin sees[d]
  BY DEF MeshInv, ChannelTypes
<1> QED
  BY <1>1, <1>2, LocalStep

LEMMA JoinStep ==
  ASSUME MeshInv, NEW d \in Daemon, Join(d)
  PROVE  MeshInv'
<1>1. /\ members \in [Daemon -> SUBSET Daemon]
      /\ net \in [Daemon -> [Daemon -> Seq(Signal)]]
      /\ sees \in [Daemon -> SUBSET Daemon] /\ \A e \in Daemon : e \notin sees[e]
      /\ OwnerSends(net) /\ Owner \in Daemon
  BY RoomsAssumption DEF MeshInv, ChannelTypes
<1>2. /\ members' = [members EXCEPT ![d] = @ \cup {d}]
      /\ sees' = sees
      /\ missed' = IF d = Owner /\ d \notin members[d] THEN Daemon ELSE missed
      /\ net' = IF d # Owner /\ Owner \in sees[d]
                THEN [net EXCEPT ![d][Owner] = Append(@, Joined(d))] ELSE net
  BY DEF Join
<1>3. members' \in [Daemon -> SUBSET Daemon]
  BY <1>1, <1>2
<1>4. /\ net' \in [Daemon -> [Daemon -> Seq(Signal)]]
      /\ OwnerSends(net')
      /\ net'[Owner] = net[Owner]
  <2>1. CASE ~(d # Owner /\ Owner \in sees[d])
    <3>1. net' = net
      BY <1>2, <2>1
    <3> QED
      BY <1>1, <3>1
  <2>2. CASE d # Owner /\ Owner \in sees[d]
    <3> DEFINE q == Append(net[d][Owner], Joined(d))
    <3>1. /\ q \in Seq(Signal)
          /\ \A i \in 1..Len(q) : q[i] = Joined(d) \/
               (i \in 1..Len(net[d][Owner]) /\ q[i] = net[d][Owner][i])
      <4>1. net[d][Owner] \in Seq(Signal) /\ Joined(d) \in Signal
        BY <1>1, JoinedType
      <4> QED
        BY <4>1, AppendLast
    <3>2. net' = [net EXCEPT ![d][Owner] = q]
      BY <1>2, <2>2
    <3>3. \A i \in 1..Len(q) : q[i].m = "member_joined"
      <4>1. \A i \in 1..Len(net[d][Owner]) : net[d][Owner][i].m = "member_joined"
        BY <1>1, <2>2 DEF OwnerSends
      <4> QED
        BY <3>1, <4>1, JoinedType
    <3> HIDE DEF q
    <3>4. /\ net' \in [Daemon -> [Daemon -> Seq(Signal)]]
          /\ net'[d][Owner] = q
          /\ \A a \in Daemon \ {d} : net'[a] = net[a]
          /\ \A b \in Daemon \ {Owner} : net'[d][b] = net[d][b]
      BY <1>1, <3>1, <3>2
    <3>5. \A a \in Daemon : net'[a][a] = <<>>
      BY <1>1, <2>2, <3>4 DEF OwnerSends
    <3>6. \A a, b \in Daemon \ {Owner} : net'[a][b] = <<>>
      <4>1. ASSUME NEW a \in Daemon \ {Owner}, NEW b \in Daemon \ {Owner}
            PROVE  net'[a][b] = net[a][b]
        BY <3>4
      <4> QED
        BY <1>1, <4>1 DEF OwnerSends
    <3>7. ASSUME NEW a \in Daemon \ {Owner}, NEW i \in 1..Len(net'[a][Owner])
          PROVE  net'[a][Owner][i].m = "member_joined"
      <4>1. CASE a = d
        BY <3>3, <3>4, <3>7, <4>1
      <4>2. CASE a # d
        <5>1. net'[a] = net[a]
          BY <3>4, <4>2
        <5> QED
          BY <1>1, <3>7, <5>1 DEF OwnerSends
      <4> QED
        BY <4>1, <4>2
    <3>8. net'[Owner] = net[Owner]
      BY <1>1, <2>2, <3>4
    <3>9. OwnerSends(net')
      BY <1>1, <3>5, <3>6, <3>7, <3>8 DEF OwnerSends
    <3> QED
      BY <3>4, <3>8, <3>9
  <2> QED
    BY <2>1, <2>2
<1>5. ASSUME NEW e \in Daemon \ (missed' \cup {Owner})
      PROVE  /\ e \notin missed
             /\ members'[Owner] = members[Owner]
             /\ e \in members[e] => members'[e] = members[e]
  BY <1>1, <1>2
<1> QED
  BY <1>1, <1>2, <1>3, <1>4, <1>5, LocalStep

LEMMA LeaveStep ==
  ASSUME MeshInv, NEW d \in Daemon, Leave(d)
  PROVE  MeshInv'
<1>1. /\ members \in [Daemon -> SUBSET Daemon]
      /\ net \in [Daemon -> [Daemon -> Seq(Signal)]]
      /\ sees \in [Daemon -> SUBSET Daemon] /\ \A e \in Daemon : e \notin sees[e]
      /\ OwnerSends(net) /\ Owner \in Daemon
  BY RoomsAssumption DEF MeshInv, ChannelTypes
<1>2. /\ members' = [members EXCEPT ![d] = @ \ {d}]
      /\ sees' = sees
  BY DEF Leave, LeaveRoom
<1>3. /\ members' \in [Daemon -> SUBSET Daemon] /\ members'[d] = members[d] \ {d}
      /\ sees' \in [Daemon -> SUBSET Daemon] /\ \A e \in Daemon : e \notin sees'[e]
  BY <1>1, <1>2
<1>4. CASE d = Owner
  <2> DEFINE S == members[d] \ {d}
             s == Left(d)
             added == [e \in Daemon |-> IF e \in (S \cap sees[d]) \ {Owner, Owner}
                                       THEN Append(NoSignal[e], Table(S))
                                       ELSE NoSignal[e]]
  <2>1. FanOutRoomSync(net, sees[d], S, Owner, NoSignal)
    BY <1>4 DEF Leave
  <2>2. /\ ChannelsAfter(net, added, net')
        /\ \A e \in Daemon : e \notin missed' => Table(S) \in Range(added[e])
    BY <1>1, <2>1 DEF FanOutRoomSync, ChannelsAfter
  <2>3. FanOutAdded(sees[d], S, Owner, NoSignal, s, added)
    <3>1. s \in Signal /\ s.m = "member_left" /\ s # Table(S)
      <4>1. S \in SUBSET Daemon
        BY <1>1
      <4> HIDE DEF S
      <4> QED
        BY <4>1, JoinedType, TableType
    <3>2. \A e \in Daemon : NoSignal[e] = <<>>
      BY DEF NoSignal
    <3>3. S \in SUBSET Daemon /\ sees[d] \in SUBSET Daemon
      BY <1>1
    <3> HIDE DEF S, s
    <3> QED
      BY <1>1, <3>1, <3>2, <3>3 DEF FanOutAdded
  <2>4. members'[Owner] = S
    BY <1>3, <1>4
  <2> HIDE DEF S, s, added
  <2> QED
    BY <1>1, <1>2, <1>3, <2>2, <2>3, <2>4, FanOutStep
<1>5. CASE d # Owner
  <2>1. missed' = missed \cup {d} /\ net' = net
    BY <1>5 DEF Leave
  <2>2. \A e \in Daemon \ (missed' \cup {Owner}) :
           e \notin missed /\ members'[Owner] = members[Owner] /\ members'[e] = members[e]
    BY <1>1, <1>2, <1>5, <2>1
  <2> QED
    BY <1>1, <1>2, <1>3, <2>1, <2>2, LocalStep
<1> QED
  BY <1>4, <1>5

LEMMA InviteStep ==
  ASSUME MeshInv, NEW t \in Daemon, Invite(t)
  PROVE  MeshInv'
<1> DEFINE S == members[Owner] \cup {t}
           s == Table(S)
           first == SignalIfSeen(Owner, t, s)
           added == [e \in Daemon |-> IF e \in (S \cap sees[Owner]) \ {Owner, t}
                                     THEN Append(first[e], Table(S)) ELSE first[e]]
<1>1. /\ members \in [Daemon -> SUBSET Daemon]
      /\ net \in [Daemon -> [Daemon -> Seq(Signal)]]
      /\ sees \in [Daemon -> SUBSET Daemon] /\ \A e \in Daemon : e \notin sees[e]
      /\ OwnerSends(net) /\ Owner \in Daemon
      /\ S \in SUBSET Daemon /\ sees[Owner] \in SUBSET Daemon
  BY RoomsAssumption DEF MeshInv, ChannelTypes
<1>2. members' = [members EXCEPT ![Owner] = S] /\ sees' = sees
  BY DEF Invite
<1>3. /\ members' \in [Daemon -> SUBSET Daemon] /\ members'[Owner] = S
      /\ sees' \in [Daemon -> SUBSET Daemon] /\ \A e \in Daemon : e \notin sees'[e]
  BY <1>1, <1>2
<1>4. /\ ChannelsAfter(net, added, net')
      /\ \A e \in Daemon : e \notin missed' => Table(S) \in Range(added[e])
  BY <1>1 DEF Invite, FanOutRoomSync, ChannelsAfter
<1>5. FanOutAdded(sees[Owner], S, t, first, s, added)
  <2>1. s \in Signal /\ t \in S
    BY <1>1, TableType
  <2>2. /\ \A d \in Daemon : first[d] \in {<<>>, <<s>>}
        /\ \A d \in Daemon : d # t \/ d = Owner => first[d] = <<>>
    BY <1>1 DEF SignalIfSeen
  <2>3. s = Table(S)
    OBVIOUS
  <2> HIDE DEF S, s, first
  <2> QED
    BY <1>1, <2>1, <2>2, <2>3 DEF FanOutAdded
<1> HIDE DEF S, s, first, added
<1> QED
  BY <1>1, <1>2, <1>3, <1>4, <1>5, FanOutStep

LEMMA KickStep ==
  ASSUME MeshInv, NEW t \in Daemon, Kick(t)
  PROVE  MeshInv'
<1> DEFINE S == members[Owner] \ {t}
           s == Left(t)
           first == SignalIfSeen(Owner, t, s)
           added == [e \in Daemon |-> IF e \in (S \cap sees[Owner]) \ {Owner, t}
                                     THEN Append(first[e], Table(S)) ELSE first[e]]
<1>1. /\ members \in [Daemon -> SUBSET Daemon]
      /\ net \in [Daemon -> [Daemon -> Seq(Signal)]]
      /\ sees \in [Daemon -> SUBSET Daemon] /\ \A e \in Daemon : e \notin sees[e]
      /\ OwnerSends(net) /\ Owner \in Daemon
      /\ S \in SUBSET Daemon /\ sees[Owner] \in SUBSET Daemon
  BY RoomsAssumption DEF MeshInv, ChannelTypes
<1>2. members' = [members EXCEPT ![Owner] = S] /\ sees' = sees
  BY DEF Kick
<1>3. /\ members' \in [Daemon -> SUBSET Daemon] /\ members'[Owner] = S
      /\ sees' \in [Daemon -> SUBSET Daemon] /\ \A e \in Daemon : e \notin sees'[e]
  BY <1>1, <1>2
<1>4. /\ ChannelsAfter(net, added, net')
      /\ \A e \in Daemon : e \notin missed' => Table(S) \in Range(added[e])
  BY <1>1 DEF Kick, FanOutRoomSync, ChannelsAfter
<1>5. FanOutAdded(sees[Owner], S, t, first, s, added)
  <2>1. s \in Signal /\ s.m = "member_left" /\ Table(S).m = "sync"
    <3> HIDE DEF S
    <3> QED
      BY <1>1, JoinedType, TableType
  <2>2. /\ \A d \in Daemon : first[d] \in {<<>>, <<s>>}
        /\ \A d \in Daemon : d # t \/ d = Owner => first[d] = <<>>
    BY <1>1 DEF SignalIfSeen
  <2>3. s # Table(S)
    BY <2>1
  <2> HIDE DEF S, s, first
  <2> QED
    BY <1>1, <2>1, <2>2, <2>3 DEF FanOutAdded
<1> HIDE DEF S, s, first, added
<1> QED
  BY <1>1, <1>2, <1>3, <1>4, <1>5, FanOutStep

(* Signals. *)

(* The only signal to a daemon that has not missed the table is the table. *)
LEMMA OnlyTheTable ==
  ASSUME MeshInv, NEW b \in Daemon \ {Owner}, b \notin missed,
         net[Owner][b] # <<>>, Tail(net[Owner][b]) = <<>>
  PROVE  Head(net[Owner][b]) = Table(members[Owner])
<1>1. net[Owner][b] \in Seq(Signal)
  BY RoomsAssumption DEF MeshInv, ChannelTypes
<1>2. net[Owner][b][Len(net[Owner][b])] = Table(members[Owner])
  BY DEF MeshInv, MeshAgrees
<1> QED
  BY <1>1, <1>2, TailElements

LEMMA InboundStep ==
  ASSUME MeshInv, NEW a \in Daemon, NEW b \in Daemon, HandleInboundRoomSignal(a, b)
  PROVE  MeshInv'
<1> DEFINE h == Head(net[a][b])
           rest == [net EXCEPT ![a][b] = Tail(@)]
<1>1. /\ members \in [Daemon -> SUBSET Daemon]
      /\ net \in [Daemon -> [Daemon -> Seq(Signal)]]
      /\ sees \in [Daemon -> SUBSET Daemon] /\ \A e \in Daemon : e \notin sees[e]
      /\ OwnerSends(net) /\ Owner \in Daemon
  BY RoomsAssumption DEF MeshInv, ChannelTypes
<1>2. TakenFrom(net, a, b, rest)
  BY <1>1 DEF TakenFrom, HandleInboundRoomSignal
<1>3. /\ rest \in [Daemon -> [Daemon -> Seq(Signal)]]
      /\ OwnerSends(rest)
      /\ a # b
      /\ h \in Signal
      /\ a # Owner => b = Owner /\ h.m = "member_joined"
      /\ a = Owner => h.m \in {"sync", "member_left"}
      /\ a # Owner => rest[Owner] = net[Owner]
  <2> HIDE DEF rest
  <2> QED
    BY <1>1, <1>2, TailKeeps
<1>4. /\ sees' = [sees EXCEPT ![b] = @ \cup {a}]
      /\ sees' \in [Daemon -> SUBSET Daemon] /\ \A e \in Daemon : e \notin sees'[e]
  BY <1>1, <1>3 DEF HandleInboundRoomSignal
<1>5. CASE /\ h.m = "member_left" /\ b \in known
           /\ LeaveRoom(b)
           /\ net' = rest
           /\ UNCHANGED <<seq, missed>>
  <2>1. a = Owner
    BY <1>3, <1>5
  <2>2. /\ members' = [members EXCEPT ![b] = @ \ {b}]
        /\ missed' = missed
    BY <1>5 DEF LeaveRoom
  <2>3. b \in missed \/ Tail(net[Owner][b]) # <<>>
    <3>1. h # Table(members[Owner])
      BY <1>5 DEF Table
    <3>2. h = Head(net[Owner][b]) /\ net[Owner][b] # <<>> /\ b # Owner
      BY <1>2, <1>3, <2>1 DEF TakenFrom
    <3> HIDE DEF h
    <3> QED
      BY <3>1, <3>2, OnlyTheTable
  <2>4. /\ members' \in [Daemon -> SUBSET Daemon]
        /\ members'[Owner] = members[Owner]
        /\ \A d \in Daemon \ {b, Owner} : members'[d] = members[d]
    BY <1>1, <1>3, <2>1, <2>2
  <2>5. TakenFrom(net, Owner, b, net')
    BY <1>2, <1>5, <2>1
  <2> HIDE DEF h, rest
  <2> QED
    BY <1>4, <2>2, <2>3, <2>4, <2>5, ReadStep
<1>6. CASE /\ h.m = "member_joined" /\ b = Owner /\ b \in known
           /\ members' = [members EXCEPT ![b] = members[b] \cup {h.member}]
           /\ FanOutRoomSync(rest, sees[b] \cup {a}, members[b] \cup {h.member},
                             Owner, NoSignal)
  <2> DEFINE S == members[b] \cup {h.member}
             peers == sees[b] \cup {a}
             s == Left(b)
             added == [e \in Daemon |-> IF e \in (S \cap peers) \ {Owner, Owner}
                                       THEN Append(NoSignal[e], Table(S))
                                       ELSE NoSignal[e]]
  <2>1. S \in SUBSET Daemon /\ peers \in SUBSET Daemon
    BY <1>1, <1>3 DEF Signal
  <2>2. /\ ChannelsAfter(rest, added, net')
        /\ \A e \in Daemon : e \notin missed' => Table(S) \in Range(added[e])
    <3>1. FanOutRoomSync(rest, peers, S, Owner, NoSignal)
      BY <1>6
    <3>2. net' = [rest EXCEPT ![Owner] = [d \in Daemon |-> rest[Owner][d] \o added[d]]]
      <4> HIDE DEF rest, peers, S
      <4> QED
        BY <1>1, <1>3, <3>1 DEF FanOutRoomSync
    <3>3. missed' = {d \in Daemon : Table(S) \notin Range(added[d])}
      <4> HIDE DEF rest, peers, S
      <4> QED
        BY <3>1 DEF FanOutRoomSync
    <3> HIDE DEF added, rest
    <3> QED
      BY <1>3, <3>2, <3>3 DEF ChannelsAfter
  <2>3. FanOutAdded(peers, S, Owner, NoSignal, s, added)
    <3>1. s \in Signal /\ s.m = "member_left" /\ s # Table(S)
      <4> HIDE DEF S
      <4> QED
        BY <2>1, JoinedType, TableType
    <3>2. \A e \in Daemon : NoSignal[e] = <<>>
      BY DEF NoSignal
    <3> HIDE DEF S, s, peers
    <3> QED
      BY <1>1, <2>1, <3>1, <3>2 DEF FanOutAdded
  <2>4. members'[Owner] = S /\ members' \in [Daemon -> SUBSET Daemon]
    BY <1>1, <1>6, <2>1
  <2> HIDE DEF S, s, added, peers, rest
  <2> QED
    BY <1>3, <1>4, <2>2, <2>3, <2>4, FanOutStep
<1>7. CASE /\ h.m = "sync"
           /\ members' = [members EXCEPT ![b] = Upsert(@, h.members)]
           /\ net' = rest
           /\ UNCHANGED missed
  <2>1. a = Owner
    BY <1>3, <1>7
  <2>2. /\ members' = [members EXCEPT ![b] = h.members]
        /\ missed' = missed
    BY <1>7 DEF Upsert
  <2>3. \/ b \in missed
        \/ Tail(net[Owner][b]) # <<>>
        \/ h.members = members[Owner]
    <3>1. h = Head(net[Owner][b]) /\ net[Owner][b] # <<>> /\ b # Owner
      BY <1>2, <1>3, <2>1 DEF TakenFrom
    <3>2. Table(members[Owner]).members = members[Owner]
      BY <1>1, TableType
    <3> HIDE DEF h
    <3> QED
      BY <3>1, <3>2, OnlyTheTable
  <2>4. /\ members' \in [Daemon -> SUBSET Daemon]
        /\ members'[Owner] = members[Owner]
        /\ members'[b] = h.members
        /\ \A d \in Daemon \ {b, Owner} : members'[d] = members[d]
    <3>1. h.members \in SUBSET Daemon /\ b # Owner
      BY <1>3, <2>1 DEF Signal
    <3> HIDE DEF h
    <3> QED
      BY <1>1, <2>2, <3>1
  <2>5. TakenFrom(net, Owner, b, net')
    BY <1>2, <1>7, <2>1
  <2> HIDE DEF h, rest
  <2> QED
    BY <1>4, <2>2, <2>3, <2>4, <2>5, ReadStep
<1>8. CASE /\ \/ h.m = "member_left" /\ b \notin known
              \/ h.m = "member_joined" /\ (b # Owner \/ b \notin known)
           /\ net' = rest
           /\ UNCHANGED <<known, members, seq, missed>>
  <2>1. CASE a = Owner
    <3>1. h.m = "member_left"
      BY <1>3, <1>8, <2>1
    <3>2. b \in missed \/ Tail(net[Owner][b]) # <<>>
      <4>1. h # Table(members[Owner])
        BY <3>1 DEF Table
      <4>2. h = Head(net[Owner][b]) /\ net[Owner][b] # <<>> /\ b # Owner
        BY <1>2, <1>3, <2>1 DEF TakenFrom
      <4> HIDE DEF h
      <4> QED
        BY <4>1, <4>2, OnlyTheTable
    <3>3. TakenFrom(net, Owner, b, net')
      BY <1>2, <1>8, <2>1
    <3>4. members' = members /\ missed' = missed
      BY <1>8
    <3> HIDE DEF h, rest
    <3> QED
      BY <1>1, <1>4, <3>2, <3>3, <3>4, ReadStep
  <2>2. CASE a # Owner
    <3>1. net' = rest /\ members' = members /\ missed' = missed
      BY <1>8
    <3> HIDE DEF h, rest
    <3> QED
      BY <1>1, <1>3, <1>4, <2>2, <3>1, LocalStep
  <2> QED
    BY <2>1, <2>2
<1> QED
  BY <1>5, <1>6, <1>7, <1>8 DEF HandleInboundRoomSignal

LEMMA LoseSignalStep ==
  ASSUME MeshInv, NEW a \in Daemon, NEW b \in Daemon, LoseSignal(a, b)
  PROVE  MeshInv'
<1>1. /\ members \in [Daemon -> SUBSET Daemon]
      /\ net \in [Daemon -> [Daemon -> Seq(Signal)]]
      /\ sees \in [Daemon -> SUBSET Daemon] /\ \A e \in Daemon : e \notin sees[e]
      /\ OwnerSends(net) /\ Owner \in Daemon
  BY RoomsAssumption DEF MeshInv, ChannelTypes
<1>2. /\ members' = members /\ sees' = sees
      /\ missed' = IF a = Owner /\ ~HasTable(Tail(net[a][b]))
                   THEN missed \cup {b} ELSE missed
  BY DEF LoseSignal
<1>3. TakenFrom(net, a, b, net')
  BY <1>1 DEF TakenFrom, LoseSignal
<1>4. CASE a = Owner
  <2>1. b \in missed' \/ Tail(net[Owner][b]) # <<>>
    <3>1. ASSUME Tail(net[Owner][b]) = <<>>
          PROVE  ~HasTable(Tail(net[Owner][b]))
      BY <3>1 DEF HasTable, Range
    <3> QED
      BY <1>2, <1>4, <3>1
  <2> QED
    BY <1>1, <1>2, <1>3, <1>4, <2>1, ReadStep
<1>5. CASE a # Owner
  <2>1. /\ net' \in [Daemon -> [Daemon -> Seq(Signal)]]
        /\ OwnerSends(net')
        /\ net'[Owner] = net[Owner]
    BY <1>1, <1>3, <1>5, TailKeeps
  <2>2. missed' = missed
    BY <1>2, <1>5
  <2> QED
    BY <1>1, <1>2, <2>1, <2>2, LocalStep
<1> QED
  BY <1>4, <1>5

LEMMA PeerStep ==
  ASSUME MeshInv, NEW a \in Daemon, NEW b \in Daemon,
         LosePeer(a, b) \/ FindPeer(a, b)
  PROVE  MeshInv'
<1>1. /\ members \in [Daemon -> SUBSET Daemon]
      /\ net \in [Daemon -> [Daemon -> Seq(Signal)]]
      /\ sees \in [Daemon -> SUBSET Daemon] /\ \A e \in Daemon : e \notin sees[e]
      /\ OwnerSends(net) /\ Owner \in Daemon
  BY RoomsAssumption DEF MeshInv, ChannelTypes
<1>2. members' = members /\ net' = net /\ missed' = missed
  BY DEF LosePeer, FindPeer
<1>3. sees' \in [Daemon -> SUBSET Daemon] /\ \A e \in Daemon : e \notin sees'[e]
  <2>1. CASE LosePeer(a, b)
    BY <1>1, <2>1 DEF LosePeer
  <2>2. CASE FindPeer(a, b)
    BY <1>1, <2>2 DEF FindPeer
  <2> QED
    BY <2>1, <2>2
<1> QED
  BY <1>1, <1>2, <1>3, LocalStep

(***************************************************************************)
(* The rest of the types: the bounded counters, the numbers of the tables  *)
(* and the sets of daemons, which only a request or a signal changes.      *)
(***************************************************************************)
Books ==
  /\ known \in SUBSET Daemon
  /\ seq \in [Daemon -> Nat]
  /\ missed \in SUBSET Daemon
  /\ requests \in 0..MaxRequests
  /\ lost \in 0..MaxLost

LEMMA NextNumber ==
  ASSUME NEW f \in [Daemon -> Nat], NEW d \in Daemon
  PROVE  /\ [f EXCEPT ![d] = @ + 1] \in [Daemon -> Nat]
         /\ [f EXCEPT ![d] = 1] \in [Daemon -> Nat]
OBVIOUS

(* Whatever a fan-out sends, those that miss it are daemons.               *)
LEMMA FanOutMissed ==
  ASSUME NEW base, NEW peers, NEW S, NEW exclude, NEW first,
         FanOutRoomSync(base, peers, S, exclude, first)
  PROVE  missed' \in SUBSET Daemon
BY DEF FanOutRoomSync

LEMMA BooksOfRequests ==
  ASSUME Books, NEW d \in Daemon,
         Create \/ Join(d) \/ Leave(d) \/ Invite(d) \/ Kick(d)
  PROVE  Books'
<1> USE DEF Books
<1>1. requests' \in 0..MaxRequests
  <2>1. Owner \in Daemon /\ MaxRequests \in Nat
    BY RoomsAssumption
  <2>2. Request(d) \/ Request(Owner)
    BY DEF Create, Join, Leave, Invite, Kick
  <2> QED
    BY <2>1, <2>2, BoundedCount DEF Request
<1>2. lost' = lost
  BY DEF Create, Join, Leave, Invite, Kick
<1>3. known' \in SUBSET Daemon
  BY RoomsAssumption DEF Create, Join, Leave, LeaveRoom, Invite, Kick
<1>4. seq' \in [Daemon -> Nat]
  <2>1. \/ seq' = seq
        \/ \E e \in Daemon : seq' = [seq EXCEPT ![e] = @ + 1]
        \/ \E e \in Daemon : seq' = [seq EXCEPT ![e] = 1]
    BY RoomsAssumption DEF Create, Join, Leave, Invite, Kick
  <2> QED
    BY <2>1, NextNumber
<1>5. missed' \in SUBSET Daemon
  <2>1. CASE Create \/ Join(d)
    BY <2>1 DEF Create, Join
  <2>2. CASE Leave(d)
    BY <2>2, FanOutMissed DEF Leave
  <2>3. CASE Invite(d)
    BY <2>3, FanOutMissed DEF Invite
  <2>4. CASE Kick(d)
    BY <2>4, FanOutMissed DEF Kick
  <2> QED
    BY <2>1, <2>2, <2>3, <2>4
<1> QED
  BY <1>1, <1>2, <1>3, <1>4, <1>5

LEMMA BooksOfNetwork ==
  ASSUME Books, NEW a \in Daemon, NEW b \in Daemon,
         \/ HandleInboundRoomSignal(a, b) \/ LoseSignal(a, b)
         \/ LosePeer(a, b) \/ FindPeer(a, b)
  PROVE  Books'
<1> USE DEF Books
<1>1. CASE HandleInboundRoomSignal(a, b)
  <2>1. requests' = requests /\ lost' = lost
    BY <1>1 DEF HandleInboundRoomSignal
  <2>2. known' \in SUBSET Daemon
    BY <1>1 DEF HandleInboundRoomSignal, LeaveRoom
  <2>3. seq' \in [Daemon -> Nat]
    <3>1. \/ seq' = seq
          \/ seq' = [seq EXCEPT ![b] = @ + 1]
          \/ seq' = [seq EXCEPT ![b] = 1]
      <4>1. CASE /\ Head(net[a][b]).m = "sync"
                 /\ seq' = [seq EXCEPT ![b] = IF b \in known THEN @ + 1 ELSE 1]
        <5>1. CASE b \in known
          BY <4>1, <5>1
        <5>2. CASE b \notin known
          BY <4>1, <5>2
        <5> QED
          BY <5>1, <5>2
      <4> QED
        BY <1>1, <4>1 DEF HandleInboundRoomSignal
    <3> QED
      BY <3>1, NextNumber
  <2>4. missed' \in SUBSET Daemon
    BY <1>1, FanOutMissed DEF HandleInboundRoomSignal
  <2> QED
    BY <2>1, <2>2, <2>3, <2>4
<1>2. CASE LoseSignal(a, b) \/ LosePeer(a, b)
  <2>1. /\ known' = known /\ seq' = seq /\ requests' = requests
        /\ missed' \in SUBSET Daemon
        /\ lost < MaxLost /\ lost' = lost + 1
    BY <1>2 DEF LoseSignal, LosePeer
  <2> QED
    BY <2>1, RoomsAssumption, BoundedCount
<1>3. CASE FindPeer(a, b)
  BY <1>3 DEF FindPeer
<1> QED
  BY <1>1, <1>2, <1>3

LEMMA MeshInvariance == RoomsSpec => []MeshInv
<1>1. RoomsInit => MeshInv
  BY MeshInit
<1>2. MeshInv /\ [RoomsNext]_roomVars => MeshInv'
  <2> SUFFICES ASSUME MeshInv, [RoomsNext]_roomVars PROVE MeshInv'
    OBVIOUS
  <2>1. CASE Create
    BY <2>1, CreateStep
  <2>2. ASSUME NEW d \in Daemon, Join(d) \/ Leave(d) \/ Invite(d) \/ Kick(d)
        PROVE  MeshInv'
    BY <2>2, JoinStep, LeaveStep, InviteStep, KickStep
  <2>3. ASSUME NEW a \in Daemon, NEW b \in Daemon,
               \/ HandleInboundRoomSignal(a, b) \/ LoseSignal(a, b)
               \/ LosePeer(a, b) \/ FindPeer(a, b)
        PROVE  MeshInv'
    BY <2>3, InboundStep, LoseSignalStep, PeerStep
  <2>4. CASE UNCHANGED roomVars
    BY <2>4 DEF roomVars, MeshInv, ChannelTypes, MeshAgrees
  <2> QED
    BY <2>1, <2>2, <2>3, <2>4 DEF RoomsNext, Requests, Network
<1> QED
  BY <1>1, <1>2, PTL DEF RoomsSpec

(***************************************************************************)
(* The theorem: whoever was sent the owner's present table has it, or it   *)
(* is the last signal on its way to it (FanOutRoomSync, Upsert).           *)
(***************************************************************************)
THEOREM MeshStaysConsistent == RoomsSpec => []MeshAgrees
<1>1. MeshInv => MeshAgrees
  BY DEF MeshInv
<1> QED
  BY <1>1, MeshInvariance, PTL

(***************************************************************************)
(* Tables, registries and channels hold what their types say in every      *)
(* state: a signal on the way is always one the handler knows.             *)
(***************************************************************************)
THEOREM RoomTypesCorrect == RoomsSpec => []RoomsTypeOK
<1>1. RoomsInit => Books
  BY RoomsAssumption DEF RoomsInit, Books
<1>2. Books /\ [RoomsNext]_roomVars => Books'
  <2> SUFFICES ASSUME Books, [RoomsNext]_roomVars PROVE Books'
    OBVIOUS
  <2>1. ASSUME NEW d \in Daemon,
               Create \/ Join(d) \/ Leave(d) \/ Invite(d) \/ Kick(d)
        PROVE  Books'
    BY <2>1, BooksOfRequests
  <2>2. ASSUME NEW a \in Daemon, NEW b \in Daemon,
               \/ HandleInboundRoomSignal(a, b) \/ LoseSignal(a, b)
               \/ LosePeer(a, b) \/ FindPeer(a, b)
        PROVE  Books'
    BY <2>2, BooksOfNetwork
  <2>3. CASE UNCHANGED roomVars
    BY <2>3 DEF roomVars, Books
  <2> QED
    BY <2>1, <2>2, <2>3, RoomsAssumption DEF RoomsNext, Requests, Network
<1>3. MeshInv /\ Books => RoomsTypeOK
  BY DEF MeshInv, Books, ChannelTypes, RoomsTypeOK
<1> QED
  BY <1>1, <1>2, <1>3, MeshInvariance, PTL DEF RoomsSpec
=============================================================================
