--------------------------- MODULE JobListProofs ----------------------------
(***************************************************************************)
(* What the job list guarantees for every number of slots and every set of *)
(* process IDs: its invariants, and that it implements the table of jobs.  *)
(***************************************************************************)
EXTENDS JobList, FiniteSetTheorems, WellFoundedInduction, TLAPS

-----------------------------------------------------------------------------
(***************************************************************************)
(* Least and greatest elements.                                            *)
(***************************************************************************)

\* A nonempty set of natural numbers has a least element, which is what the
\* loops over the array return.
LEMMA MinExists ==
    ASSUME NEW S, S \subseteq Nat, S # {}
    PROVE  /\ Min(S) \in S
           /\ \A y \in S : Min(S) <= y
<1> DEFINE Less == {ss \in Nat \X Nat : ss[1] < ss[2]}
<1>1. OpToRel(<, Nat) = Less
  BY DEF OpToRel
<1>2. IsWellFoundedOn(Less, Nat)
  BY <1>1, NatLessThanWellFounded
<1> HIDE DEF Less
<1>3. PICK x \in S : \A y \in S : ~ (<<y, x>> \in Less)
  BY <1>2, WFMin, Zenon
<1>4. \A y \in S : x <= y
  <2> SUFFICES ASSUME NEW y \in S PROVE x <= y
    OBVIOUS
  <2>1. ~ (<<y, x>> \in Less)
    BY <1>3
  <2>2. x \in Nat /\ y \in Nat
    OBVIOUS
  <2> QED
    BY <2>1, <2>2 DEF Less
<1> QED
  BY <1>4 DEF Min

\* A bounded nonempty set of natural numbers has a greatest element.
LEMMA MaxExists ==
    ASSUME NEW S, S \subseteq Nat, S # {},
           NEW b \in Nat, \A x \in S : x <= b
    PROVE  /\ Max(S) \in S
           /\ \A y \in S : y <= Max(S)
<1> DEFINE U == {u \in Nat : \A x \in S : x <= u}
<1>1. PICK m \in U : \A u \in U : m <= u
  <2>1. U \subseteq Nat /\ b \in U
    OBVIOUS
  <2> HIDE DEF U
  <2> QED
    BY <2>1, MinExists
<1>2. m \in S
  <2>1. SUFFICES ASSUME m \notin S PROVE FALSE
    OBVIOUS
  <2>2. \A x \in S : x <= m - 1
    BY <2>1
  <2>3. m - 1 \in Nat
    <3>1. PICK x \in S : TRUE
      OBVIOUS
    <3> QED
      BY <3>1, <2>2
  <2>4. m - 1 \in U
    BY <2>2, <2>3
  <2> QED
    BY <1>1, <2>4
<1>3. \A y \in S : m >= y
  BY <1>1
<1> QED
  BY <1>2, <1>3 DEF Max

\* Finitely many job IDs have an upper bound.
LEMMA SlotsBounded ==
    ASSUME NEW l \in [Slots -> job_t]
    PROVE  \E b \in Nat : \A i \in Slots : l[i].jid <= b
<1> USE MaxJobsAssumption
<1> DEFINE Bounds(n) == {b \in Nat : \A i \in 1..n : l[i].jid <= b}
<1> DEFINE T == {n \in 0..MaxJobs : Bounds(n) = {}}
<1>1. SUFFICES ASSUME T # {} PROVE FALSE
  <2>1. MaxJobs \notin T => Bounds(MaxJobs) # {}
    OBVIOUS
  <2> QED
    BY <2>1 DEF Slots
<1>2. PICK m \in T : \A n \in T : m <= n
  <2>1. T \subseteq Nat
    OBVIOUS
  <2> HIDE DEF T
  <2> QED
    BY <1>1, <2>1, MinExists
<1>3. m # 0
  <2>1. 0 \in Bounds(0)
    OBVIOUS
  <2> QED
    BY <2>1
<1>4. PICK b \in Nat : \A i \in 1..(m - 1) : l[i].jid <= b
  <2>1. m - 1 \in 0..MaxJobs /\ ~ (m <= m - 1)
    BY <1>3
  <2>2. m - 1 \notin T
    BY <1>2, <2>1
  <2>3. Bounds(m - 1) # {}
    BY <2>1, <2>2
  <2> QED
    BY <2>3
<1>5. m \in Slots /\ l[m].jid \in Nat
  <2>1. m \in Slots
    BY <1>3 DEF Slots
  <2> QED
    BY <2>1 DEF job_t
<1>6. \A i \in 1..m : l[i].jid <= b + l[m].jid
  <2> SUFFICES ASSUME NEW i \in 1..m PROVE l[i].jid <= b + l[m].jid
    OBVIOUS
  <2>1. m \in Nat /\ m <= MaxJobs
    OBVIOUS
  <2>2. i = m \/ i \in 1..(m - 1)
    BY <2>1
  <2>3. i \in Slots /\ l[i].jid \in Nat
    <3>1. i \in Slots
      BY <2>1 DEF Slots
    <3> QED
      BY <3>1 DEF job_t
  <2> QED
    BY <1>4, <1>5, <2>2, <2>3
<1>7. b + l[m].jid \in Bounds(m)
  BY <1>5, <1>6
<1> QED
  BY <1>7

\* maxjid returns the greatest job ID of the list, 0 when the list is empty.
LEMMA MaxJid ==
    ASSUME NEW l \in [Slots -> job_t]
    PROVE  LET m == Max({l[i].jid : i \in Slots} \union {0})
           IN  /\ m \in Nat
               /\ \A i \in Slots : l[i].jid <= m
               /\ m = 0 \/ \E i \in Slots : l[i].jid = m
<1> DEFINE S == {l[i].jid : i \in Slots} \union {0}
<1>1. S \subseteq Nat /\ S # {}
  BY DEF job_t
<1>2. PICK b \in Nat : \A i \in Slots : l[i].jid <= b
  BY SlotsBounded
<1>3. \A x \in S : x <= b
  BY <1>2
<1>4. Max(S) \in S /\ \A y \in S : y <= Max(S)
  <2> HIDE DEF S
  <2> QED
    BY <1>1, <1>3, MaxExists
<1> QED
  BY <1>1, <1>4

-----------------------------------------------------------------------------
(***************************************************************************)
(* The searches.                                                           *)
(***************************************************************************)

LEMMA FirstOf ==
    ASSUME NEW slots, slots \subseteq Slots
    PROVE  /\ First(slots) = NULL <=> slots = {}
           /\ slots # {} => First(slots) \in slots
<1>1. slots \subseteq Nat /\ 0 \notin slots
  BY DEF Slots
<1>2. slots # {} => Min(slots) \in slots
  BY <1>1, MinExists
<1> QED
  BY <1>1, <1>2 DEF First, NULL

\* find_job_with_pid finds a listed process, and only that.
LEMMA FindPid ==
    ASSUME ListTypeOK, NEW pid \in Pids
    PROVE  LET i == find_job_with_pid(pid)
           IN  /\ i = NULL <=> pid \notin Listed
               /\ i # NULL => i \in Slots /\ job_list[i].pid = pid
<1> DEFINE matches == {i \in Slots : pid # NoPid /\ job_list[i].pid = pid}
<1>1. matches \subseteq Slots
  OBVIOUS
<1>2. matches = {} <=> pid \notin Listed
  BY PidsAssumption DEF Listed
<1>3. /\ First(matches) = NULL <=> matches = {}
      /\ matches # {} => First(matches) \in matches
  <2> HIDE DEF matches
  <2> QED
    BY <1>1, FirstOf
<1> QED
  BY <1>2, <1>3 DEF find_job_with_pid

-----------------------------------------------------------------------------
(***************************************************************************)
(* The invariants.  add_job needs a free slot to be free in every field,   *)
(* and the state set by fg needs an empty foreground: the conjuncts are    *)
(* inductive together.                                                     *)
(***************************************************************************)

ListInv ==
    /\ ListTypeOK
    /\ SlotsCoherent
    /\ PidsUnique
    /\ AtMostOneForeground
    /\ JidsCompact

\* An empty list satisfies the invariant.
LEMMA InitList == init_job_list => ListInv
<1> SUFFICES ASSUME init_job_list PROVE ListInv
  OBVIOUS
<1>1. ListTypeOK
  BY DEF init_job_list, ListTypeOK, job_t, job_state, ClearedJob
<1>2. SlotsCoherent /\ PidsUnique /\ AtMostOneForeground
  BY DEF init_job_list, SlotsCoherent, PidsUnique, AtMostOneForeground, ClearedJob
<1>3. JidsCompact
  <2>1. maxjid \in Nat
    BY <1>1, MaxJid DEF ListTypeOK, maxjid
  <2> QED
    BY <2>1 DEF init_job_list, JidsCompact
<1> QED
  BY <1>1, <1>2, <1>3 DEF ListInv

\* add_job keeps the invariant for a process that is not listed, while no job
\* is in the foreground.
LEMMA AddJobKeeps ==
    ASSUME ListInv, NEW pid \in Pids, NEW state \in {"FG", "BG"},
           pid \notin Listed, ForegroundSlots = {}, add_job(pid, state)
    PROVE  ListInv'
<1> USE DEF ListInv
<1> DEFINE k == Min(FreeSlots)
<1>1. CASE FreeSlots = {}
  BY <1>1 DEF add_job, list_vars, ListTypeOK, SlotsCoherent, PidsUnique,
              AtMostOneForeground, JidsCompact, maxjid
<1>2. CASE FreeSlots # {}
  <2>1. k \in Slots /\ job_list[k].pid = NoPid
    <3>1. FreeSlots \subseteq Nat
      BY DEF FreeSlots, Slots
    <3> QED
      BY <1>2, <3>1, MinExists DEF FreeSlots
  <2> HIDE DEF k
  <2>2. /\ job_list' = [job_list EXCEPT ![k] =
                            [pid |-> pid, jid |-> nextjid, state |-> state]]
        /\ nextjid' = IF nextjid + 1 > MaxJobs THEN 1 ELSE nextjid + 1
    BY <1>2 DEF add_job, k
  <2>3. job_list' \in [Slots -> job_t] /\ nextjid' \in Nat \ {0}
    BY <2>1, <2>2, MaxJobsAssumption DEF ListTypeOK, job_t, job_state
  <2>4. SlotsCoherent'
    BY <2>1, <2>2, PidsAssumption DEF SlotsCoherent, ListTypeOK
  <2>5. PidsUnique'
    BY <2>1, <2>2, PidsAssumption DEF PidsUnique, ListTypeOK, Listed
  <2>6. AtMostOneForeground'
    BY <2>1, <2>2 DEF AtMostOneForeground, ListTypeOK, ForegroundSlots
  <2>7. JidsCompact'
    <3>1. maxjid' \in Nat /\ \A i \in Slots : job_list'[i].jid <= maxjid'
      BY <2>3, MaxJid DEF maxjid
    <3>2. nextjid <= maxjid'
      <4>1. job_list'[k].jid = nextjid
        BY <2>1, <2>2 DEF ListTypeOK
      <4> QED
        BY <2>1, <3>1, <4>1
    <3>3. nextjid' <= maxjid' + 1
      <4>1. nextjid' = 1 \/ nextjid' = nextjid + 1
        BY <2>2
      <4> QED
        BY <3>1, <3>2, <4>1 DEF ListTypeOK
    <3> QED
      BY <3>3 DEF JidsCompact
  <2> QED
    BY <2>3, <2>4, <2>5, <2>6, <2>7 DEF ListTypeOK
<1> QED
  BY <1>1, <1>2

\* delete_job keeps the invariant, whether or not the process is listed.
LEMMA DeleteJobKeeps ==
    ASSUME ListInv, NEW pid \in Pids, delete_job(pid)
    PROVE  ListInv'
<1> USE DEF ListInv
<1> DEFINE k == find_job_with_pid(pid)
<1>1. CASE k = NULL
  BY <1>1 DEF delete_job, list_vars, ListTypeOK, SlotsCoherent, PidsUnique,
              AtMostOneForeground, JidsCompact, maxjid
<1>2. CASE k # NULL
  <2>1. k \in Slots
    BY <1>2, FindPid
  <2>2. job_list' = [job_list EXCEPT ![k] = ClearedJob]
    BY <1>2 DEF delete_job
  <2>3. nextjid' = maxjid' + 1
    BY <1>2 DEF delete_job
  <2> HIDE DEF k
  <2>4. job_list' \in [Slots -> job_t]
    BY <2>1, <2>2 DEF ListTypeOK, job_t, job_state, ClearedJob
  <2>5. maxjid' \in Nat
    BY <2>4, MaxJid DEF maxjid
  <2>6. SlotsCoherent'
    BY <2>1, <2>2 DEF SlotsCoherent, ListTypeOK, ClearedJob
  <2>7. PidsUnique' /\ AtMostOneForeground'
    BY <2>1, <2>2 DEF PidsUnique, AtMostOneForeground, ListTypeOK, ClearedJob
  <2>8. PICK m \in Nat : m = maxjid'
    BY <2>5
  <2>9. nextjid' = m + 1
    BY <2>8, <2>3, Zenon
  <2>10. nextjid' \in Nat \ {0} /\ m + 1 <= m + 1
    BY <2>9
  <2>11. JidsCompact'
    BY <2>8, <2>9, <2>10, Zenon DEF JidsCompact
  <2> QED
    BY <2>4, <2>6, <2>7, <2>10, <2>11, Zenon DEF ListTypeOK, ListInv
<1> QED
  BY <1>1, <1>2

\* set_state_of_job keeps the invariant for a slot in use, if no job is in the
\* foreground when it puts one there.
LEMMA SetStateKeeps ==
    ASSUME ListInv, NEW jobp \in Slots, NEW state \in {"FG", "BG", "ST"},
           job_list[jobp].pid # NoPid,
           state = "FG" => ForegroundSlots = {},
           set_state_of_job(jobp, state)
    PROVE  ListInv'
<1> USE DEF ListInv
<1>1. /\ job_list' = [job_list EXCEPT ![jobp].state = state]
      /\ nextjid' = nextjid
  BY DEF set_state_of_job
<1>2. job_list' \in [Slots -> job_t] /\ nextjid' \in Nat \ {0}
  BY <1>1 DEF ListTypeOK, job_t, job_state
<1>3. \A i \in Slots : /\ job_list'[i].pid = job_list[i].pid
                       /\ job_list'[i].jid = job_list[i].jid
                       /\ job_list'[i].state =
                             IF i = jobp THEN state ELSE job_list[i].state
  BY <1>1 DEF ListTypeOK, job_t
<1>4. SlotsCoherent' /\ PidsUnique'
  BY <1>3 DEF SlotsCoherent, PidsUnique
<1>5. AtMostOneForeground'
  BY <1>3 DEF AtMostOneForeground, ForegroundSlots
<1>6. JidsCompact'
  <2>1. /\ maxjid \in Nat
        /\ maxjid = 0 \/ \E i \in Slots : job_list[i].jid = maxjid
    BY MaxJid DEF maxjid, ListTypeOK
  <2>2. maxjid' \in Nat /\ \A i \in Slots : job_list'[i].jid <= maxjid'
    BY <1>2, MaxJid DEF maxjid
  <2>3. maxjid <= maxjid'
    BY <1>3, <2>1, <2>2
  <2> QED
    BY <1>1, <2>1, <2>2, <2>3 DEF JidsCompact, ListTypeOK
<1> QED
  BY <1>2, <1>4, <1>5, <1>6 DEF ListTypeOK

\* Every step of the list keeps the invariant.
LEMMA StepKeeps == ListInv /\ [ListNext]_list_vars => ListInv'
<1> SUFFICES ASSUME ListInv, [ListNext]_list_vars PROVE ListInv'
  OBVIOUS
<1>1. ASSUME NEW pid \in Pids, NEW state \in {"FG", "BG"}, Launch(pid, state)
      PROVE  ListInv'
  BY <1>1, AddJobKeeps DEF Launch
<1>2. ASSUME NEW pid \in Pids, delete_job(pid)
      PROVE  ListInv'
  BY <1>2, DeleteJobKeeps
<1>3. ASSUME NEW jobp \in Slots, NEW state \in {"FG", "BG", "ST"}, ChangeState(jobp, state)
      PROVE  ListInv'
  BY <1>3, SetStateKeeps DEF ChangeState
<1>4. CASE UNCHANGED list_vars
  BY <1>4 DEF list_vars, ListInv, ListTypeOK, SlotsCoherent, PidsUnique,
              AtMostOneForeground, JidsCompact, maxjid
<1> QED
  BY <1>1, <1>2, <1>3, <1>4 DEF ListNext

\* The list is well formed in every reachable state, whatever its size.
THEOREM ListInvariant == ListSpec => []ListInv
<1>1. init_job_list => ListInv
  BY InitList
<1>2. ListInv /\ [ListNext]_list_vars => ListInv'
  BY StepKeeps
<1> QED
  BY <1>1, <1>2, PTL DEF ListSpec

\* Type correctness of the job list: nextjid stays positive, although
\* delete_job computes it from the IDs that are left.
THEOREM ListTypeCorrect == ListSpec => []ListTypeOK
BY ListInvariant, PTL DEF ListInv

\* The fields of a slot always agree on whether it is in use.
THEOREM ListSlotsCoherent == ListSpec => []SlotsCoherent
BY ListInvariant, PTL DEF ListInv

\* No process is ever listed twice.
THEOREM ListPidsUnique == ListSpec => []PidsUnique
BY ListInvariant, PTL DEF ListInv

\* At most one job is in the foreground.
THEOREM ListOneForeground == ListSpec => []AtMostOneForeground
BY ListInvariant, PTL DEF ListInv

\* The next job ID never leaves a gap above the IDs in use.
THEOREM ListJidsCompact == ListSpec => []JidsCompact
BY ListInvariant, PTL DEF ListInv

-----------------------------------------------------------------------------
(***************************************************************************)
(* The list implements the table of jobs.                                  *)
(***************************************************************************)

\* The slot of a process is the one the search finds.
LEMMA SlotOf ==
    ASSUME NEW l \in [Slots -> job_t],
           \A i, j \in Slots : l[i].pid = l[j].pid /\ l[i].pid # NoPid => i = j,
           NEW i \in Slots, l[i].pid # NoPid
    PROVE  First({j \in Slots : l[i].pid # NoPid /\ l[j].pid = l[i].pid}) = i
<1> DEFINE matches == {j \in Slots : l[i].pid # NoPid /\ l[j].pid = l[i].pid}
<1>1. matches \subseteq Slots /\ matches = {i}
  OBVIOUS
<1>2. First(matches) \in matches
  <2> HIDE DEF matches
  <2> QED
    BY <1>1, FirstOf
<1> QED
  BY <1>1, <1>2

\* Each listed process has the state of its slot in the table.
TableIsList ==
    /\ DOMAIN JobsTable = Listed
    /\ \A i \in Slots : job_list[i].pid # NoPid =>
          JobsTable[job_list[i].pid] = job_list[i].state

LEMMA TableIs == ListInv => TableIsList
<1> SUFFICES ASSUME ListInv, NEW i \in Slots, job_list[i].pid # NoPid
             PROVE  JobsTable[job_list[i].pid] = job_list[i].state
  BY DEF JobsTable, TableIsList
<1>1. job_list[i].pid \in Listed
  BY DEF Listed
<1>2. find_job_with_pid(job_list[i].pid) = i
  BY SlotOf DEF find_job_with_pid, ListInv, ListTypeOK, PidsUnique
<1> QED
  BY <1>1, <1>2 DEF JobsTable

\* With a free slot, fewer than MaxJobs processes are listed.
LEMMA RoomLeft ==
    ASSUME ListTypeOK, FreeSlots # {}
    PROVE  Cardinality(Listed) < MaxJobs
<1> DEFINE used == Slots \ FreeSlots
<1>1. IsFiniteSet(Slots) /\ Cardinality(Slots) = MaxJobs
  BY FS_Interval, MaxJobsAssumption DEF Slots
<1>2. PICK k \in Slots : k \in FreeSlots
  BY DEF FreeSlots
<1>3. /\ IsFiniteSet(Slots \ {k})
      /\ Cardinality(Slots \ {k}) = MaxJobs - 1
  BY <1>1, <1>2, FS_RemoveElement
<1>4. /\ IsFiniteSet(used)
      /\ Cardinality(used) <= MaxJobs - 1
  <2>1. used \subseteq Slots \ {k}
    BY <1>2
  <2> QED
    BY <1>3, <2>1, FS_Subset
<1> DEFINE pidOf == [i \in used |-> job_list[i].pid]
<1>5. pidOf \in Surjection(used, Listed)
  <2>1. Listed = {pidOf[i] : i \in used}
    BY DEF Listed, FreeSlots
  <2> QED
    BY <2>1 DEF Surjection
<1>6. /\ IsFiniteSet(Listed)
      /\ Cardinality(Listed) <= Cardinality(used)
  <2> HIDE DEF used, pidOf
  <2> QED
    BY <1>4, <1>5, FS_Surjection
<1>7. Cardinality(used) \in Nat /\ Cardinality(Listed) \in Nat
  BY <1>4, <1>6, FS_CardinalityType
<1> QED
  BY <1>4, <1>6, <1>7, MaxJobsAssumption

LEMMA TableIsPrimed == ListInv' => TableIsList'
BY TableIs, PTL

\* The table of an empty list is the empty table.
LEMMA InitTable == init_job_list => Table!TableInit
<1> SUFFICES ASSUME init_job_list PROVE JobsTable = [p \in {} |-> "FG"]
  BY DEF Table!TableInit
<1>1. Listed = {}
  BY DEF init_job_list, Listed, ClearedJob
<1> QED
  BY <1>1 DEF JobsTable

\* add_job tracks a process, unless the list is full.
LEMMA AddJobTracks ==
    ASSUME ListInv, ListInv', NEW pid \in Pids, NEW state \in {"FG", "BG"},
           pid \notin Listed, ForegroundSlots = {}, add_job(pid, state)
    PROVE  Table!Track(pid, state) \/ UNCHANGED JobsTable
<1>1. CASE FreeSlots = {}
  <2>1. job_list' = job_list
    BY <1>1 DEF add_job, list_vars
  <2> QED
    BY <2>1 DEF JobsTable, Listed, find_job_with_pid
<1>2. CASE FreeSlots # {}
  <2> DEFINE k == Min(FreeSlots)
  <2>1. k \in Slots /\ job_list[k].pid = NoPid
    <3>1. FreeSlots \subseteq Nat
      BY DEF FreeSlots, Slots
    <3> QED
      BY <1>2, <3>1, MinExists DEF FreeSlots
  <2>2. job_list' = [job_list EXCEPT ![k] =
                       [pid |-> pid, jid |-> nextjid, state |-> state]]
    BY <1>2 DEF add_job
  <2> HIDE DEF k
  <2>3. /\ job_list'[k].pid = pid /\ job_list'[k].state = state
        /\ \A i \in Slots : i # k => job_list'[i] = job_list[i]
    BY <2>1, <2>2 DEF ListInv, ListTypeOK
  <2>4. Listed' = Listed \union {pid}
    BY <2>1, <2>3, PidsAssumption DEF Listed
  <2>5. /\ JobsTable'[pid] = state
        /\ \A q \in Listed : JobsTable'[q] = JobsTable[q]
    <3>1. JobsTable'[pid] = state
      BY <2>1, <2>3, TableIsPrimed, PidsAssumption DEF TableIsList
    <3>2. ASSUME NEW q \in Listed PROVE JobsTable'[q] = JobsTable[q]
      <4>1. PICK i \in Slots : job_list[i].pid = q /\ q # NoPid
        BY DEF Listed
      <4>2. i # k /\ job_list'[i] = job_list[i]
        BY <2>1, <2>3, <4>1
      <4> QED
        BY <4>1, <4>2, TableIs, TableIsPrimed DEF TableIsList
    <3> QED
      BY <3>1, <3>2
  <2>6. JobsTable' = [q \in Listed \union {pid} |->
                        IF q = pid THEN state ELSE JobsTable[q]]
    <3>1. DOMAIN JobsTable' = Listed'
      BY TableIsPrimed DEF TableIsList
    <3>2. JobsTable' = [q \in Listed' |-> JobsTable'[q]]
      BY <3>1 DEF JobsTable
    <3> QED
      BY <2>4, <2>5, <3>2
  <2>7. DOMAIN JobsTable = Listed
    BY TableIs DEF TableIsList
  <2>8. {p \in Listed : JobsTable[p] = "FG"} = {}
    <3> SUFFICES ASSUME NEW p \in Listed, JobsTable[p] = "FG" PROVE FALSE
      OBVIOUS
    <3>1. PICK i \in Slots : job_list[i].pid = p /\ p # NoPid
      BY DEF Listed
    <3>2. job_list[i].state = "FG"
      BY <3>1, TableIs DEF TableIsList
    <3> QED
      BY <3>2 DEF ForegroundSlots
  <2>9. Cardinality(Listed) < MaxJobs
    BY <1>2, RoomLeft DEF ListInv
  <2>10. Table!Cardinality(Listed) = Cardinality(Listed)
    BY DEF Table!Cardinality, Cardinality
  <2> QED
    BY <2>6, <2>7, <2>8, <2>9, <2>10 DEF Table!Track, Table!Tracked, Table!Foreground
<1> QED
  BY <1>1, <1>2

\* delete_job forgets a process, unless it is not listed.
LEMMA DeleteJobForgets ==
    ASSUME ListInv, ListInv', NEW pid \in Pids, delete_job(pid)
    PROVE  Table!Forget(pid) \/ UNCHANGED JobsTable
<1> DEFINE k == find_job_with_pid(pid)
<1>1. CASE k = NULL
  <2>1. job_list' = job_list
    BY <1>1 DEF delete_job, list_vars
  <2> QED
    BY <2>1 DEF JobsTable, Listed, find_job_with_pid
<1>2. CASE k # NULL
  <2>1. k \in Slots /\ job_list[k].pid = pid /\ pid \in Listed
    BY <1>2, FindPid DEF ListInv
  <2>2. job_list' = [job_list EXCEPT ![k] = ClearedJob]
    BY <1>2 DEF delete_job
  <2> HIDE DEF k
  <2>3. /\ job_list'[k].pid = NoPid
        /\ \A i \in Slots : i # k => job_list'[i] = job_list[i]
    BY <2>1, <2>2 DEF ListInv, ListTypeOK, ClearedJob
  <2>4. \A i \in Slots : job_list[i].pid = pid => i = k
    BY <2>1, PidsAssumption DEF ListInv, PidsUnique
  <2>5. Listed' = Listed \ {pid}
    BY <2>1, <2>3, <2>4 DEF Listed
  <2>6. ASSUME NEW q \in Listed \ {pid} PROVE JobsTable'[q] = JobsTable[q]
    <3>1. PICK i \in Slots : job_list[i].pid = q /\ q # NoPid
      BY <2>6 DEF Listed
    <3>2. i # k /\ job_list'[i] = job_list[i]
      BY <2>1, <2>3, <2>6, <3>1
    <3> QED
      BY <3>1, <3>2, TableIs, TableIsPrimed DEF TableIsList
  <2>7. JobsTable' = [q \in Listed \ {pid} |-> JobsTable[q]]
    <3>1. DOMAIN JobsTable' = Listed'
      BY TableIsPrimed DEF TableIsList
    <3>2. JobsTable' = [q \in Listed' |-> JobsTable'[q]]
      BY <3>1 DEF JobsTable
    <3> QED
      BY <2>5, <2>6, <3>2
  <2>8. DOMAIN JobsTable = Listed
    BY TableIs DEF TableIsList
  <2> QED
    BY <2>1, <2>7, <2>8 DEF Table!Forget, Table!Tracked
<1> QED
  BY <1>1, <1>2

\* set_state_of_job moves a job along one edge of the state diagram, or leaves
\* it in the state it had.
LEMMA SetStateChanges ==
    ASSUME ListInv, ListInv', NEW jobp \in Slots, NEW state \in {"FG", "BG", "ST"},
           job_list[jobp].pid # NoPid,
           state \in {"FG", "BG"} => ForegroundSlots = {},
           set_state_of_job(jobp, state)
    PROVE  \/ Table!Change(job_list[jobp].pid, state)
           \/ UNCHANGED JobsTable
<1> DEFINE pid == job_list[jobp].pid
<1>1. job_list' = [job_list EXCEPT ![jobp].state = state]
  BY DEF set_state_of_job
<1>2. \A i \in Slots : /\ job_list'[i].pid = job_list[i].pid
                       /\ job_list'[i].state =
                             IF i = jobp THEN state ELSE job_list[i].state
  BY <1>1 DEF ListInv, ListTypeOK, job_t
<1>3. Listed' = Listed /\ pid \in Listed
  BY <1>2 DEF Listed
<1>4. JobsTable[pid] = job_list[jobp].state /\ JobsTable'[pid] = state
  <2>1. JobsTable'[job_list'[jobp].pid] = job_list'[jobp].state
    BY <1>2, TableIsPrimed DEF TableIsList
  <2>2. JobsTable[pid] = job_list[jobp].state
    BY TableIs DEF TableIsList
  <2> QED
    BY <1>2, <2>1, <2>2
<1>5. ASSUME NEW q \in Listed, q # pid PROVE JobsTable'[q] = JobsTable[q]
  <2>1. PICK i \in Slots : job_list[i].pid = q /\ q # NoPid
    BY DEF Listed
  <2>2. JobsTable[q] = job_list[i].state
    BY <2>1, TableIs DEF TableIsList
  <2>3. job_list'[i].pid = q /\ job_list'[i].state = job_list[i].state
    BY <1>2, <1>5, <2>1
  <2>4. JobsTable'[q] = job_list'[i].state
    BY <2>1, <2>3, TableIsPrimed DEF TableIsList
  <2> QED
    BY <2>2, <2>3, <2>4
<1>6. DOMAIN JobsTable = Listed /\ DOMAIN JobsTable' = Listed
  BY <1>3, TableIs, TableIsPrimed DEF TableIsList
<1>7. JobsTable' = [JobsTable EXCEPT ![pid] = state]
  BY <1>3, <1>4, <1>5, <1>6 DEF JobsTable
<1>8. CASE job_list[jobp].state = state
  BY <1>3, <1>4, <1>6, <1>7, <1>8 DEF JobsTable
<1>9. CASE job_list[jobp].state # state
  <2>1. job_list[jobp].state \in {"FG", "BG", "ST"}
    BY DEF ListInv, ListTypeOK, job_t, job_state, SlotsCoherent
  <2>2. state \in {"FG", "BG"} => job_list[jobp].state # "FG"
    BY DEF ForegroundSlots
  <2>3. <<job_list[jobp].state, state>> \in Table!Transitions
    BY <1>9, <2>1, <2>2 DEF Table!Transitions
  <2>4. state \in {"FG", "BG"} => {p \in Listed : JobsTable[p] = "FG"} = {}
    <3> SUFFICES ASSUME ForegroundSlots = {}, NEW p \in Listed, JobsTable[p] = "FG"
                 PROVE  FALSE
      OBVIOUS
    <3>1. PICK i \in Slots : job_list[i].pid = p /\ p # NoPid
      BY DEF Listed
    <3>2. job_list[i].state = "FG"
      BY <3>1, TableIs DEF TableIsList
    <3> QED
      BY <3>2 DEF ForegroundSlots
  <2> QED
    BY <1>3, <1>4, <1>6, <1>7, <2>3, <2>4
       DEF Table!Change, Table!Tracked, Table!Foreground
<1> QED
  BY <1>8, <1>9

\* Every step of the list is a step of the table or changes nothing there.
LEMMA StepTable ==
    ListInv /\ ListInv' /\ [ListNext]_list_vars => [Table!TableNext]_JobsTable
<1> SUFFICES ASSUME ListInv, ListInv', [ListNext]_list_vars
             PROVE  Table!TableNext \/ UNCHANGED JobsTable
  OBVIOUS
<1>1. ASSUME NEW pid \in Pids, NEW state \in {"FG", "BG"}, Launch(pid, state)
      PROVE  Table!TableNext \/ UNCHANGED JobsTable
  <2>1. Table!Track(pid, state) \/ UNCHANGED JobsTable
    BY <1>1, AddJobTracks DEF Launch
  <2> QED
    BY <2>1 DEF Table!TableNext, Table!TableStates
<1>2. ASSUME NEW pid \in Pids, delete_job(pid)
      PROVE  Table!TableNext \/ UNCHANGED JobsTable
  BY <1>2, DeleteJobForgets DEF Table!TableNext
<1>3. ASSUME NEW jobp \in Slots, NEW state \in {"FG", "BG", "ST"},
             ChangeState(jobp, state)
      PROVE  Table!TableNext \/ UNCHANGED JobsTable
  <2>1. Table!Change(job_list[jobp].pid, state) \/ UNCHANGED JobsTable
    BY <1>3, SetStateChanges DEF ChangeState
  <2>2. job_list[jobp].pid \in Pids
    BY <1>3 DEF ChangeState, ListInv, ListTypeOK, job_t
  <2> QED
    BY <2>1, <2>2 DEF Table!TableNext, Table!TableStates
<1>4. CASE UNCHANGED list_vars
  BY <1>4 DEF list_vars, JobsTable, Listed, find_job_with_pid
<1> QED
  BY <1>1, <1>2, <1>3, <1>4 DEF ListNext

\* The array of slots with its job IDs implements the abstract table: searches,
\* insertions and deletions never lose, duplicate or confuse jobs.
THEOREM ListImplementsTable == ListSpec => ImplementsTable
<1>1. init_job_list => Table!TableInit
  BY InitTable
<1>2. ListInv /\ ListInv' /\ [ListNext]_list_vars => [Table!TableNext]_JobsTable
  BY StepTable
<1> QED
  BY <1>1, <1>2, ListInvariant, PTL DEF ListSpec, ImplementsTable, Table!TableSpec

=============================================================================
