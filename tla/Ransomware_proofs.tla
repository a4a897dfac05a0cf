------------------------- MODULE Ransomware_proofs -------------------------
(***************************************************************************)
(* Proofs about the syncs of the ransomware groups, for any number of      *)
(* groups, of syncs of every kind and any size of the batches: what the    *)
(* progress snapshot says of the followed syncs, and that details are      *)
(* never lost.                                                             *)
(***************************************************************************)
EXTENDS Ransomware, FiniteSetTheorems, TLAPS

\* The steps of the composition are steps of the syncs of the groups.
LEMMA GroupsSteps ==
  /\ Init => Groups!Init
  /\ [Next]_vars => [Groups!Next]_(Groups!groupsVars)
<1>1. Init => Groups!Init
  BY DEF Init
<1>2. [Next]_vars => [Groups!Next]_(Groups!groupsVars)
  BY DEF Next, vars, Groups!groupsVars, groups, victims, InGroups, InVictims
<1>3. QED
  BY <1>1, <1>2

LEMMA GroupsCardinality == \A S : Groups!Cardinality(S) = Cardinality(S)
  BY DEF Groups!Cardinality, Cardinality

LEMMA FiniteGroup == IsFiniteSet(Group) /\ Followed \cap Unfollowed = {}
<1>1. Groups!IsFiniteSet(Group) /\ Followed \cap Unfollowed = {}
  BY RansomwareAssumption DEF RansomwareAssumption, Groups!GroupsAssumption
<1>2. QED
  BY <1>1 DEF Groups!IsFiniteSet, IsFiniteSet

\* The sizes that the progress is computed from.
LEMMA Sizes ==
  /\ Cardinality(Group) \in Nat /\ Cardinality({}) = 0
  /\ \A S \in SUBSET Group : IsFiniteSet(S) /\ Cardinality(S) \in Nat
  /\ \A S \in SUBSET Group : \A g \in S : Cardinality(S \ {g}) = Cardinality(S) - 1
  /\ \A S \in SUBSET Group : \A b \in SUBSET S :
       Cardinality(S \ b) + Cardinality(b) = Cardinality(S)
<1>1. \A S \in SUBSET Group : IsFiniteSet(S)
  BY FiniteGroup, FS_Subset
<1>2. \A S \in SUBSET Group : Cardinality(S) \in Nat
  BY <1>1, FS_CardinalityType
<1>3. \A S \in SUBSET Group : \A g \in S : Cardinality(S \ {g}) = Cardinality(S) - 1
  BY <1>1, FS_RemoveElement
<1>4. ASSUME NEW S \in SUBSET Group, NEW b \in SUBSET S
      PROVE  Cardinality(S \ b) + Cardinality(b) = Cardinality(S)
  <2>1. PICK c \in SUBSET S : c = S \ b
    OBVIOUS
  <2>2. IsFiniteSet(c) /\ IsFiniteSet(b) /\ c \cap b = {} /\ c \cup b = S
    BY <1>1, <2>1
  <2>3. Cardinality(c \cup b) = Cardinality(c) + Cardinality(b) - Cardinality(c \cap b)
    BY <2>2, FS_Union
  <2>4. Cardinality(S) = Cardinality(c) + Cardinality(b) - Cardinality({})
    BY <2>2, <2>3, Zenon
  <2>5. Cardinality(c) \in Nat /\ Cardinality(b) \in Nat /\ Cardinality({}) = 0
    BY <1>2, FS_EmptySet
  <2>6. Cardinality(c) + Cardinality(b) = Cardinality(S)
    BY <2>4, <2>5
  <2>7. QED
    BY <2>1, <2>6
<1>5. QED
  BY <1>1, <1>2, <1>3, <1>4, FS_EmptySet

-----------------------------------------------------------------------------
(***************************************************************************)
(* The inductive invariant.  At most one followed sync is under way, while *)
(* the snapshot says "running"; and every group is one that the sync has   *)
(* still to ask for, has asked for or has counted.                         *)
(***************************************************************************)

Job == Followed \cup Unfollowed
JobState ==
  [pc : {"idle", "names", "pause", "batch", "stamp"}, todo : SUBSET Group, asked : SUBSET Group,
   got : [Group -> Nat], counted : Nat]
ProgressState ==
  [status : {"idle", "running", "completed", "failed"}, total : Nat, processed : Nat]

Typed ==
  /\ version \in Nat \ {0}
  /\ row \in [Group -> [victims : Nat, details : Nat]]
  /\ job \in [Job -> JobState] /\ progress \in ProgressState
  /\ list \in [pc : {"idle", "save"}, got : Nat, todo : SUBSET Group]

\* A followed sync in state s and the snapshot p.
Counts(s, p) ==
  /\ s.pc \in {"idle", "names"} => s.counted = 0 /\ s.asked = {}
  /\ s.pc \in {"pause", "stamp"} => s.asked = {}
  /\ s.pc \in {"pause", "batch", "stamp"} =>
       /\ s.counted + Cardinality(s.asked) + Cardinality(s.todo) = Cardinality(Group)
       /\ p.total = Cardinality(Group)
  /\ s.pc = "stamp" => s.todo = {} /\ p.processed = s.counted

Apart ==
  /\ \A j, k \in Followed : Groups!UnderWay(j) /\ Groups!UnderWay(k) => j = k
  /\ (\E j \in Followed : Groups!UnderWay(j)) <=> progress.status = "running"

ProgressInv == Typed /\ Apart /\ \A j \in Followed : Counts(job[j], progress)

LEMMA NoJobState ==
  /\ Groups!NoJob \in JobState /\ Groups!NoJob.pc = "idle"
  /\ \A p \in ProgressState : Counts(Groups!NoJob, p)
  BY Sizes DEF Groups!NoJob, Groups!Absent, JobState, Counts

LEMMA ProgressInit == Groups!Init => ProgressInv
<1> SUFFICES ASSUME Groups!Init PROVE ProgressInv
  OBVIOUS
<1>1. Typed
  BY NoJobState DEF Groups!Init, Typed, Job, ProgressState, Groups!NoList, Groups!Absent
<1>2. \A j \in Followed : job[j] = Groups!NoJob
  BY DEF Groups!Init
<1>3. progress.status # "running"
  BY DEF Groups!Init
<1>4. QED
  BY <1>1, <1>2, <1>3, NoJobState DEF ProgressInv, Apart, Groups!UnderWay, Typed

\* A step that takes job j to state s.
LEMMA JobStep ==
  ASSUME ProgressInv, NEW j \in Job, NEW s \in JobState, job' = [job EXCEPT ![j] = s],
         progress' \in ProgressState, UNCHANGED <<version, list>>,
         row' \in [Group -> [victims : Nat, details : Nat]],
         j \in Followed => /\ Counts(s, progress')
                           /\ s.pc # "idle" <=> progress'.status = "running"
                           /\ job[j].pc = "idle" => progress.status # "running",
         j \notin Followed => progress' = progress
  PROVE  ProgressInv'
<1>1. Typed'
  BY DEF ProgressInv, Typed
<1>2. \A k \in Job : job'[k] = IF k = j THEN s ELSE job[k]
  BY DEF ProgressInv, Typed
<1>3. CASE j \in Followed
  <2>1. \A k \in Followed \ {j} : job[k].pc = "idle"
    BY <1>3 DEF ProgressInv, Apart, Groups!UnderWay
  <2>2. \A k \in Followed \ {j} : job'[k].pc = "idle"
    BY <1>2, <2>1 DEF Job
  <2>3. job'[j] = s
    BY <1>2
  <2>4. Apart'
    BY <1>3, <2>2, <2>3 DEF Apart, Groups!UnderWay
  <2>5. \A k \in Followed \ {j} : Counts(job'[k], progress')
    <3>1. \A k \in Followed \ {j} : Counts(job[k], progress) /\ job'[k] = job[k]
      BY <1>2 DEF ProgressInv, Job
    <3>2. QED
      BY <2>1, <3>1 DEF Counts
  <2>6. QED
    BY <1>1, <1>3, <2>3, <2>4, <2>5 DEF ProgressInv
<1>4. CASE j \notin Followed
  <2>1. \A k \in Followed : job'[k] = job[k]
    BY <1>2, <1>4 DEF Job
  <2>2. Apart'
    BY <1>4, <2>1 DEF ProgressInv, Apart, Groups!UnderWay
  <2>3. QED
    BY <1>1, <1>4, <2>1, <2>2 DEF ProgressInv
<1>5. QED
  BY <1>3, <1>4

\* A job that ends; the snapshot says so, if it is followed.
LEMMA EndStep ==
  ASSUME ProgressInv, NEW j \in Job, job[j].pc # "idle", job' = [job EXCEPT ![j] = Groups!NoJob],
         j \in Followed => progress' \in {Groups!Completed, Groups!Failed},
         j \notin Followed => progress' = progress,
         UNCHANGED <<version, row, list>>
  PROVE  ProgressInv'
<1>1. /\ Groups!Completed \in ProgressState /\ Groups!Completed.status # "running"
      /\ Groups!Failed \in ProgressState /\ Groups!Failed.status # "running"
  BY DEF ProgressInv, Typed, ProgressState, Groups!Completed, Groups!Failed
<1>2. progress' \in ProgressState /\ row' \in [Group -> [victims : Nat, details : Nat]]
  BY <1>1 DEF ProgressInv, Typed
<1>3. j \in Followed => progress'.status # "running"
  BY <1>1
<1>4. QED
  BY <1>2, <1>3, NoJobState, JobStep

LEMMA ProgressStep == ProgressInv /\ [Groups!Next]_(Groups!groupsVars) => ProgressInv'
<1> SUFFICES ASSUME ProgressInv, [Groups!Next]_(Groups!groupsVars) PROVE ProgressInv'
  OBVIOUS
<1>0. /\ job \in [Job -> JobState] /\ progress \in ProgressState /\ version \in Nat \ {0}
      /\ row \in [Group -> [victims : Nat, details : Nat]]
  BY DEF ProgressInv, Typed
<1>1. ASSUME NEW j \in Job, job[j].pc = "idle", NEW todo \in SUBSET Group,
             NEW pc \in {"names", "pause"}, UNCHANGED <<version, row, list>>,
             job' = [job EXCEPT ![j] = [job[j] EXCEPT !.pc = pc, !.todo = todo]],
             j \in Followed => /\ pc = "names" /\ progress.status # "running"
                               /\ progress' \in ProgressState /\ progress'.status = "running",
             j \notin Followed => progress' = progress
      PROVE  ProgressInv'
  <2> DEFINE s == [job[j] EXCEPT !.pc = pc, !.todo = todo]
  <2>1. s \in JobState /\ s.pc = pc /\ s.counted = job[j].counted /\ s.asked = job[j].asked
    BY <1>0, <1>1 DEF JobState
  <2> HIDE DEF s
  <2>2. j \in Followed => Counts(s, progress')
    BY <1>1, <2>1 DEF Counts, ProgressInv
  <2>3. job' = [job EXCEPT ![j] = s] /\ s.pc # "idle"
    BY <1>1, <2>1 DEF s
  <2>4. progress' \in ProgressState
    BY <1>0, <1>1
  <2>5. j \in Followed => (s.pc # "idle" <=> progress'.status = "running")
    BY <1>1, <2>3
  <2>6. QED
    BY <1>0, <1>1, <2>1, <2>2, <2>3, <2>4, <2>5, JobStep
<1>2. ASSUME NEW j \in Groups!Free, Groups!Trigger(j) PROVE ProgressInv'
  <2>1. j \in Followed /\ j \in Job
    BY DEF Groups!Free, Job
  <2>2. progress' \in ProgressState /\ progress'.status = "running"
    BY <1>0, <1>2 DEF Groups!Trigger, Groups!Started, ProgressState
  <2>3. job' = [job EXCEPT ![j] = [job[j] EXCEPT !.pc = "names", !.todo = job[j].todo]]
    BY <1>0, <1>2, <2>1 DEF Groups!Trigger, JobState
  <2>4. job[j].todo \in SUBSET Group
    BY <1>0, <2>1 DEF JobState
  <2>5. QED
    BY <1>1, <1>2, <2>1, <2>2, <2>3, <2>4 DEF Groups!Trigger
<1>3. ASSUME NEW j \in Unfollowed, Groups!SyncGroups(j) PROVE ProgressInv'
  <2>1. j \notin Followed /\ j \in Job
    BY FiniteGroup DEF Job
  <2>2. job' = [job EXCEPT ![j] = [job[j] EXCEPT !.pc = "names", !.todo = job[j].todo]]
    BY <1>0, <1>3, <2>1 DEF Groups!SyncGroups, JobState
  <2>3. job[j].todo \in SUBSET Group
    BY <1>0, <2>1 DEF JobState
  <2>4. QED
    BY <1>1, <1>3, <2>1, <2>2, <2>3 DEF Groups!SyncGroups
<1>4. ASSUME NEW j \in Unfollowed, NEW g \in Group, Groups!RefreshGroup(j, g) PROVE ProgressInv'
  <2>1. j \notin Followed /\ j \in Job
    BY FiniteGroup DEF Job
  <2>2. job' = [job EXCEPT ![j] = [job[j] EXCEPT !.pc = "pause", !.todo = {g}]]
    BY <1>0, <1>4, <2>1 DEF Groups!RefreshGroup, JobState
  <2>3. QED
    BY <1>1, <1>4, <2>1, <2>2 DEF Groups!RefreshGroup
<1>5. ASSUME NEW j \in Job, Groups!Names(j) PROVE ProgressInv'
  <2> DEFINE s == [job[j] EXCEPT !.pc = "pause", !.todo = Group]
  <2>1. job' = [job EXCEPT ![j] = s]
    BY <1>0, <1>5 DEF Groups!Names
  <2>2. /\ s \in JobState /\ s.pc = "pause" /\ s.todo = Group
        /\ s.counted = job[j].counted /\ s.asked = job[j].asked
    BY <1>0 DEF JobState
  <2> HIDE DEF s
  <2>3. progress' = IF j \in Followed THEN Groups!Started(Cardinality(Group)) ELSE progress
    BY <1>5, GroupsCardinality DEF Groups!Names
  <2>4. /\ progress' \in ProgressState
        /\ j \in Followed => progress'.status = "running" /\ progress'.total = Cardinality(Group)
    BY <1>0, <2>3, Sizes DEF Groups!Started, ProgressState
  <2>5. j \in Followed => Counts(s, progress')
    <3>1. j \in Followed => job[j].counted = 0 /\ job[j].asked = {}
      BY <1>5 DEF Groups!Names, ProgressInv, Counts
    <3>2. QED
      BY <2>2, <2>4, <3>1, Sizes DEF Counts
  <2>6. QED
    BY <1>0, <1>5, <2>1, <2>2, <2>3, <2>4, <2>5, JobStep DEF Groups!Names
<1>6. ASSUME NEW j \in Job, Groups!NamesFail(j) \/ Groups!Stamp(j) \/ Groups!StampFails(j)
      PROVE  ProgressInv'
  <2>1. /\ job[j].pc # "idle" /\ job' = [job EXCEPT ![j] = Groups!NoJob]
        /\ j \in Followed => progress' \in {Groups!Completed, Groups!Failed}
        /\ j \notin Followed => progress' = progress
        /\ UNCHANGED <<version, row, list>>
    BY <1>6 DEF Groups!NamesFail, Groups!Stamp, Groups!StampFails
  <2>2. QED
    BY <2>1, EndStep
<1>7. ASSUME NEW j \in Job, Groups!Batch(j) PROVE ProgressInv'
  <2>1. PICK b \in SUBSET job[j].todo :
          job' = [job EXCEPT ![j].pc = "batch", ![j].todo = @ \ b, ![j].asked = b]
    BY <1>7 DEF Groups!Batch
  <2> DEFINE s == [job[j] EXCEPT !.pc = "batch", !.todo = job[j].todo \ b, !.asked = b]
  <2>2. job' = [job EXCEPT ![j] = s]
    BY <1>0, <2>1
  <2>3. /\ s \in JobState /\ s.pc = "batch" /\ s.todo = job[j].todo \ b
        /\ s.counted = job[j].counted /\ s.asked = b /\ job[j].todo \in SUBSET Group
        /\ job[j].counted \in Nat
    BY <1>0, <2>1 DEF JobState
  <2> HIDE DEF s
  <2>4. j \in Followed => Counts(s, progress)
    <3>1. j \in Followed => /\ job[j].asked = {} /\ progress.total = Cardinality(Group)
                            /\ job[j].counted + Cardinality(job[j].asked)
                                 + Cardinality(job[j].todo) = Cardinality(Group)
      BY <1>7 DEF Groups!Batch, ProgressInv, Counts
    <3>2. /\ Cardinality(job[j].todo \ b) + Cardinality(b) = Cardinality(job[j].todo)
          /\ Cardinality(job[j].todo \ b) \in Nat /\ Cardinality(b) \in Nat
      BY <2>3, Sizes
    <3>3. j \in Followed
        => s.counted + Cardinality(s.asked) + Cardinality(s.todo) = Cardinality(Group)
      BY <2>3, <3>1, <3>2, Sizes
    <3>4. QED
      BY <2>3, <3>1, <3>3 DEF Counts
  <2>5. j \in Followed => progress.status = "running"
    BY <1>7 DEF Groups!Batch, ProgressInv, Apart, Groups!UnderWay
  <2>6. progress' = progress /\ UNCHANGED <<version, row, list>> /\ job[j].pc = "pause"
    BY <1>7 DEF Groups!Batch
  <2>7. QED
    BY <1>0, <2>2, <2>3, <2>4, <2>5, <2>6, JobStep
<1>8. ASSUME NEW j \in Job, NEW g \in Group, Groups!Answer(j, g) PROVE ProgressInv'
  <2> DEFINE s == [job[j] EXCEPT !.got = [job[j].got EXCEPT ![g] = version]]
  <2>1. job' = [job EXCEPT ![j] = s]
    BY <1>0, <1>8 DEF Groups!Answer
  <2>2. /\ s \in JobState /\ s.pc = job[j].pc /\ s.todo = job[j].todo
        /\ s.counted = job[j].counted /\ s.asked = job[j].asked
    BY <1>0 DEF JobState
  <2> HIDE DEF s
  <2>3. progress' = progress /\ UNCHANGED <<version, row, list>>
    BY <1>8 DEF Groups!Answer
  <2>4. j \in Followed => Counts(s, progress)
    BY <2>2 DEF ProgressInv, Counts
  <2>5. j \in Followed => job[j].pc # "idle"
    BY <1>8 DEF Groups!Answer, ProgressInv, Counts
  <2>6. j \in Followed => progress.status = "running"
    BY <2>5 DEF ProgressInv, Apart, Groups!UnderWay
  <2>7. QED
    BY <1>0, <2>1, <2>2, <2>3, <2>4, <2>5, <2>6, JobStep
<1>9. ASSUME NEW j \in Job, NEW g \in Group, g \in job[j].asked, Groups!Counted(j, g),
             UNCHANGED <<version, progress, list>>,
             row' \in [Group -> [victims : Nat, details : Nat]]
      PROVE  ProgressInv'
  <2>0. PICK n \in Nat : n = IF j \in Followed THEN job[j].counted + 1 ELSE job[j].counted
    BY <1>0 DEF JobState
  <2> DEFINE got == [job[j].got EXCEPT ![g] = Groups!Absent]
             s == [job[j] EXCEPT !.asked = job[j].asked \ {g}, !.got = got, !.counted = n]
  <2>1. job' = [job EXCEPT ![j] = s]
    <3>1. job' = [job EXCEPT ![j].asked = job[j].asked \ {g}, ![j].got[g] = Groups!Absent,
                             ![j].counted = n]
      BY <1>9, <2>0 DEF Groups!Counted
    <3>2. QED
      BY <1>0, <3>1
  <2>2. n \in Nat /\ job[j].counted \in Nat
    BY <1>0 DEF JobState
  <2>3. /\ s \in JobState /\ s.pc = job[j].pc /\ s.todo = job[j].todo
        /\ s.counted = n /\ s.asked = job[j].asked \ {g}
    BY <1>0, <2>2 DEF JobState, Groups!Absent
  <2> HIDE DEF s
  <2>4. j \in Followed => job[j].pc = "batch"
    BY <1>0, <1>9 DEF ProgressInv, Counts, JobState
  <2>5. j \in Followed => Counts(s, progress)
    <3>1. /\ Cardinality(job[j].asked \ {g}) = Cardinality(job[j].asked) - 1
          /\ Cardinality(job[j].asked) \in Nat /\ Cardinality(job[j].todo) \in Nat
      BY <1>0, <1>9, Sizes DEF JobState
    <3>2. j \in Followed => /\ progress.total = Cardinality(Group)
                            /\ job[j].counted + Cardinality(job[j].asked)
                                 + Cardinality(job[j].todo) = Cardinality(Group)
      BY <2>4 DEF ProgressInv, Counts
    <3>3. j \in Followed
        => s.counted + Cardinality(s.asked) + Cardinality(s.todo) = Cardinality(Group)
      BY <2>0, <2>2, <2>3, <3>1, <3>2, Sizes
    <3>4. QED
      BY <2>3, <2>4, <3>2, <3>3 DEF Counts
  <2>6. j \in Followed => progress.status = "running"
    BY <2>4 DEF ProgressInv, Apart, Groups!UnderWay
  <2>7. QED
    BY <1>0, <1>9, <2>1, <2>3, <2>4, <2>5, <2>6, JobStep
<1>10. ASSUME NEW j \in Job, NEW g \in Group, Groups!Save(j, g) PROVE ProgressInv'
  <2>1. job[j].got[g] \in Nat
    BY <1>0 DEF JobState
  <2>2. row' \in [Group -> [victims : Nat, details : Nat]]
    BY <1>0, <1>10, <2>1 DEF Groups!Save
  <2>3. QED
    BY <1>9, <1>10, <2>2 DEF Groups!Save
<1>11. ASSUME NEW j \in Job, NEW g \in Group, Groups!GroupFails(j, g) PROVE ProgressInv'
  BY <1>0, <1>9, <1>11 DEF Groups!GroupFails
<1>12. ASSUME NEW j \in Job, Groups!BatchDone(j) PROVE ProgressInv'
  <2> DEFINE s == [job[j] EXCEPT !.pc = IF job[j].todo = {} THEN "stamp" ELSE "pause"]
  <2>1. job' = [job EXCEPT ![j] = s]
    BY <1>0, <1>12 DEF Groups!BatchDone
  <2>2. /\ s \in JobState /\ s.pc = (IF job[j].todo = {} THEN "stamp" ELSE "pause")
        /\ s.todo = job[j].todo /\ s.counted = job[j].counted /\ s.asked = job[j].asked
    BY <1>0 DEF JobState
  <2> HIDE DEF s
  <2>3. /\ UNCHANGED <<version, row, list>> /\ job[j].pc = "batch" /\ job[j].asked = {}
        /\ progress' = IF j \in Followed THEN Groups!Updated(job[j].counted) ELSE progress
    BY <1>12 DEF Groups!BatchDone
  <2>4. j \in Followed => progress.status = "running"
    BY <2>3 DEF ProgressInv, Apart, Groups!UnderWay
  <2>5. job[j].counted \in Nat
    BY <1>0 DEF JobState
  <2>6. /\ progress' \in ProgressState
        /\ j \in Followed => /\ progress'.status = "running" /\ progress'.total = progress.total
                             /\ progress'.processed = job[j].counted
    BY <1>0, <2>3, <2>4, <2>5 DEF Groups!Updated, ProgressState
  <2>7. j \in Followed => Counts(s, progress')
    <3>1. j \in Followed => /\ progress.total = Cardinality(Group)
                            /\ job[j].counted + Cardinality(job[j].asked)
                                 + Cardinality(job[j].todo) = Cardinality(Group)
      BY <2>3 DEF ProgressInv, Counts
    <3>2. QED
      BY <2>2, <2>3, <2>6, <3>1 DEF Counts
  <2>8. QED
    BY <1>0, <2>1, <2>2, <2>3, <2>4, <2>6, <2>7, JobStep
<1>13. ASSUME UNCHANGED <<job, progress>>, Typed' PROVE ProgressInv'
  BY <1>13 DEF ProgressInv, Apart, Groups!UnderWay, Counts
<1>14. ASSUME NEW g \in Group, Groups!SaveListed(g) PROVE ProgressInv'
  <2>1. Typed'
    BY <1>14 DEF Groups!SaveListed, ProgressInv, Typed
  <2>2. QED
    BY <1>13, <1>14, <2>1 DEF Groups!SaveListed
<1>15. CASE \/ Groups!ReadList \/ Groups!ListDone \/ Groups!ListFails \/ Groups!ApiChanges
            \/ Groups!ChangeSource
  <2>1. Typed'
    BY <1>15 DEF Groups!ReadList, Groups!ListDone, Groups!ListFails, Groups!ApiChanges,
                 Groups!ChangeSource, Groups!NoList, Groups!Absent, ProgressInv, Typed
  <2>2. QED
    BY <1>13, <1>15, <2>1
       DEF Groups!ReadList, Groups!ListDone, Groups!ListFails, Groups!ApiChanges,
           Groups!ChangeSource
<1>16. CASE UNCHANGED Groups!groupsVars
  BY <1>13, <1>16 DEF Groups!groupsVars, ProgressInv, Typed
<1>17. QED
  BY <1>2, <1>3, <1>4, <1>5, <1>6, <1>7, <1>8, <1>10, <1>11, <1>12, <1>14, <1>15, <1>16
     DEF Groups!Next, Groups!Proceed, Groups!RefreshList, Groups!Fails, Job

\* The snapshot says "running" while one followed sync is under way, never two, and at no other
\* time; and one that is about to be completed has reported every group.
THEOREM ProgressCorrect == Spec => []ProgressHonest
<1>1. ProgressInv => Groups!ProgressHonest
  <2> SUFFICES ASSUME ProgressInv PROVE Groups!ProgressHonest
    OBVIOUS
  <2> DEFINE U == {j \in Followed : Groups!UnderWay(j)}
  <2>1. CASE progress.status = "running"
    <3>1. PICK j \in Followed : Groups!UnderWay(j)
      BY <2>1 DEF ProgressInv, Apart
    <3>2. U = {j}
      BY <3>1 DEF ProgressInv, Apart
    <3>3. Cardinality(U) = 1
      BY <3>2, FS_Singleton
    <3>4. QED
      BY <2>1, <3>3, GroupsCardinality DEF Groups!ProgressHonest
  <2>2. CASE progress.status # "running"
    <3>1. U = {}
      BY <2>2 DEF ProgressInv, Apart
    <3>2. Cardinality(U) = 0
      BY <3>1, FS_EmptySet
    <3>3. QED
      BY <2>2, <3>2, GroupsCardinality DEF Groups!ProgressHonest
  <2>3. QED
    BY <2>1, <2>2
<1>2. ProgressInv => Groups!EveryGroupReported
  <2> SUFFICES ASSUME ProgressInv, NEW j \in Followed, job[j].pc = "stamp"
               PROVE  progress.processed = progress.total /\ progress.total = Cardinality(Group)
    BY GroupsCardinality DEF Groups!EveryGroupReported
  <2>1. job[j].counted \in Nat
    BY DEF ProgressInv, Typed, JobState, Job
  <2>2. /\ job[j].asked = {} /\ job[j].todo = {} /\ progress.processed = job[j].counted
        /\ progress.total = Cardinality(Group)
        /\ job[j].counted + Cardinality(job[j].asked) + Cardinality(job[j].todo)
             = Cardinality(Group)
    BY DEF ProgressInv, Counts
  <2>3. QED
    BY <2>1, <2>2, Sizes
<1>3. ProgressInv => ProgressHonest
  BY <1>1, <1>2 DEF ProgressHonest
<1>4. QED
  BY GroupsSteps, ProgressInit, ProgressStep, <1>3, PTL DEF Spec, Safety

-----------------------------------------------------------------------------
\* No step of any sync takes the details of a group away: the list refresh writes its own columns,
\* and a detail sync writes only what was answered.
THEOREM DetailsCorrect == Spec => DetailsKept
<1>1. ProgressInv /\ [Next]_vars => [Groups!DetailsKept]_vars
  <2> SUFFICES ASSUME ProgressInv, Next, NEW g \in Group, row[g].details # Groups!Absent
               PROVE  row'[g].details # Groups!Absent
    BY DEF Groups!DetailsKept
  <2>1. row \in [Group -> [victims : Nat, details : Nat]]
    BY DEF ProgressInv, Typed
  <2>2. ASSUME NEW j, NEW h \in Group, Groups!Save(j, h) PROVE row'[g].details # Groups!Absent
    BY <2>1, <2>2 DEF Groups!Save
  <2>3. ASSUME NEW h \in Group, Groups!SaveListed(h) PROVE row'[g].details # Groups!Absent
    BY <2>1, <2>3 DEF Groups!SaveListed
  <2>4. CASE UNCHANGED row
    BY <2>4
  <2>5. CASE InGroups /\ Groups!Next
    BY <2>2, <2>3, <2>4, <2>5
       DEF Groups!Next, Groups!Proceed, Groups!RefreshList, Groups!Fails, Groups!Trigger,
           Groups!SyncGroups, Groups!RefreshGroup, Groups!Names, Groups!NamesFail, Groups!Batch,
           Groups!Answer, Groups!GroupFails, Groups!BatchDone, Groups!Stamp, Groups!StampFails,
           Groups!ReadList, Groups!ListDone, Groups!ListFails, Groups!ApiChanges,
           Groups!ChangeSource
  <2>6. CASE InVictims /\ Victims!Next
    BY <2>4, <2>6 DEF InVictims, groups
  <2>7. QED
    BY <2>5, <2>6 DEF Next
<1>2. QED
  BY GroupsSteps, ProgressInit, ProgressStep, <1>1, PTL DEF Spec, Safety, DetailsKept
=============================================================================
