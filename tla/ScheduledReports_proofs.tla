------------------------ MODULE ScheduledReports_proofs ------------------------
(***************************************************************************)
(* Proofs about ScheduledReports, for any set of processes, recipients and *)
(* schedules.  IInv adds to the invariants what a process may rely on      *)
(* between its statements: settings of the current revision are the        *)
(* current settings, and a slot to be handled is a slot of its settings.   *)
(***************************************************************************)
EXTENDS ScheduledReports, TLAPS

\* What a process knows (processTenantReport, from the read of the settings to the transaction).
ProcessOK(q) ==
  /\ q.now <= clock
  /\ q.pc \in {"cursor", "check", "commit"} =>
       q.row.rev <= settings.rev /\ (q.row.rev = settings.rev => q.row = settings)
  /\ q.pc \in {"check", "commit"} =>
       /\ q.row.slots \in Schedules
       /\ q.dueFrom \in q.row.slots /\ q.latest \in q.row.slots
       /\ q.dueFrom <= q.latest /\ q.latest <= clock
  /\ q.pc = "commit" =>
       /\ q.inputs \subseteq DeliveryKeys(q)
       /\ q.skip = "NONE" => q.inputs = DeliveryKeys(q) \/ \A k \in DeliveryKeys(q) : mail[k] # NoMail

ProcessesOK == \A p \in Schedulers : ProcessOK(sched[p])

\* The history starts before the cursor did.
FateStarts == cursor.nextRunAt # Null => fate.from <= cursor.nextRunAt

\* Without a cursor there is no history, and the settings are those from before cursors: a save
\* writes the cursor too.
NoCursorNoFate == cursor.rev = Null => fate.queued = {} /\ fate.skipped = {} /\ settings.rev = 0

\* A disabled schedule waits for nothing.
WaitsForASlot == cursor.rev # Null => (cursor.nextRunAt = Null <=> settings.slots = {})

\* What a mail in the queue says of the suspensions (dispatchScheduledReport compares with its
\* createdAt, not with its slot).
MailOK ==
  \A k \in Keys : mail[k].status = "PENDING" =>
    /\ mail[k].createdAt \in Instants /\ mail[k].createdAt <= clock
    /\ tenant.changedAt < mail[k].createdAt => tenant.changedAt <= k[1]

\* A save is one of the changes that are counted.
RevisionsAreChanges == settings.rev <= changes

IInv == /\ TypeOK /\ CursorFitsSettings /\ EverySlotHasOneFate /\ QueuedForEveryRecipient
        /\ ProcessesOK /\ FateStarts /\ NoCursorNoFate /\ WaitsForASlot /\ MailOK
        /\ RevisionsAreChanges

-----------------------------------------------------------------------------
(* The occurrences of a schedule *)

\* Every slot is a natural number.
LEMMA SlotsAreNat == Slots \subseteq Nat /\ \A S \in Schedules : S \subseteq Slots
BY SchedulesAssumption DEF Slots

\* latestDueOccurrence is the last slot that is not after now.
LEMMA Latest ==
  ASSUME NEW S \in Schedules, NEW t \in Instants
  PROVE  /\ S # {}
         /\ latestDueOccurrence(S, t) \in S
         /\ latestDueOccurrence(S, t) <= t
         /\ \A r \in S : r <= t => r <= latestDueOccurrence(S, t)
<1>1. \E s \in S : s <= t /\ \A r \in S : r <= t => r <= s
  BY SchedulesAssumption
<1> QED BY <1>1 DEF latestDueOccurrence

\* nextScheduledOccurrence is the first slot after an instant.
LEMMA NextSlot ==
  ASSUME NEW S \in Schedules, NEW t \in Instants
  PROVE  /\ nextScheduledOccurrence(S, t) \in S
         /\ nextScheduledOccurrence(S, t) > t
         /\ \A r \in S : r > t => nextScheduledOccurrence(S, t) <= r
<1>1. \E s \in S : s > t /\ \A r \in S : r > t => s <= r
  BY SchedulesAssumption
<1> QED BY <1>1 DEF nextScheduledOccurrence

\* A cursor starts with a slot, or with none if the schedule is disabled.
LEMMA FirstSlot ==
  ASSUME NEW S \in Schedules, NEW t \in Instants, NEW savedAt \in Instants
  PROVE  /\ initialReportNextRunAt(S, t) \in S
         /\ bootstrapNextRunAt(S, savedAt, t) \in S
BY Latest, NextSlot DEF initialReportNextRunAt, bootstrapNextRunAt

\* A save in the minute of a slot starts with that slot, any other with the next one: from the
\* first instant whose minute is not over no slot is left out, and none of before is taken in.
LEMMA FirstAfterSave ==
  ASSUME NEW S \in Schedules, NEW t \in Instants
  PROVE  /\ t - Minute + 1 <= initialReportNextRunAt(S, t)
         /\ \A s \in S : ~(t - Minute + 1 <= s /\ s < initialReportNextRunAt(S, t))
<1> DEFINE l == latestDueOccurrence(S, t)
           n == nextScheduledOccurrence(S, t)
<1>1. l \in S /\ l <= t /\ \A r \in S : r <= t => r <= l
  BY Latest
<1>2. n \in S /\ n > t /\ \A r \in S : r > t => n <= r
  BY NextSlot
<1>3. S \subseteq Nat /\ t \in Nat /\ Minute \in Nat \ {0} /\ \A r, s \in S : r < s => r + Minute <= s
  BY SchedulesAssumption, TimesAssumption DEF Instants
<1>4. initialReportNextRunAt(S, t) = IF t < l + Minute THEN l ELSE n
  BY <1>1, <1>3 DEF initialReportNextRunAt, Null
<1> HIDE DEF l, n
<1>5. CASE t < l + Minute
  BY <1>1, <1>3, <1>4, <1>5
<1>6. CASE ~(t < l + Minute)
  BY <1>1, <1>2, <1>3, <1>4, <1>6
<1> QED BY <1>5, <1>6

\* A disabled schedule has no occurrence.
LEMMA NoSlot ==
  ASSUME NEW t, NEW savedAt
  PROVE  /\ initialReportNextRunAt({}, t) = Null
         /\ bootstrapNextRunAt({}, savedAt, t) = Null
         /\ nextScheduledOccurrence({}, t) = Null
BY DEF initialReportNextRunAt, bootstrapNextRunAt, nextScheduledOccurrence, latestDueOccurrence

\* Null is no slot.
LEMMA NullIsNoSlot == Null \notin Slots /\ \A s \in Slots : Null < s
BY SlotsAreNat DEF Null

-----------------------------------------------------------------------------
(* The initial states *)

\* A tenant without a cursor has no history to account for.
LEMMA InitInv == Init => IInv
<1> SUFFICES ASSUME Init PROVE IInv
  OBVIOUS
<1>1. TypeOK
  BY TimesAssumption, BoundsAssumption
  DEF Init, TypeOK, Instants, Settings, Cursor, Scheduler, Idle, NoSettings, NoMail, PCs, SkipReasons, Null
<1>2. ProcessesOK
  <2> SUFFICES ASSUME NEW p \in Schedulers PROVE ProcessOK(sched[p])
    BY DEF ProcessesOK
  <2>1. sched[p].pc = "idle" /\ sched[p].now = 0 /\ clock = 0
    BY DEF Init, Idle
  <2> QED BY <2>1 DEF ProcessOK
<1>3. EverySlotHasOneFate /\ QueuedForEveryRecipient /\ CursorFitsSettings
  BY DEF Init, EverySlotHasOneFate, QueuedForEveryRecipient, CursorFitsSettings
<1>4. FateStarts /\ NoCursorNoFate /\ WaitsForASlot
  BY DEF Init, FateStarts, NoCursorNoFate, WaitsForASlot
<1>5. MailOK
  BY DEF Init, MailOK, NoMail
<1>6. RevisionsAreChanges
  BY DEF Init, RevisionsAreChanges
<1> QED BY <1>1, <1>2, <1>3, <1>4, <1>5, <1>6 DEF IInv

-----------------------------------------------------------------------------
(* Steps of a process that touch nothing else *)

\* A process that returns knows nothing.
LEMMA IdleIsOK ==
  ASSUME TypeOK
  PROVE  Idle \in Scheduler /\ ProcessOK(Idle)
BY TimesAssumption, BoundsAssumption
DEF TypeOK, Scheduler, Idle, NoSettings, Settings, Instants, PCs, SkipReasons, Null, ProcessOK

\* Nothing but what one process knows changes.
LEMMA Quiet ==
  ASSUME IInv, NEW p \in Schedulers, NEW q \in Scheduler, ProcessOK(q),
         sched' = [sched EXCEPT ![p] = q],
         UNCHANGED <<clock, settings, cursor, tenant, licensed, mail, fate>>,
         changes' \in 0..MaxChanges, changes <= changes'
  PROVE  IInv'
<1> USE DEF IInv
<1>1. TypeOK'
  BY DEF TypeOK
<1>2. ProcessesOK'
  <2> SUFFICES ASSUME NEW r \in Schedulers PROVE ProcessOK(sched[r])'
    BY DEF ProcessesOK
  <2>1. CASE r = p
    <3>1. sched'[r] = q
      BY <2>1 DEF TypeOK
    <3> QED BY <3>1 DEF ProcessOK, DeliveryKeys
  <2>2. CASE r # p
    <3>1. sched'[r] = sched[r] /\ ProcessOK(sched[r])
      BY <2>2 DEF TypeOK, ProcessesOK
    <3> QED BY <3>1 DEF ProcessOK, DeliveryKeys
  <2> QED BY <2>1, <2>2
<1>3. EverySlotHasOneFate' /\ QueuedForEveryRecipient' /\ CursorFitsSettings'
  BY DEF EverySlotHasOneFate, QueuedForEveryRecipient, CursorFitsSettings
<1>4. FateStarts' /\ NoCursorNoFate' /\ WaitsForASlot'
  BY DEF FateStarts, NoCursorNoFate, WaitsForASlot
<1>5. MailOK'
  BY DEF MailOK
<1>6. RevisionsAreChanges'
  BY DEF RevisionsAreChanges, TypeOK, Settings
<1> QED BY <1>1, <1>2, <1>3, <1>4, <1>5, <1>6

\* A process returns, or dies.
LEMMA ReturnInv ==
  ASSUME IInv, NEW p \in Schedulers, Return(p),
         UNCHANGED <<clock, settings, cursor, tenant, licensed, mail, fate>>,
         changes' \in 0..MaxChanges, changes <= changes'
  PROVE  IInv'
BY IdleIsOK, Quiet DEF Return, IInv

\* What the fields of a process can be, and the one that is known.
LEMMA Known ==
  ASSUME IInv, NEW p \in Schedulers
  PROVE  sched[p] \in Scheduler /\ ProcessOK(sched[p]) /\ clock \in Instants /\ changes \in 0..MaxChanges /\ changes <= changes
BY DEF IInv, TypeOK, ProcessesOK

\* The cycle starts, lists the tenant and reads its settings.
LEMMA ScanInv ==
  ASSUME IInv, NEW p \in Schedulers, Start(p) \/ ListTenants(p) \/ ReadSettings(p)
  PROVE  IInv'
<1> DEFINE q == sched[p]
<1> USE Known DEF Others
<1>1. CASE Start(p)
  <2> DEFINE n == [q EXCEPT !.pc = "list", !.now = clock]
  <2>1. n \in Scheduler
    BY DEF Scheduler, PCs
  <2>2. ProcessOK(n)
    BY DEF ProcessOK, Scheduler, Instants
  <2>3. sched' = [sched EXCEPT ![p] = n]
    BY <1>1 DEF Start, IInv, TypeOK
  <2> HIDE DEF n
  <2> QED BY <1>1, <2>1, <2>2, <2>3, Quiet DEF Start
<1>2. CASE ListTenants(p) /\ tenant.isActive = "YES"
  <2> DEFINE n == [q EXCEPT !.pc = "settings"]
  <2>1. n \in Scheduler
    BY DEF Scheduler, PCs
  <2>2. ProcessOK(n)
    BY DEF ProcessOK, Scheduler, Instants
  <2>3. sched' = [sched EXCEPT ![p] = n]
    BY <1>2 DEF ListTenants, IInv, TypeOK
  <2> HIDE DEF n
  <2> QED BY <1>2, <2>1, <2>2, <2>3, Quiet DEF ListTenants
<1>3. CASE ListTenants(p) /\ tenant.isActive # "YES"
  BY <1>3, ReturnInv DEF ListTenants
<1>4. CASE ReadSettings(p)
  <2> DEFINE n == [q EXCEPT !.pc = "cursor", !.row = settings]
  <2>0. settings \in Settings
    BY DEF IInv, TypeOK
  <2>1. n \in Scheduler
    BY <2>0 DEF Scheduler, PCs
  <2>2. ProcessOK(n)
    BY <2>0 DEF ProcessOK, Scheduler, Instants, Settings
  <2>3. sched' = [sched EXCEPT ![p] = n]
    BY <1>4 DEF ReadSettings, IInv, TypeOK
  <2> HIDE DEF n
  <2> QED BY <1>4, <2>1, <2>2, <2>3, Quiet DEF ReadSettings
<1> QED BY <1>1, <1>2, <1>3, <1>4

\* The cursor is read: a slot that is due is a slot of the settings that were read.
LEMMA ReadCursorInv ==
  ASSUME IInv, NEW p \in Schedulers, ReadCursor(p)
  PROVE  IInv'
<1> DEFINE q == sched[p]
           latest == IF q.row.slots = {} THEN cursor.nextRunAt ELSE latestDueOccurrence(q.row.slots, q.now)
           due == /\ cursor.rev = q.row.rev
                  /\ cursor.nextRunAt # Null
                  /\ cursor.nextRunAt <= q.now
                  /\ latest # Null /\ latest >= cursor.nextRunAt
           n == [q EXCEPT !.pc = "check", !.now = 0, !.dueFrom = cursor.nextRunAt,
                          !.latest = latest, !.skip = SkipReason(q.row, latest)]
<1>0. /\ q.pc = "cursor" /\ cursor.rev # Null
      /\ UNCHANGED <<clock, settings, cursor, tenant, licensed, mail, fate, changes>>
  BY DEF ReadCursor, Others
<1>1. CASE ~due
  <2>1. Return(p)
    BY <1>1 DEF ReadCursor
  <2> QED BY <1>0, <2>1, ReturnInv, Known
<1>2. CASE due
  <2>1. sched' = [sched EXCEPT ![p] = n]
    BY <1>2 DEF ReadCursor, IInv, TypeOK
  <2>2. q.row = settings /\ q.row.slots \in Schedules /\ cursor.nextRunAt \in q.row.slots /\ q.row \in Settings
    <3>1. cursor.rev = settings.rev /\ cursor.nextRunAt \in settings.slots
      BY <1>0, <1>2 DEF IInv, CursorFitsSettings
    <3>2. q.row = settings /\ settings \in Settings
      BY <1>0, <1>2, <3>1, Known DEF ProcessOK, IInv, TypeOK
    <3> QED BY <3>1, <3>2 DEF Settings
  <2>3. q.now \in Instants /\ q.now <= clock /\ clock \in Nat
    BY Known DEF Scheduler, ProcessOK, Instants
  <2>4. q.row.slots # {} /\ latest \in q.row.slots /\ latest <= q.now /\ cursor.nextRunAt <= latest
    BY <1>2, <2>2, <2>3, Latest
  <2>5. latest \in Slots /\ cursor.nextRunAt \in Slots /\ Slots \subseteq Nat
    BY <2>2, <2>4, SlotsAreNat
  <2> HIDE DEF latest
  <2>6. SkipReason(q.row, latest) \in SkipReasons
    BY DEF SkipReason, SkipReasons
  <2>7. n \in Scheduler
    <3>1. q \in Scheduler /\ 0 \in Instants
      BY Known, TimesAssumption DEF Instants
    <3> HIDE DEF q
    <3> QED BY <2>5, <2>6, <3>1 DEF Scheduler, PCs
  <2>8. ProcessOK(n)
    <3>1. /\ n.pc = "check" /\ n.now = 0 /\ n.row = q.row /\ n.dueFrom = cursor.nextRunAt
          /\ n.latest = latest
      BY Known DEF Scheduler
    <3> HIDE DEF n, q
    <3>2. settings.rev <= settings.rev
      BY DEF IInv, TypeOK, Settings
    <3>3. latest <= clock /\ 0 <= clock
      BY <2>3, <2>4, <2>5 DEF Instants
    <3> QED BY <2>2, <2>3, <2>4, <2>5, <3>1, <3>2, <3>3 DEF ProcessOK
  <2> HIDE DEF n
  <2> QED BY <1>0, <2>1, <2>7, <2>8, Quiet, Known
<1> QED BY <1>1, <1>2

\* The inputs are a mail for every recipient, or every recipient has one.
LEMMA CheckInv ==
  ASSUME IInv, NEW p \in Schedulers, Check(p)
  PROVE  IInv'
<1> DEFINE q == sched[p]
           skip == IF q.skip = "NONE" /\ licensed = "NO" THEN "INELIGIBLE" ELSE q.skip
           existing == {k \in DeliveryKeys(q) : mail[k] # NoMail}
           inputs == IF skip = "NONE" /\ existing # DeliveryKeys(q) THEN DeliveryKeys(q) ELSE {}
           n == [q EXCEPT !.pc = "commit", !.skip = skip, !.inputs = inputs]
<1>0. /\ q.pc = "check"
      /\ UNCHANGED <<clock, settings, cursor, tenant, licensed, mail, fate, changes>>
  BY DEF Check, Others
<1>1. sched' = [sched EXCEPT ![p] = n]
  BY DEF Check, IInv, TypeOK
<1>2. q \in Scheduler /\ ProcessOK(q)
  BY Known
<1>3. q.row \in Settings /\ q.latest \in Slots
  BY <1>0, <1>2, SlotsAreNat DEF Scheduler, ProcessOK
<1>4. DeliveryKeys(q) \subseteq Keys
  BY <1>3, ListsAssumption DEF DeliveryKeys, Keys, Settings
<1>5. inputs \subseteq DeliveryKeys(q) /\ (skip = "NONE" => inputs = DeliveryKeys(q) \/ \A k \in DeliveryKeys(q) : mail[k] # NoMail)
  OBVIOUS
<1>6. skip \in SkipReasons
  BY <1>2 DEF Scheduler, SkipReasons
<1> HIDE DEF inputs, skip, existing
<1>7. n \in Scheduler
  BY <1>2, <1>4, <1>5, <1>6 DEF Scheduler, PCs
<1>8. ProcessOK(n)
  <2>1. /\ n.pc = "commit" /\ n.now = q.now /\ n.row = q.row /\ n.dueFrom = q.dueFrom
        /\ n.latest = q.latest /\ n.skip = skip /\ n.inputs = inputs /\ DeliveryKeys(n) = DeliveryKeys(q)
    BY <1>2 DEF Scheduler, DeliveryKeys
  <2> HIDE DEF n
  <2> QED BY <1>0, <1>2, <1>5, <2>1 DEF ProcessOK
<1> HIDE DEF n
<1> QED BY <1>0, <1>1, <1>7, <1>8, Quiet, Known

-----------------------------------------------------------------------------
(* The cursor *)

\* What a process knows stays true when the cursor alone moves.
LEMMA ProcessesStay ==
  ASSUME ProcessesOK, UNCHANGED <<clock, settings, mail, sched>>
  PROVE  ProcessesOK'
BY DEF ProcessesOK, ProcessOK, DeliveryKeys

\* The first cursor waits for a slot of the settings.
LEMMA BootstrapInv ==
  ASSUME IInv, NEW p \in Schedulers, BootstrapCursor(p)
  PROVE  IInv'
<1> DEFINE q == sched[p]
           first == bootstrapNextRunAt(q.row.slots, q.row.createdAt, q.now)
<1>0. /\ q.pc = "cursor" /\ cursor.rev = Null
      /\ cursor' = [rev |-> q.row.rev, nextRunAt |-> first]
      /\ fate' = [fate EXCEPT !.from = first]
      /\ UNCHANGED <<clock, settings, tenant, licensed, mail, sched, changes>>
  BY DEF BootstrapCursor, Others
<1> USE DEF IInv
<1>1. q \in Scheduler /\ ProcessOK(q) /\ q.row \in Settings /\ q.row.rev # Null
  BY Known DEF Scheduler, Settings, Null
<1>2. \/ q.row.slots \in Schedules /\ first \in q.row.slots /\ first \in Slots /\ first # Null
      \/ q.row.slots = {} /\ first = Null
  <2>1. q.row.slots \in Schedules \cup {{}} /\ q.row.createdAt \in Instants /\ q.now \in Instants
    BY <1>1 DEF Scheduler, Settings
  <2> HIDE DEF q
  <2> QED BY <2>1, FirstSlot, NoSlot, NullIsNoSlot, SlotsAreNat
<1> HIDE DEF first
<1>3. fate.queued = {} /\ fate.skipped = {}
  BY <1>0 DEF NoCursorNoFate
<1>4. fate' = [from |-> first, queued |-> {}, skipped |-> {}]
  BY <1>0, <1>3 DEF TypeOK
<1>5. q.row = settings
  BY <1>0, <1>1 DEF ProcessOK, Settings, TypeOK, NoCursorNoFate
<1>6. TypeOK'
  <2>1. first \in Slots \cup {Null}
    BY <1>2
  <2>2. Slots \cup {Null} \subseteq Int
    BY SlotsAreNat DEF Null
  <2>3. first \in Int
    BY <2>1, <2>2
  <2> QED BY <1>0, <1>1, <1>2, <1>4, <2>3 DEF TypeOK, Cursor, Settings
<1>7. ProcessesOK'
  BY <1>0, ProcessesStay
<1>8. CursorFitsSettings' /\ NoCursorNoFate' /\ WaitsForASlot'
  BY <1>0, <1>1, <1>2, <1>5 DEF CursorFitsSettings, NoCursorNoFate, WaitsForASlot
<1>9. FateStarts'
  BY <1>0, <1>2, <1>4, <1>5, SlotsAreNat DEF FateStarts
<1>10. EverySlotHasOneFate'
  <2>1. {s \in settings.slots : first <= s /\ s < first} = {}
    <3> SUFFICES ASSUME NEW s \in settings.slots PROVE ~(first <= s /\ s < first)
      OBVIOUS
    <3>1. first \in Nat /\ s \in Nat
      BY <1>2, <1>5, SlotsAreNat
    <3> QED BY <3>1
  <2> QED BY <1>0, <1>4, <2>1 DEF EverySlotHasOneFate
<1>11. QueuedForEveryRecipient'
  BY <1>4 DEF QueuedForEveryRecipient
<1>12. MailOK' /\ RevisionsAreChanges'
  BY <1>0 DEF MailOK, RevisionsAreChanges
<1> QED BY <1>6, <1>7, <1>8, <1>9, <1>10, <1>11, <1>12

\* The slots a transaction accounts for are those from dueFrom to latest, latest alone if it is
\* queued and the others if they are skipped.
LEMMA Accounted ==
  ASSUME NEW q, q.row.slots \in Schedules, q.dueFrom \in q.row.slots, q.latest \in q.row.slots,
         q.dueFrom <= q.latest, q.latest \in Instants, NEW final
  PROVE  SkippedSlots(q, final) =
           IF final = "NONE" THEN {s \in q.row.slots : q.dueFrom <= s /\ s < q.latest}
                             ELSE {s \in q.row.slots : q.dueFrom <= s /\ s <= q.latest}
<1> DEFINE S == q.row.slots
<1>1. S \subseteq Nat /\ q.dueFrom \in Nat /\ q.latest \in Nat
  BY SlotsAreNat
<1>2. CASE final # "NONE"
  BY <1>2 DEF SkippedSlots
<1>3. CASE final = "NONE" /\ q.dueFrom < q.latest
  <2> DEFINE l == latestDueOccurrence(S, q.latest - 1)
  <2>1. q.latest - 1 \in Instants
    BY <1>1, <1>3, TimesAssumption DEF Instants
  <2>2. l \in S /\ l <= q.latest - 1 /\ \A r \in S : r <= q.latest - 1 => r <= l
    BY <2>1, Latest
  <2>3. l \in Nat
    BY <1>1, <2>2
  <2>4. \A s \in S : s <= l <=> s < q.latest
    BY <1>1, <2>2, <2>3
  <2>5. SkippedSlots(q, final) = {s \in S : q.dueFrom <= s /\ s <= l}
    BY <1>3 DEF SkippedSlots
  <2> HIDE DEF l
  <2> QED BY <1>3, <2>4, <2>5
<1>4. CASE final = "NONE" /\ ~(q.dueFrom < q.latest)
  <2>1. SkippedSlots(q, final) = {s \in S : q.dueFrom <= s /\ s <= Null}
    BY <1>4 DEF SkippedSlots
  <2>2. \A s \in S : ~(s <= Null) /\ ~(q.dueFrom <= s /\ s < q.latest)
    BY <1>1, <1>4 DEF Null
  <2> QED BY <1>4, <2>1, <2>2
<1> QED BY <1>2, <1>3, <1>4

\* The transaction of the scheduler: the slots from dueFrom to latest get their fate and the cursor
\* moves behind them, or nothing happens.
LEMMA CommitInv ==
  ASSUME IInv, NEW p \in Schedulers, Commit(p)
  PROVE  IInv'
<1> DEFINE q == sched[p]
           final == FinalSkipReason(q)
           keys == IF final = "NONE" THEN q.inputs ELSE {}
           next == nextScheduledOccurrence(q.row.slots, q.latest)
<1>0. /\ q.pc = "commit" /\ Return(p)
      /\ UNCHANGED <<clock, settings, tenant, licensed, changes>>
  BY DEF Commit, Others
<1>1. CASE ~(Claims(q) /\ ~Postponed(q, final))
  <2>1. UNCHANGED <<cursor, mail, fate>>
    BY <1>1 DEF Commit
  <2> QED BY <1>0, <2>1, ReturnInv, Known
<1>2. CASE Claims(q) /\ ~Postponed(q, final)
  <2>1. /\ cursor' = [cursor EXCEPT !.nextRunAt = next]
        /\ fate' = [fate EXCEPT !.queued = IF final = "NONE" THEN @ \cup {q.latest} ELSE @,
                                !.skipped = @ \cup SkippedSlots(q, final)]
        /\ mail' = [k \in Keys |-> IF k \in keys /\ mail[k] = NoMail
                                     THEN [status |-> "PENDING", createdAt |-> clock] ELSE mail[k]]
    BY <1>2 DEF Commit, MoveCursor, Enqueue
  <2> HIDE DEF final, next, keys
  <2>2. q \in Scheduler /\ ProcessOK(q) /\ clock \in Instants
    BY Known
  <2>3. /\ q.row = settings /\ settings \in Settings /\ q.row.slots \in Schedules
        /\ q.dueFrom \in q.row.slots /\ q.latest \in q.row.slots
        /\ q.dueFrom <= q.latest /\ q.latest <= clock
        /\ q.inputs \subseteq DeliveryKeys(q)
        /\ cursor.rev = settings.rev /\ cursor.nextRunAt = q.dueFrom /\ cursor.rev # Null
    <3>1. cursor.rev = q.row.rev /\ cursor.nextRunAt = q.dueFrom
      BY <1>2 DEF Claims
    <3>2. q.row.rev # Null /\ settings \in Settings
      BY <2>2 DEF Scheduler, Settings, Null, IInv, TypeOK
    <3> QED BY <1>0, <2>2, <3>1, <3>2 DEF ProcessOK, IInv, CursorFitsSettings
  <2>4. q.latest \in Instants /\ q.latest \in Nat /\ q.dueFrom \in Nat /\ clock \in Nat
    BY <2>2, <2>3, SlotsAreNat, TimesAssumption DEF Instants
  <2>5. next \in settings.slots /\ next > q.latest /\ \A r \in settings.slots : r > q.latest => next <= r
    BY <2>3, <2>4, NextSlot DEF next
  <2>6. settings.slots \subseteq Slots /\ settings.slots \subseteq Nat /\ next # Null
    BY <2>3, <2>5, SlotsAreNat, NullIsNoSlot
  <2>7. SkippedSlots(q, final) =
          IF final = "NONE" THEN {s \in settings.slots : q.dueFrom <= s /\ s < q.latest}
                            ELSE {s \in settings.slots : q.dueFrom <= s /\ s <= q.latest}
    BY <2>3, <2>4, Accounted
  <2>8. /\ fate'.from = fate.from
        /\ fate'.queued = IF final = "NONE" THEN fate.queued \cup {q.latest} ELSE fate.queued
        /\ fate'.skipped = fate.skipped \cup SkippedSlots(q, final)
        /\ cursor'.rev = cursor.rev /\ cursor'.nextRunAt = next
    BY <2>1 DEF IInv, TypeOK, Cursor
  <2>9. final = "NONE" => q.skip = "NONE" /\ tenant.changedAt <= q.latest
    <3>1. q.skip # "INELIGIBLE" \/ final # "NONE"
      BY <1>2 DEF Postponed
    <3>2. tenant.changedAt \in Int
      BY DEF IInv, TypeOK, Instants, Null
    <3> QED BY <2>4, <3>1, <3>2 DEF final, FinalSkipReason
  <2>10. keys \subseteq Keys
    BY <2>2 DEF keys, Scheduler
  <2>11. TypeOK'
    <3>1. cursor' \in Cursor
      BY <2>1, <2>5, <2>6 DEF IInv, TypeOK, Cursor
    <3>2. mail' \in [Keys -> [status: {"NONE", "PENDING", "SENT", "FAILED"}, createdAt: Instants \cup {Null}]]
      BY <2>1, <2>2 DEF IInv, TypeOK
    <3>3. fate' \in [from: Int, queued: SUBSET Slots, skipped: SUBSET Slots]
      <4>1. q.latest \in Slots /\ SkippedSlots(q, final) \subseteq Slots
        BY <2>3, <2>6, <2>7
      <4> QED BY <2>1, <4>1 DEF IInv, TypeOK
    <3>4. sched' \in [Schedulers -> Scheduler]
      BY <1>0, IdleIsOK DEF Return, IInv, TypeOK
    <3> QED BY <1>0, <3>1, <3>2, <3>3, <3>4 DEF IInv, TypeOK
  <2>12. CursorFitsSettings' /\ WaitsForASlot' /\ NoCursorNoFate'
    BY <1>0, <2>3, <2>5, <2>6, <2>8 DEF CursorFitsSettings, WaitsForASlot, NoCursorNoFate
  <2>13. FateStarts'
    <3>1. fate.from \in Int /\ fate.from <= q.dueFrom
      BY <2>3, <2>6 DEF IInv, TypeOK, FateStarts, Null
    <3> QED BY <1>0, <2>3, <2>4, <2>5, <2>6, <2>8, <3>1 DEF FateStarts
  <2>14. EverySlotHasOneFate'
    <3> DEFINE S == settings.slots
               Before == {s \in S : fate.from <= s /\ s < q.dueFrom}
               Now == {s \in S : q.dueFrom <= s /\ s <= q.latest}
    <3>1. fate.from \in Int /\ fate.from <= q.dueFrom
      BY <2>3, <2>6 DEF IInv, TypeOK, FateStarts, Null
    <3>2. fate.queued \cap fate.skipped = {} /\ fate.queued \cup fate.skipped = Before
      BY <2>3 DEF IInv, EverySlotHasOneFate
    <3>3. \A s \in S : (fate.from <= s /\ s < next) <=> s \in Before \/ s \in Now
      BY <2>3, <2>4, <2>5, <2>6, <3>1
    <3>4. Before \cap Now = {}
      BY <2>4, <2>6
    <3>5. CASE final = "NONE"
      <4>1. SkippedSlots(q, final) = Now \ {q.latest} /\ q.latest \in Now
        BY <2>3, <2>4, <2>6, <2>7, <3>5
      <4> HIDE DEF Before, Now
      <4>2. fate'.queued \cap fate'.skipped = {} /\ fate'.queued \cup fate'.skipped = Before \cup Now
        BY <2>8, <3>2, <3>4, <3>5, <4>1
      <4>3. Before \subseteq S /\ Now \subseteq S
        BY DEF Before, Now
      <4> QED BY <1>0, <2>8, <3>3, <4>2, <4>3 DEF EverySlotHasOneFate
    <3>6. CASE final # "NONE"
      <4>1. SkippedSlots(q, final) = Now
        BY <2>7, <3>6
      <4> HIDE DEF Before, Now
      <4>2. fate'.queued \cap fate'.skipped = {} /\ fate'.queued \cup fate'.skipped = Before \cup Now
        BY <2>8, <3>2, <3>4, <3>6, <4>1
      <4>3. Before \subseteq S /\ Now \subseteq S
        BY DEF Before, Now
      <4> QED BY <1>0, <2>8, <3>3, <4>2, <4>3 DEF EverySlotHasOneFate
    <3> QED BY <3>5, <3>6
  <2>15. \A k \in Keys : mail[k] # NoMail => mail'[k] = mail[k]
    BY <2>1
  <2>16. \A k \in keys : mail'[k] # NoMail
    BY <2>1, <2>10 DEF NoMail
  <2>17. QueuedForEveryRecipient'
    <3> SUFFICES ASSUME NEW s \in fate'.queued, NEW to \in settings.to PROVE mail'[<<s, to>>] # NoMail
      BY <1>0 DEF QueuedForEveryRecipient
    <3>1. <<s, to>> \in Keys
      <4>1. s \in Slots
        BY <2>11 DEF TypeOK
      <4>2. to \in Recipients
        BY <2>3, ListsAssumption DEF Settings
      <4> QED BY <4>1, <4>2 DEF Keys
    <3>2. CASE s \in fate.queued
      BY <2>15, <3>1, <3>2 DEF IInv, QueuedForEveryRecipient
    <3>3. CASE s \notin fate.queued
      <4>1. s = q.latest /\ final = "NONE"
        BY <2>8, <3>3
      <4>2. <<s, to>> \in DeliveryKeys(q)
        BY <2>3, <4>1 DEF DeliveryKeys
      <4>3. q.inputs = DeliveryKeys(q) \/ \A k \in DeliveryKeys(q) : mail[k] # NoMail
        BY <1>0, <2>2, <2>9, <4>1 DEF ProcessOK
      <4> QED BY <2>15, <2>16, <3>1, <4>1, <4>2, <4>3 DEF keys
    <3> QED BY <3>2, <3>3
  <2>18. ProcessesOK'
    <3> SUFFICES ASSUME NEW r \in Schedulers PROVE ProcessOK(sched[r])'
      BY DEF ProcessesOK
    <3>1. CASE r = p
      <4>1. sched'[r] = Idle
        BY <1>0, <3>1 DEF Return, IInv, TypeOK
      <4> QED BY <1>0, <4>1, <2>4 DEF ProcessOK, Idle
    <3>2. CASE r # p
      <4>1. sched'[r] = sched[r] /\ ProcessOK(sched[r]) /\ sched[r] \in Scheduler
        BY <1>0, <3>2 DEF Return, IInv, TypeOK, ProcessesOK
      <4>2. sched[r].pc = "commit" => DeliveryKeys(sched[r]) \subseteq Keys
        BY <4>1, SlotsAreNat, ListsAssumption DEF ProcessOK, DeliveryKeys, Keys, Scheduler, Settings
      <4> QED BY <1>0, <2>15, <4>1, <4>2 DEF ProcessOK, DeliveryKeys
    <3> QED BY <3>1, <3>2
  <2>19. MailOK'
    <3> SUFFICES ASSUME NEW k \in Keys, mail'[k].status = "PENDING"
                 PROVE  /\ mail'[k].createdAt \in Instants /\ mail'[k].createdAt <= clock
                        /\ tenant.changedAt < mail'[k].createdAt => tenant.changedAt <= k[1]
      BY <1>0 DEF MailOK
    <3>1. CASE mail'[k] = mail[k]
      BY <3>1 DEF IInv, MailOK
    <3>2. CASE mail'[k] # mail[k]
      <4>1. k \in keys /\ mail'[k].createdAt = clock
        BY <2>1, <3>2
      <4>2. final = "NONE" /\ k \in DeliveryKeys(q)
        BY <2>3, <4>1 DEF keys
      <4>3. k[1] = q.latest
        BY <4>2 DEF DeliveryKeys
      <4> QED BY <2>2, <2>4, <2>9, <4>1, <4>2, <4>3
    <3> QED BY <3>1, <3>2
  <2>20. RevisionsAreChanges'
    BY <1>0 DEF IInv, RevisionsAreChanges
  <2> QED BY <2>11, <2>12, <2>13, <2>14, <2>17, <2>18, <2>19, <2>20 DEF IInv
<1> QED BY <1>1, <1>2

-----------------------------------------------------------------------------
(* The tenant *)

\* A save starts another history, with the cursor on a slot of the new settings.
LEMMA SaveSettingsInv ==
  ASSUME IInv, NEW S \in Schedules \cup {{}}, NEW to \in Lists, SaveSettings(S, to)
  PROVE  IInv'
<1> DEFINE first == initialReportNextRunAt(S, clock)
<1>0. /\ settings' = [rev |-> settings.rev + 1, slots |-> S, to |-> to, createdAt |-> clock]
      /\ cursor' = [cursor EXCEPT !.rev = settings.rev + 1, !.nextRunAt = first]
      /\ fate' = [from |-> clock - Minute + 1, queued |-> {}, skipped |-> {}]
      /\ changes < MaxChanges /\ changes' = changes + 1
      /\ UNCHANGED <<clock, tenant, licensed, mail, sched>>
  BY DEF SaveSettings
<1>1. clock \in Instants /\ settings.rev \in Nat /\ changes \in 0..MaxChanges
  BY DEF IInv, TypeOK, Settings
<1>2. \/ /\ S \in Schedules /\ first \in S /\ first \in Slots /\ first # Null /\ first \in Nat
         /\ clock - Minute + 1 <= first
      \/ S = {} /\ first = Null
  BY <1>1, FirstSlot, FirstAfterSave, NoSlot, NullIsNoSlot, SlotsAreNat
<1>12. \A s \in S : ~(clock - Minute + 1 <= s /\ s < first)
  BY <1>1, FirstAfterSave
<1> HIDE DEF first
<1>3. cursor' = [rev |-> settings.rev + 1, nextRunAt |-> first]
  BY <1>0 DEF IInv, TypeOK, Cursor
<1>4. settings.rev <= changes
  BY DEF IInv, RevisionsAreChanges
<1>5. TypeOK'
  <2>1. settings.rev + 1 \in 0..MaxChanges /\ changes' \in 0..MaxChanges
    BY <1>0, <1>1, <1>4, BoundsAssumption
  <2>2. clock - Minute + 1 \in Int
    BY <1>1, TimesAssumption DEF Instants
  <2> QED BY <1>0, <1>1, <1>2, <1>3, <2>1, <2>2 DEF IInv, TypeOK, Settings, Cursor
<1>6. CursorFitsSettings' /\ WaitsForASlot' /\ NoCursorNoFate' /\ QueuedForEveryRecipient'
  BY <1>0, <1>1, <1>2, <1>3
  DEF CursorFitsSettings, WaitsForASlot, NoCursorNoFate, QueuedForEveryRecipient, Null
<1>7. FateStarts'
  BY <1>0, <1>2, <1>3 DEF FateStarts
<1>8. EverySlotHasOneFate'
  <2>1. {s \in S : clock - Minute + 1 <= s /\ s < first} = {}
    BY <1>12
  <2> QED BY <1>0, <1>3, <2>1 DEF EverySlotHasOneFate
<1>9. ProcessesOK'
  <2> SUFFICES ASSUME NEW p \in Schedulers PROVE ProcessOK(sched[p])'
    BY DEF ProcessesOK
  <2>1. ProcessOK(sched[p]) /\ sched[p] \in Scheduler
    BY Known
  <2>2. settings'.rev = settings.rev + 1 /\ settings'.rev > settings.rev
    BY <1>0, <1>1
  <2>3. sched[p].row.rev \in Nat
    BY <2>1 DEF Scheduler, Settings
  <2> QED BY <1>0, <1>1, <2>1, <2>2, <2>3 DEF ProcessOK, DeliveryKeys
<1>10. MailOK'
  BY <1>0 DEF IInv, MailOK
<1>11. RevisionsAreChanges'
  BY <1>0, <1>1, <1>4 DEF RevisionsAreChanges
<1> QED BY <1>5, <1>6, <1>7, <1>8, <1>9, <1>10, <1>11 DEF IInv

\* Nothing but the tenant, the licence or the mails changes: the cursor and its history stay.
LEMMA HistoryStays ==
  ASSUME IInv, UNCHANGED <<settings, cursor, fate>>
  PROVE  EverySlotHasOneFate' /\ CursorFitsSettings' /\ FateStarts' /\ NoCursorNoFate' /\ WaitsForASlot'
BY DEF IInv, EverySlotHasOneFate, CursorFitsSettings, FateStarts, NoCursorNoFate, WaitsForASlot

\* A suspension, or its end, comes after every mail that is in the queue.
LEMMA TenantInv ==
  ASSUME IInv, NEW isActive \in {"YES", "NO"}, setTenantActive(isActive) \/ LicenceChanges
  PROVE  IInv'
<1>0. /\ UNCHANGED <<clock, settings, cursor, mail, sched, fate>>
      /\ changes < MaxChanges /\ changes' = changes + 1
      /\ \/ tenant' = [isActive |-> isActive, changedAt |-> clock] /\ licensed' = licensed
         \/ tenant' = tenant /\ licensed' \in {"YES", "NO"}
  BY DEF setTenantActive, LicenceChanges
<1>1. TypeOK'
  BY <1>0, BoundsAssumption DEF IInv, TypeOK
<1>2. QueuedForEveryRecipient'
  BY <1>0 DEF IInv, QueuedForEveryRecipient
<1>3. MailOK'
  <2> SUFFICES ASSUME NEW k \in Keys, mail[k].status = "PENDING"
               PROVE  /\ mail[k].createdAt \in Instants /\ mail[k].createdAt <= clock
                      /\ tenant'.changedAt < mail[k].createdAt => tenant'.changedAt <= k[1]
    BY <1>0 DEF MailOK
  <2>1. /\ mail[k].createdAt \in Instants /\ mail[k].createdAt <= clock
        /\ tenant.changedAt < mail[k].createdAt => tenant.changedAt <= k[1]
    BY DEF IInv, MailOK
  <2>2. clock \in Nat /\ mail[k].createdAt \in Nat
    BY <2>1 DEF IInv, TypeOK, Instants
  <2> QED BY <1>0, <2>1, <2>2
<1>4. ProcessesOK' /\ RevisionsAreChanges'
  BY <1>0, ProcessesStay DEF IInv, RevisionsAreChanges, TypeOK, Settings
<1> QED BY <1>0, <1>1, <1>2, <1>3, <1>4, HistoryStays DEF IInv

\* A mail that is sent or given up stays a mail.
LEMMA DispatchInv ==
  ASSUME IInv, NEW k \in Keys, dispatchScheduledReport(k)
  PROVE  IInv'
<1>0. /\ UNCHANGED <<clock, settings, cursor, tenant, licensed, sched, fate, changes>>
      /\ mail[k].status = "PENDING"
      /\ mail' = [mail EXCEPT ![k] = [status |-> IF DispatchBlocked(k) THEN "FAILED" ELSE "SENT", createdAt |-> Null]]
  BY DEF dispatchScheduledReport, Others
<1>1. TypeOK'
  BY <1>0 DEF IInv, TypeOK
<1>2. \A l \in Keys : mail[l] # NoMail => mail'[l] # NoMail
  BY <1>0 DEF IInv, TypeOK, NoMail
<1>3. QueuedForEveryRecipient'
  <2> SUFFICES ASSUME NEW s \in fate.queued, NEW to \in settings.to PROVE mail'[<<s, to>>] # NoMail
    BY <1>0 DEF QueuedForEveryRecipient
  <2>1. <<s, to>> \in Keys
    BY ListsAssumption DEF IInv, TypeOK, Keys, Settings
  <2> QED BY <1>2, <2>1 DEF IInv, QueuedForEveryRecipient
<1>4. MailOK'
  BY <1>0 DEF IInv, MailOK, TypeOK
<1>5. ProcessesOK'
  <2> SUFFICES ASSUME NEW p \in Schedulers PROVE ProcessOK(sched[p])'
    BY DEF ProcessesOK
  <2>1. ProcessOK(sched[p]) /\ sched[p] \in Scheduler
    BY Known
  <2>2. sched[p].pc = "commit" => DeliveryKeys(sched[p]) \subseteq Keys
    BY <2>1, SlotsAreNat, ListsAssumption DEF ProcessOK, DeliveryKeys, Keys, Scheduler, Settings
  <2> QED BY <1>0, <1>2, <2>1, <2>2 DEF ProcessOK, DeliveryKeys
<1>6. RevisionsAreChanges'
  BY <1>0 DEF IInv, RevisionsAreChanges
<1> QED BY <1>0, <1>1, <1>3, <1>4, <1>5, <1>6, HistoryStays DEF IInv

\* Time passes.
LEMMA TickInv == ASSUME IInv, Tick PROVE IInv'
<1>0. /\ UNCHANGED <<settings, cursor, tenant, licensed, mail, sched, fate, changes>>
      /\ clock \in Nat /\ clock' = clock + 1 /\ clock' \in Instants
  BY TimesAssumption DEF Tick, IInv, TypeOK, Instants
<1>1. TypeOK'
  BY <1>0 DEF IInv, TypeOK
<1>2. QueuedForEveryRecipient' /\ RevisionsAreChanges'
  BY <1>0 DEF IInv, QueuedForEveryRecipient, RevisionsAreChanges
<1>3. MailOK'
  BY <1>0 DEF IInv, MailOK, Instants
<1>4. ProcessesOK'
  <2> SUFFICES ASSUME NEW p \in Schedulers PROVE ProcessOK(sched[p])'
    BY DEF ProcessesOK
  <2>1. ProcessOK(sched[p]) /\ sched[p] \in Scheduler /\ sched[p].now \in Nat
    BY Known DEF Scheduler, Instants
  <2>2. sched[p].pc \in {"check", "commit"} => sched[p].latest \in Nat
    BY <2>1, SlotsAreNat DEF ProcessOK
  <2> QED BY <1>0, <2>1, <2>2 DEF ProcessOK, DeliveryKeys
<1> QED BY <1>0, <1>1, <1>2, <1>3, <1>4, HistoryStays DEF IInv

-----------------------------------------------------------------------------
(* The theorems *)

\* Every step keeps the invariant.
LEMMA NextInv == IInv /\ [Next]_vars => IInv'
<1> SUFFICES ASSUME IInv, [Next]_vars PROVE IInv'
  OBVIOUS
<1>1. ASSUME NEW p \in Schedulers, Step(p) PROVE IInv'
  BY <1>1, ScanInv, BootstrapInv, ReadCursorInv, CheckInv, CommitInv DEF Step
<1>2. ASSUME NEW p \in Schedulers, Dies(p) PROVE IInv'
  <2>1. changes' \in 0..MaxChanges
    BY <1>2, BoundsAssumption DEF Dies, IInv, TypeOK
  <2>2. changes <= changes'
    BY <1>2 DEF Dies, IInv, TypeOK
  <2> QED BY <1>2, <2>1, <2>2, ReturnInv DEF Dies
<1>3. ASSUME NEW S \in Schedules \cup {{}}, NEW to \in Lists, SaveSettings(S, to) PROVE IInv'
  BY <1>3, SaveSettingsInv
<1>4. ASSUME NEW isActive \in {"YES", "NO"}, setTenantActive(isActive) PROVE IInv'
  BY <1>4, TenantInv
<1>5. CASE LicenceChanges
  BY <1>5, TenantInv
<1>6. ASSUME NEW k \in Slots \X Served, dispatchScheduledReport(k) PROVE IInv'
  <2>1. k \in Keys
    BY ListsAssumption DEF Keys
  <2> QED BY <1>6, <2>1, DispatchInv
<1>7. CASE Tick
  BY <1>7, TickInv
<1>8. CASE UNCHANGED vars
  <2>1. UNCHANGED <<clock, settings, cursor, tenant, licensed, mail, sched, fate, changes>>
    BY <1>8 DEF vars
  <2>2. TypeOK' /\ QueuedForEveryRecipient' /\ MailOK' /\ RevisionsAreChanges'
    BY <2>1 DEF IInv, TypeOK, QueuedForEveryRecipient, MailOK, RevisionsAreChanges
  <2> QED BY <2>1, <2>2, HistoryStays, ProcessesStay DEF IInv
<1> QED BY <1>1, <1>2, <1>3, <1>4, <1>5, <1>6, <1>7, <1>8 DEF Next

\* The invariant holds of every behaviour.
THEOREM Invariance == Spec => []IInv
BY InitInv, NextInv, PTL DEF Spec

\* The rows and the memory of the processes stay well formed.
THEOREM TypeCorrect == Spec => []TypeOK
BY Invariance, PTL DEF IInv

\* The cursor always waits for a slot of the current settings (the throws of
\* processTenantReport are transient).
THEOREM CursorAligned == Spec => []CursorFitsSettings
BY Invariance, PTL DEF IInv

\* However many processes handle a slot, it is queued or skipped, once (the compare-and-set of
\* the cursor).
THEOREM OneFate == Spec => []EverySlotHasOneFate
BY Invariance, PTL DEF IInv

\* A slot that counts as queued has a mail for every recipient (enqueueManyOnce).
THEOREM EveryRecipient == Spec => []QueuedForEveryRecipient
BY Invariance, PTL DEF IInv

\* A mail that leaves is of a tenant that was not suspended since its slot.
LEMMA SendStep ==
  ASSUME IInv, [Next]_vars, NEW k \in Keys, mail[k].status # "SENT", mail'[k].status = "SENT"
  PROVE  tenant.isActive = "YES" /\ licensed = "YES" /\ tenant.changedAt <= k[1]
<1>1. PICK l \in Keys : dispatchScheduledReport(l)
  <2>1. mail' # mail
    OBVIOUS
  <2>2. ASSUME NEW p \in Schedulers, Commit(p) PROVE FALSE
    BY <2>2 DEF Commit, Enqueue
  <2>3. ASSUME NEW p \in Schedulers, Step(p) \/ Dies(p) PROVE FALSE
    BY <2>1, <2>2, <2>3
    DEF Step, Dies, Start, ListTenants, ReadSettings, BootstrapCursor, ReadCursor, Check
  <2>4. \E l \in Slots \X Served : dispatchScheduledReport(l)
    BY <2>1, <2>3 DEF Next, vars, SaveSettings, setTenantActive, LicenceChanges, Tick
  <2> QED BY <2>4, ListsAssumption DEF Keys
<1>2. l = k /\ mail[k].status = "PENDING" /\ ~DispatchBlocked(k)
  BY <1>1 DEF dispatchScheduledReport, IInv, TypeOK
<1>3. /\ mail[k].createdAt \in Int /\ tenant.changedAt \in Int
      /\ tenant.changedAt < mail[k].createdAt => tenant.changedAt <= k[1]
  BY <1>2 DEF IInv, TypeOK, MailOK, Instants, Null
<1> QED BY <1>2, <1>3 DEF DispatchBlocked, IInv, TypeOK

\* No report leaves across a suspension, for any interleaving of the scheduler, the worker and
\* the platform.
THEOREM NoReportAcrossASuspension == Spec => NothingSentAcrossASuspension
<1>1. IInv /\ [Next]_vars =>
        [\A k \in Keys : mail[k].status # "SENT" /\ mail'[k].status = "SENT" =>
           tenant.isActive = "YES" /\ licensed = "YES" /\ tenant.changedAt <= k[1]]_vars
  BY SendStep
<1> QED BY <1>1, Invariance, PTL DEF Spec, NothingSentAcrossASuspension

=============================================================================
