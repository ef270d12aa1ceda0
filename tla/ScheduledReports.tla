--------------------------- MODULE ScheduledReports ---------------------------
(***************************************************************************)
(* The scheduled reports of one tenant:                                    *)
(* backend/src/infrastructure/cron/reports-cron.ts, report-schedule.ts,    *)
(* prisma-audit-log-repository.ts (the writer of the settings),            *)
(* prisma-platform-admin-repository.ts (suspension) and                    *)
(* scheduled-report-dispatch.ts (the last check before a mail leaves).     *)
(*                                                                         *)
(* Every process scans the tenants each minute.  For a tenant it reads the *)
(* settings, then the cursor, decides what to do with every slot from the  *)
(* cursor to the latest one, and in one transaction moves the cursor, if   *)
(* it still is where it was, and queues the mails.                         *)
(*                                                                         *)
(* An instant is an integer and Minute instants make a minute.  A schedule *)
(* is the set of its slots, so days, weeks, months and the local hours     *)
(* that a change to summer time skips are different sets; the empty set is *)
(* a schedule that is disabled (parseSchedule gives null).  The time zone  *)
(* of the processes is fixed.  The text of the report is left out.         *)
(***************************************************************************)
EXTENDS Integers

CONSTANTS
  Schedulers,   \* processes that run the cron
  Recipients,
  Served,       \* bound: the recipients whose mails the worker gets to
  Lists,        \* the lists of recipients that settings may have
  Schedules,    \* sets of slots
  Minute,       \* instants in a minute (60000)
  CatchUp,      \* REPORT_CATCH_UP_MS
  MaxTime,      \* bound: the last instant
  MaxChanges    \* bound: saves, suspensions, licence changes and deaths of processes, all together

Instants == 0..MaxTime

\* Any instant has a last slot before it and a first one after it: the loops of
\* report-schedule.ts end.  Slots are days apart, so at least a minute.
ASSUME SchedulesAssumption ==
  \A S \in Schedules :
    /\ S \subseteq Nat
    /\ \A r, s \in S : r < s => r + Minute <= s
    /\ \A t \in Instants : /\ \E s \in S : s <= t /\ \A r \in S : r <= t => r <= s
                          /\ \E s \in S : s > t /\ \A r \in S : r > t => s <= r
ASSUME ListsAssumption == Lists \subseteq SUBSET Recipients /\ Served \subseteq Recipients
ASSUME TimesAssumption == Minute \in Nat \ {0} /\ CatchUp \in Nat /\ MaxTime \in Nat
ASSUME BoundsAssumption == MaxChanges \in Nat

VARIABLES
  clock,
  settings,    \* the latest AuditLog row SETTINGS_REPORTS
  cursor,      \* the ScheduledReportCursor row
  tenant,      \* isActive, and when it last changed
  licensed,    \* "YES" if the licence is ACTIVE or TRIAL and the plan has the feature
  mail,        \* the EmailQueue rows of type SCHEDULED_REPORT, by deduplication key
  sched,       \* the processes
  fate,        \* history: what became of the slots that the settings have to answer for
  changes

vars == <<clock, settings, cursor, tenant, licensed, mail, sched, fate, changes>>

Null == -1
Slots == UNION Schedules
Keys == Slots \X Recipients

Settings == [rev: 0..MaxChanges, slots: Schedules \cup {{}}, to: Lists \cup {{}}, createdAt: Instants]
\* rev is settingsAuditLogId, Null where there is no row.  lastQueuedFor and lastSkipped* are
\* written and never read: fate remembers more.
Cursor == [rev: 0..MaxChanges \cup {Null}, nextRunAt: Slots \cup {Null}]

SkipReasons == {"NONE", "DISABLED", "NO_RECIPIENTS", "CONFIG_AFTER_SLOT", "INELIGIBLE"}
PCs == {"idle", "list", "settings", "cursor", "check", "commit"}

\* What a process remembers between its statements.
Scheduler == [pc: PCs, now: Instants, row: Settings, dueFrom: Slots \cup {Null}, latest: Slots \cup {Null},
              skip: SkipReasons, inputs: SUBSET Keys]

NoMail == [status |-> "NONE", createdAt |-> Null]
NoSettings == [rev |-> 0, slots |-> {}, to |-> {}, createdAt |-> 0]
Idle == [pc |-> "idle", now |-> 0, row |-> NoSettings, dueFrom |-> Null, latest |-> Null,
         skip |-> "NONE", inputs |-> {}]

-----------------------------------------------------------------------------
(* report-schedule.ts *)

latestDueOccurrence(S, now) ==
  IF S = {} THEN Null ELSE CHOOSE s \in S : s <= now /\ \A r \in S : r <= now => r <= s

nextScheduledOccurrence(S, after) ==
  IF S = {} THEN Null ELSE CHOOSE s \in S : s > after /\ \A r \in S : r > after => s <= r

\* A save in the minute of a slot still gets that slot.
initialReportNextRunAt(S, savedAt) ==
  LET latest == latestDueOccurrence(S, savedAt) IN
    IF latest # Null /\ savedAt < latest + Minute THEN latest ELSE nextScheduledOccurrence(S, savedAt)

\* The first scan of settings that were saved before cursors existed looks back CatchUp.
bootstrapNextRunAt(S, savedAt, now) ==
  LET latest == latestDueOccurrence(S, now) IN
    IF latest # Null /\ now - latest <= CatchUp /\ savedAt < latest + Minute
      THEN latest
      ELSE nextScheduledOccurrence(S, now)

-----------------------------------------------------------------------------

\* A tenant whose settings are older than the table of cursors.
Init ==
  /\ clock = 0
  /\ settings \in [rev: {0}, slots: Schedules \cup {{}}, to: Lists, createdAt: {0}]
  /\ cursor = [rev |-> Null, nextRunAt |-> Null]
  /\ tenant = [isActive |-> "YES", changedAt |-> Null]
  /\ licensed = "YES"
  /\ mail = [k \in Keys |-> NoMail]
  /\ sched = [p \in Schedulers |-> Idle]
  /\ fate = [from |-> Null, queued |-> {}, skipped |-> {}]
  /\ changes = 0

Others == <<clock, settings, tenant, licensed, changes>>

Return(p) == sched' = [sched EXCEPT ![p] = Idle]

\* runReportsCronCycle: now is read once and serves every tenant of the cycle.
Start(p) ==
  /\ sched[p].pc = "idle"
  /\ sched' = [sched EXCEPT ![p].pc = "list", ![p].now = clock]
  /\ UNCHANGED <<Others, cursor, mail, fate>>

ListTenants(p) ==
  /\ sched[p].pc = "list"
  /\ IF tenant.isActive = "YES" THEN sched' = [sched EXCEPT ![p].pc = "settings"] ELSE Return(p)
  /\ UNCHANGED <<Others, cursor, mail, fate>>

ReadSettings(p) ==
  /\ sched[p].pc = "settings"
  /\ sched' = [sched EXCEPT ![p].pc = "cursor", ![p].row = settings]
  /\ UNCHANGED <<Others, cursor, mail, fate>>

\* processTenantReport, when the tenant has no cursor: createMany with skipDuplicates.
BootstrapCursor(p) ==
  LET q == sched[p]
      first == bootstrapNextRunAt(q.row.slots, q.row.createdAt, q.now)
  IN /\ q.pc = "cursor"
     /\ cursor.rev = Null
     /\ cursor' = [rev |-> q.row.rev, nextRunAt |-> first]
     /\ fate' = [fate EXCEPT !.from = first]
     /\ UNCHANGED <<Others, mail, sched>>

\* The decision that needs the settings only.
SkipReason(row, latest) ==
  IF row.slots = {} THEN "DISABLED"
  ELSE IF row.createdAt >= latest + Minute THEN "CONFIG_AFTER_SLOT"
  ELSE IF row.to = {} THEN "NO_RECIPIENTS"
  ELSE "NONE"

\* The throws (another revision, a cursor that is no slot) end in the catch of the cycle.  now is
\* forgotten: only the text of the report depends on it from here on.
ReadCursor(p) ==
  LET q == sched[p]
      latest == IF q.row.slots = {} THEN cursor.nextRunAt ELSE latestDueOccurrence(q.row.slots, q.now)
      due == /\ cursor.rev = q.row.rev
             /\ cursor.nextRunAt # Null
             /\ cursor.nextRunAt <= q.now
             /\ latest # Null /\ latest >= cursor.nextRunAt
  IN /\ q.pc = "cursor"
     /\ cursor.rev # Null
     /\ IF due
          THEN sched' = [sched EXCEPT ![p].pc = "check", ![p].now = 0, ![p].dueFrom = cursor.nextRunAt,
                                      ![p].latest = latest, ![p].skip = SkipReason(q.row, latest)]
          ELSE Return(p)
     /\ UNCHANGED <<Others, cursor, mail, fate>>

\* deliveryKey, one for each recipient: the tenant, the slot and the recipient.
DeliveryKeys(q) == {q.latest} \X q.row.to

\* Mutant of Check: one mail that exists is taken for all of them.
CheckAny(p) ==
  LET q == sched[p]
      skip == IF q.skip = "NONE" /\ licensed = "NO" THEN "INELIGIBLE" ELSE q.skip
      existing == {k \in DeliveryKeys(q) : mail[k] # NoMail}
  IN /\ q.pc = "check"
     /\ sched' = [sched EXCEPT ![p].pc = "commit", ![p].skip = skip,
                    ![p].inputs = IF skip = "NONE" /\ existing = {} THEN DeliveryKeys(q) ELSE {}]
     /\ UNCHANGED <<Others, cursor, mail, fate>>

\* The licence before the lock, and the mails that a process before this one queued.  The two
\* statements are one step: Commit decides on the licence again, and enqueueManyOnce on the mails.
Check(p) ==
  LET q == sched[p]
      skip == IF q.skip = "NONE" /\ licensed = "NO" THEN "INELIGIBLE" ELSE q.skip
      existing == {k \in DeliveryKeys(q) : mail[k] # NoMail}
  IN /\ q.pc = "check"
     /\ sched' = [sched EXCEPT ![p].pc = "commit", ![p].skip = skip,
                    ![p].inputs = IF skip = "NONE" /\ existing # DeliveryKeys(q) THEN DeliveryKeys(q) ELSE {}]
     /\ UNCHANGED <<Others, cursor, mail, fate>>

\* The decision again, with the tenant and its subscription locked.
FinalSkipReason(q) ==
  IF q.skip \notin {"NONE", "INELIGIBLE"} THEN q.skip
  ELSE IF tenant.isActive = "NO" THEN "TENANT_INACTIVE"
  ELSE IF tenant.changedAt > q.latest THEN "TENANT_STATUS_CHANGED"
  ELSE IF licensed = "NO" THEN "INELIGIBLE"
  ELSE "NONE"

\* The slots that the cursor records as skipped: all of them, or all but the latest.
SkippedSlots(q, final) ==
  LET through == IF final # "NONE" THEN q.latest
                 ELSE IF q.dueFrom < q.latest THEN latestDueOccurrence(q.row.slots, q.latest - 1)
                 ELSE Null
  IN {s \in q.row.slots : q.dueFrom <= s /\ s <= through}

\* Mutant of Claims: nextRunAt is not compared.
ClaimsRevision(q) == cursor.rev = q.row.rev

\* The where clause of the update of the cursor.
Claims(q) == cursor.rev = q.row.rev /\ cursor.nextRunAt = q.dueFrom

\* A report that became possible after Check waits for the next scan, which builds it.
Postponed(q, final) == final = "NONE" /\ q.skip = "INELIGIBLE"

\* Mutant of MoveCursor: the next run is a minute later.
MoveCursorByAMinute(q, final) ==
  /\ cursor' = [cursor EXCEPT !.nextRunAt = q.latest + Minute]
  /\ fate' = [fate EXCEPT !.queued = IF final = "NONE" THEN @ \cup {q.latest} ELSE @,
                          !.skipped = @ \cup SkippedSlots(q, final)]

MoveCursor(q, final) ==
  /\ cursor' = [cursor EXCEPT !.nextRunAt = nextScheduledOccurrence(q.row.slots, q.latest)]
  /\ fate' = [fate EXCEPT !.queued = IF final = "NONE" THEN @ \cup {q.latest} ELSE @,
                          !.skipped = @ \cup SkippedSlots(q, final)]

\* enqueueManyOnce: a row that exists stays as it is.
Enqueue(keys) ==
  mail' = [k \in Keys |-> IF k \in keys /\ mail[k] = NoMail
                            THEN [status |-> "PENDING", createdAt |-> clock] ELSE mail[k]]

Commit(p) ==
  LET q == sched[p]
      final == FinalSkipReason(q)
  IN /\ q.pc = "commit"
     /\ IF Claims(q) /\ ~Postponed(q, final)
          THEN /\ MoveCursor(q, final)
               /\ Enqueue(IF final = "NONE" THEN q.inputs ELSE {})
          ELSE UNCHANGED <<cursor, mail, fate>>
     /\ Return(p)
     /\ UNCHANGED Others

\* A process dies and is started again; a transaction under way is rolled back.
Dies(p) ==
  /\ sched[p].pc # "idle"
  /\ changes < MaxChanges
  /\ changes' = changes + 1
  /\ Return(p)
  /\ UNCHANGED <<clock, settings, cursor, tenant, licensed, mail, fate>>

-----------------------------------------------------------------------------
(* What happens to the tenant in the meantime *)

\* Mutant of SaveSettings: the cursor is left to the scheduler.
SaveSettingsAlone(S, to) ==
  /\ changes < MaxChanges
  /\ changes' = changes + 1
  /\ settings' = [rev |-> settings.rev + 1, slots |-> S, to |-> to, createdAt |-> clock]
  /\ UNCHANGED <<clock, cursor, tenant, licensed, mail, sched, fate>>

\* PrismaAuditLogRepository.create: the row of the settings and the cursor in one transaction,
\* with the tenant locked.  The settings have to answer for the slots whose minute is not over.
SaveSettings(S, to) ==
  /\ changes < MaxChanges
  /\ changes' = changes + 1
  /\ settings' = [rev |-> settings.rev + 1, slots |-> S, to |-> to, createdAt |-> clock]
  /\ cursor' = [cursor EXCEPT !.rev = settings.rev + 1, !.nextRunAt = initialReportNextRunAt(S, clock)]
  /\ fate' = [from |-> clock - Minute + 1, queued |-> {}, skipped |-> {}]
  /\ UNCHANGED <<clock, tenant, licensed, mail, sched>>

\* setTenantActive, with its audit row PLATFORM_TENANT_STATUS_CHANGED.
setTenantActive(isActive) ==
  /\ changes < MaxChanges
  /\ tenant.isActive # isActive
  /\ tenant' = [isActive |-> isActive, changedAt |-> clock]
  /\ changes' = changes + 1
  /\ UNCHANGED <<clock, settings, cursor, licensed, mail, sched, fate>>

\* TenantBilling has the writers of the licence.
LicenceChanges ==
  /\ changes < MaxChanges
  /\ licensed' = IF licensed = "YES" THEN "NO" ELSE "YES"
  /\ changes' = changes + 1
  /\ UNCHANGED <<clock, settings, cursor, tenant, mail, sched, fate>>

\* Mutant of DispatchBlocked: a suspension that is over is forgotten.
DispatchBlockedNow(k) == tenant.isActive = "NO" \/ licensed = "NO"

\* The reasons not to send, with the tenant and its subscription locked.
DispatchBlocked(k) ==
  tenant.isActive = "NO" \/ tenant.changedAt >= mail[k].createdAt \/ licensed = "NO"

\* The request to the provider is started or the mail is given up.  EmailQueue has the retries;
\* createdAt is read for pending mails only.
dispatchScheduledReport(k) ==
  /\ mail[k].status = "PENDING"
  /\ mail' = [mail EXCEPT ![k] = [status |-> IF DispatchBlocked(k) THEN "FAILED" ELSE "SENT", createdAt |-> Null]]
  /\ UNCHANGED <<Others, cursor, sched, fate>>

Tick ==
  /\ clock < MaxTime
  /\ clock' = clock + 1
  /\ UNCHANGED <<settings, cursor, tenant, licensed, mail, sched, fate, changes>>

Step(p) == Start(p) \/ ListTenants(p) \/ ReadSettings(p) \/ BootstrapCursor(p) \/ ReadCursor(p)
             \/ Check(p) \/ Commit(p)

Next ==
  \/ \E p \in Schedulers : Step(p) \/ Dies(p)
  \/ \E S \in Schedules \cup {{}}, to \in Lists : SaveSettings(S, to)
  \/ \E isActive \in {"YES", "NO"} : setTenantActive(isActive)
  \/ LicenceChanges
  \/ \E k \in Slots \X Served : dispatchScheduledReport(k)
  \/ Tick

Spec == Init /\ [][Next]_vars

\* node-cron starts a cycle every minute in every process and a cycle runs to its end unless
\* the process dies.
FairSpec == Spec /\ \A p \in Schedulers : WF_vars(Step(p))

-----------------------------------------------------------------------------
(* Properties *)

\* The rows and the memory of the processes are well formed: every instant the cursor and the
\* processes keep is one of a slot.
TypeOK ==
  /\ clock \in Instants
  /\ settings \in Settings
  /\ cursor \in Cursor
  /\ tenant \in [isActive: {"YES", "NO"}, changedAt: Instants \cup {Null}]
  /\ licensed \in {"YES", "NO"}
  /\ mail \in [Keys -> [status: {"NONE", "PENDING", "SENT", "FAILED"}, createdAt: Instants \cup {Null}]]
  /\ sched \in [Schedulers -> Scheduler]
  /\ fate \in [from: Int, queued: SUBSET Slots, skipped: SUBSET Slots]
  /\ changes \in 0..MaxChanges

\* The cursor is of the current revision of the settings and waits for one of their slots, none
\* if they are disabled: the throws of processTenantReport ("revision mismatch", "cursor is not
\* aligned"), which would stop the reports until the next save, cannot become permanent.
CursorFitsSettings ==
  /\ cursor.rev # Null => cursor.rev = settings.rev
  /\ cursor.nextRunAt # Null => cursor.rev # Null /\ cursor.nextRunAt \in settings.slots

\* Every slot from the save of the settings to the one the cursor waits for was queued or
\* recorded as skipped, and never both: two processes that handle a slot at once, one of them
\* with an older idea of now, do not overlap and leave no gap (the updateMany of
\* processTenantReport).  The slot in whose minute the settings were saved is one of them, the
\* slots of before have no fate ("A save during the scheduled minute remains eligible; later
\* saves are not retroactive", report-schedule.ts); a cursor created by the first scan answers
\* for the slots from the one it was created with.
EverySlotHasOneFate ==
  cursor.rev # Null =>
    /\ fate.queued \cap fate.skipped = {}
    /\ fate.queued \cup fate.skipped =
         {s \in settings.slots : fate.from <= s /\ s < cursor.nextRunAt}

\* A slot that counts as queued has a mail for every recipient of the settings it was queued
\* for, also when a save in the minute of the slot added one after the first mails were queued.
QueuedForEveryRecipient ==
  \A s \in fate.queued, to \in settings.to : mail[<<s, to>>] # NoMail

\* No report leaves for a tenant that is suspended or was suspended since the slot of the
\* report, wherever the suspension and the return fall between the decision, the transaction
\* that queues it and the dispatch.
NothingSentAcrossASuspension ==
  [][\A k \in Keys : mail[k].status # "SENT" /\ mail'[k].status = "SENT" =>
        tenant.isActive = "YES" /\ licensed = "YES" /\ tenant.changedAt <= k[1]]_vars

\* Once the changes are over, an active tenant has no slot that is due and not handled: no
\* refusal by the compare-and-set, postponed decision or dead process leaves a cursor behind.
CatchesUp == <>[](tenant.isActive = "YES" => cursor.rev # Null /\ (cursor.nextRunAt = Null \/ cursor.nextRunAt > clock))

=============================================================================
