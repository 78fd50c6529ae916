--------------------------- MODULE AccessSchedule ---------------------------
(***************************************************************************)
(* Weekly access schedules of device profiles: how a stored schedule is     *)
(* expanded to windows per day, what the firewall's time rules enforce, and *)
(* the status with the next change that the appliance shows for it.         *)
(*                                                                         *)
(* A day has DayLength units; the last one stands for 23:59.  Days count    *)
(* from Monday, a time is a number of units since a Monday's midnight.      *)
(***************************************************************************)
EXTENDS Integers, FiniteSets, FiniteSetsExt

CONSTANT DayLength   \* units of a day, 1440 minutes in the code

ASSUME ScheduleAssumption == DayLength \in Nat \ {0}

VARIABLES
    schedule,   \* the profile's stored schedule
    now,        \* units since Monday, over one week
    shown       \* the status last shown: [allowed, change, at]

scheduleVars == <<schedule, now, shown>>

Days == 0 .. 6
Weekdays == 0 .. 4
Week == 7 * DayLength

(* AccessWindow: times of a day, the latest is 23:59. *)
Windows == {w \in (0 .. DayLength - 1) \X (0 .. DayLength - 1) : w[1] < w[2]}

(* validate_windows, with at most two windows. *)
WindowSets ==
    {ws \in SUBSET Windows :
        /\ Cardinality(ws) <= 2
        /\ \A v, w \in ws : v # w => v[2] <= w[1] \/ w[2] <= v[1]}

(* validate_profile_schedule: windows of single days, or of the weekdays
   with a weekend mode. *)
Schedules ==
    [kind : {"days"}, days : SUBSET {0, 5, 6} \ {{}}, windows : WindowSets,
     weekend : {"none"}, custom : {{}}]
    \union [kind : {"legacy"}, days : {{}}, windows : WindowSets,
            weekend : {"none", "all_day", "blocked", "same_as_weekdays"}, custom : {{}}]
    \union [kind : {"legacy"}, days : {{}}, windows : WindowSets,
            weekend : {"custom"}, custom : WindowSets \ {{}}]

effective_day_windows(s) ==
    [day \in Days |->
        IF s.kind = "days" THEN IF day \in s.days THEN s.windows ELSE {}
        ELSE IF day \in Weekdays THEN s.windows
        ELSE CASE s.weekend = "all_day" -> {<<0, DayLength - 1>>}
               [] s.weekend = "same_as_weekdays" -> s.windows
               [] s.weekend = "custom" -> s.custom
               [] OTHER -> {}]

DayOf(t) == (t \div DayLength) % 7
TimeOf(t) == t % DayLength

(* 23:59 stands for midnight. *)
EndOf(w) == IF w[2] = DayLength - 1 THEN DayLength ELSE w[2]

schedule_allowed(windows, t) ==
    \E w \in windows[DayOf(t)] : w[1] <= TimeOf(t) /\ TimeOf(t) < EndOf(w)

(* Mutant: a window that ends at 23:59 ends a minute early. *)
write_windows_to_end(s) ==
    UNION {{<<(day + 1) % 7, w[1], w[2]>> : w \in effective_day_windows(s)[day]} : day \in Days}

(* write_allowed_windows: rules <<day, start, end>> in nft's numbering, where
   Sunday is 0 and an end of 23:59 becomes 23:59:59. *)
write_allowed_windows(s) ==
    UNION {{<<(day + 1) % 7, w[1], EndOf(w)>> : w \in effective_day_windows(s)[day]} : day \in Days}

(* The kernel within the unit t: its days also begin on Sunday.  nft's ranges
   also hold the first second of their end, which is below the unit. *)
KernelAllows(s, t) ==
    \E rule \in write_allowed_windows(s) :
        /\ rule[1] = (DayOf(t) + 1) % 7
        /\ rule[2] <= TimeOf(t) /\ TimeOf(t) < rule[3]

DayBoundaries(windows, midnight) ==
    {midnight} \union
    UNION {{midnight + w[1], midnight + EndOf(w)} : w \in windows[DayOf(midnight)]}

(* The boundaries of today and of the eight days that follow. *)
Boundaries(windows, t) ==
    UNION {DayBoundaries(windows, (t \div DayLength + offset) * DayLength) : offset \in 0 .. 8}

NextChange(changes, t) == IF changes = {} THEN t ELSE Min(changes)

device_profile_status(s, t) ==
    LET windows == effective_day_windows(s)
        allowed == schedule_allowed(windows, t)
        changes == {at \in Boundaries(windows, t) :
                      at > t /\ schedule_allowed(windows, at) # allowed}
    IN  [allowed |-> allowed, change |-> changes # {},
         at |-> NextChange(changes, t)]

ScheduleInit ==
    /\ schedule \in Schedules
    /\ now = 0
    /\ shown = device_profile_status(schedule, now)

(* The page is reloaded now and then. *)
ShowStatus ==
    /\ shown' = device_profile_status(schedule, now)
    /\ UNCHANGED <<schedule, now>>

(* A second week follows the first: a status may announce a change there. *)
MinutePasses ==
    /\ now < 2 * Week
    /\ shown.change => now < shown.at
    /\ now' = now + 1
    /\ UNCHANGED <<schedule, shown>>

ScheduleNext == ShowStatus \/ MinutePasses

ScheduleSpec == ScheduleInit /\ [][ScheduleNext]_scheduleVars

-----------------------------------------------------------------------------
(* Types; a change that is shown is at most a week away. *)
ScheduleTypeOK ==
    /\ schedule \in Schedules /\ now \in 0 .. 2 * Week
    /\ shown.allowed \in BOOLEAN /\ shown.change \in BOOLEAN
    /\ shown.at \in 0 .. now + Week

(* What the status shows is what the firewall's time rules enforce, on every
   day of the week and up to midnight. *)
EnforcedAsShown ==
    KernelAllows(schedule, now) = device_profile_status(schedule, now).allowed

(* A status announces its change truthfully: access stays as shown until the
   announced time and turns at it; a status without one never turns. *)
ChangeAsAnnounced ==
    KernelAllows(schedule, now) = IF shown.change /\ now >= shown.at THEN ~shown.allowed ELSE shown.allowed

\* What the page says of a profile is what the kernel enforces: the state shown at
\* every minute of the week is the state of the generated time rules, and the next
\* change announced is the next minute at which that state differs.
ScheduleSound ==
  /\ ScheduleTypeOK /\ EnforcedAsShown /\ ChangeAsAnnounced
=============================================================================
