---------------------------- MODULE PingTracking ----------------------------
(***************************************************************************)
(* The rows the bot keeps about roles: who pinged one (on_message, marked  *)
(* when the message is deleted) and how many members it has (once a day,   *)
(* only when the number has changed), with the reports drawn from them.    *)
(* Discord's events are handled in the order they come; an event can come  *)
(* twice, and those sent while the bot is down do not come.                *)
(***************************************************************************)
EXTENDS TimeRanges, Sequences, Functions

CONSTANTS
    Messages,    \* messages of a tracked channel
    PingedRoles, \* the roles whose pings are tracked
    Snapshots,   \* [ship, vp]: a member's ship (None without one) and voyage permissions
    SizedRoles,  \* the sequence of the roles whose size is tracked
    MaxDay,      \* days that pass (bound)
    MaxSizeOf,   \* members of a role (bound)
    MaxEvents,   \* events waiting to be handled (bound)
    PingLabels   \* the ranges asked for

ASSUME PingAssumption ==
    /\ IsFiniteSet(PingedRoles) /\ SizedRoles \in Seq(STRING)
    /\ MaxDay \in Nat /\ MaxSizeOf \in Nat /\ MaxEvents \in Nat
    /\ \A snapshot \in Snapshots : snapshot.vp \in BOOLEAN

VARIABLES
    today,       \* days since 31 January 2026, a Saturday
    discord,     \* what became of each message: "none", "posted" or "deleted"
    content,     \* the roles each message mentions
    events,      \* what the gateway has sent and no listener has handled
    unseen,      \* messages whose deletion no listener saw, or before their row
    role_ping_logs,
    members,     \* the members of each role, or GoneRole when there is no such role
    role_size,   \* the rows
    seen         \* what the daily task saw, changed or not

pingVars == <<discord, content, events, unseen, role_ping_logs>>
sizeVars == <<members, role_size, seen>>
trackingVars == <<today, pingVars, sizeVars>>

GoneRole == -1

Clock == (395 + today) * Day + 60 * 20
TaskTime == (395 + today) * Day + 1

PingRow ==
    [message : Messages, role : PingedRoles, ship : {s.ship : s \in Snapshots},
     vp : BOOLEAN, deleted : BOOLEAN, time : Int]

TrackedRoles == {SizedRoles[i] : i \in DOMAIN SizedRoles}
SizeRow == [role : TrackedRoles, size : 0 .. MaxSizeOf, time : Int]

TrackingTypeOK ==
    /\ today \in 0 .. MaxDay
    /\ discord \in [Messages -> {"none", "posted", "deleted"}]
    /\ content \in [Messages -> SUBSET PingedRoles]
    /\ unseen \subseteq Messages
    /\ role_ping_logs \subseteq PingRow
    /\ members \in [TrackedRoles -> GoneRole .. MaxSizeOf]
    /\ role_size \subseteq SizeRow /\ seen \subseteq SizeRow

TrackingInit ==
    /\ today = 0
    /\ discord = [m \in Messages |-> "none"] /\ content = [m \in Messages |-> {}]
    /\ events = <<>> /\ unseen = {} /\ role_ping_logs = {}
    /\ members = [r \in TrackedRoles |-> 0] /\ role_size = {} /\ seen = {}

PassDay == today < MaxDay /\ today' = today + 1 /\ UNCHANGED <<pingVars, sizeVars>>

-----------------------------------------------------------------------------
Send(event) == Len(events) < MaxEvents /\ events' = Append(events, event)

Post(m) ==
    /\ discord[m] = "none" /\ discord' = [discord EXCEPT ![m] = "posted"]
    /\ \E roles \in SUBSET PingedRoles \ {{}} : content' = [content EXCEPT ![m] = roles]
    /\ Send(<<"on_message", m>>)
    /\ UNCHANGED <<today, unseen, role_ping_logs, sizeVars>>

Delete(m) ==
    /\ discord[m] = "posted" /\ discord' = [discord EXCEPT ![m] = "deleted"]
    /\ Send(<<"on_raw_message_delete", m>>)
    /\ UNCHANGED <<today, content, unseen, role_ping_logs, sizeVars>>

\* The gateway sends again what it has sent.
Resend(m) ==
    /\ discord[m] # "none" /\ Send(<<"on_message", m>>)
    /\ unseen' = IF discord[m] = "deleted" /\ ~ \E row \in role_ping_logs : row.message = m
                 THEN unseen \union {m} ELSE unseen
    /\ UNCHANGED <<today, discord, content, role_ping_logs, sizeVars>>

DeletionsIn(queue) == {event[2] : event \in {e \in {queue[i] : i \in DOMAIN queue} :
                                                e[1] = "on_raw_message_delete"}}

\* The bot restarts: what it has not handled, it will not.
Restart ==
    /\ events # <<>> /\ events' = <<>>
    /\ unseen' = unseen \union DeletionsIn(events)
    /\ UNCHANGED <<today, discord, content, role_ping_logs, sizeVars>>

PingRows(m, roles, snapshot) ==
    {[message |-> m, role |-> role, ship |-> snapshot.ship, vp |-> snapshot.vp,
      deleted |-> FALSE, time |-> Clock] : role \in roles}

\* INSERT IGNORE: a row of the same message and role stays as it is.
LogPingsBulk(rows) ==
    role_ping_logs' = role_ping_logs \union
        {row \in rows : ~ \E old \in role_ping_logs : old.message = row.message /\ old.role = row.role}

OnMessage ==
    /\ events # <<>> /\ Head(events)[1] = "on_message"
    /\ events' = Tail(events)
    /\ \E snapshot \in Snapshots :
        LogPingsBulk(PingRows(Head(events)[2], content[Head(events)[2]], snapshot))
    /\ UNCHANGED <<today, discord, content, unseen, sizeVars>>

MarkAsDeleted(m) ==
    role_ping_logs' = {[row EXCEPT !.deleted = @ \/ row.message = m] : row \in role_ping_logs}

OnRawMessageDelete ==
    /\ events # <<>> /\ Head(events)[1] = "on_raw_message_delete"
    /\ events' = Tail(events)
    /\ MarkAsDeleted(Head(events)[2])
    /\ UNCHANGED <<today, discord, content, unseen, sizeVars>>

\* The statement fails, is rolled back and logged: the event is done with.
ListenerFails ==
    /\ events # <<>> /\ events' = Tail(events)
    /\ unseen' = unseen \union DeletionsIn(<<Head(events)>>)
    /\ UNCHANGED <<today, discord, content, role_ping_logs, sizeVars>>

-----------------------------------------------------------------------------
Resize ==
    /\ \E role \in TrackedRoles, size \in GoneRole .. MaxSizeOf :
        size # members[role] /\ members' = [members EXCEPT ![role] = size]
    /\ UNCHANGED <<today, pingVars, role_size, seen>>

\* The size of the latest of some rows about a role; a role without a row has nobody.
LastSize(rows) ==
    IF rows = {} THEN 0
    ELSE (CHOOSE row \in rows : \A other \in rows : other.time <= row.time).size

MostRecentSize(role) == LastSize({row \in role_size : row.role = role})
FirstRoles(n) == {SizedRoles[i] : i \in 1 .. n}

\* Faulty: a role that is gone has the size of no role.
ChangedOrGone(n) == {role \in FirstRoles(n) : members[role] # MostRecentSize(role)}

\* What a run writes about the first n roles.
Changed(n) ==
    {role \in FirstRoles(n) : members[role] # GoneRole /\ members[role] # MostRecentSize(role)}
Present(n) == {role \in FirstRoles(n) : members[role] # GoneRole}

Sized(roles) == {[role |-> role, size |-> members[role], time |-> TaskTime] : role \in roles}

\* The daily task, which an error ends after n roles; it runs once a day.
AutoTrackRoleSize ==
    /\ ~ \E row \in seen : row.time = TaskTime
    /\ \E n \in 1 .. Len(SizedRoles) :
        /\ role_size' = role_size \union Sized(Changed(n))
        /\ seen' = seen \union Sized(Present(n))
    /\ UNCHANGED <<today, pingVars, members>>

PingsNext ==
    \/ \E m \in Messages : Post(m) \/ Delete(m) \/ Resend(m)
    \/ OnMessage \/ OnRawMessageDelete \/ ListenerFails \/ Restart

SizesNext == Resize \/ AutoTrackRoleSize

-----------------------------------------------------------------------------
PingQuery(f) ==
    {row \in role_ping_logs : /\ Within(f.range, row.time)
                              /\ f.role = None \/ row.role = f.role
                              /\ f.ship = None \/ row.ship = f.ship
                              /\ f.vp = None \/ row.vp = (f.vp = "vp")}

BuildPingSummary(f) ==
    LET active == {row \in PingQuery(f) : ~row.deleted}
        buckets == ObservedBuckets(f.range, {row.time : row \in active})
        InBucket(b) == {row \in active : BucketStart(row.time, f.range.bucket) = b}
    IN  [total_pings |-> Cardinality(active),
         vp_enabled_pings |-> Cardinality({row \in active : row.vp}),
         non_vp_pings |-> Cardinality({row \in active : ~row.vp}),
         deleted_rows_excluded |-> Cardinality(PingQuery(f) \ active),
         total |-> [b \in buckets |-> Cardinality(InBucket(b))],
         vp_enabled |-> [b \in buckets |-> Cardinality({row \in InBucket(b) : row.vp})],
         non_vp |-> [b \in buckets |-> Cardinality({row \in InBucket(b) : ~row.vp})]]

\* Faulty: the first row of the bucket.
FirstSizeIn(rows, from, to) ==
    LET inBucket == {row \in rows : from <= row.time /\ row.time < to}
    IN  IF inBucket # {} THEN (CHOOSE row \in inBucket : \A other \in inBucket : row.time <= other.time).size
        ELSE LastSize({row \in rows : row.time < from})

\* The last row of the bucket, or else the last one before it.
EstimateSizeAt(rows, from, to) ==
    LET inBucket == {row \in rows : from <= row.time /\ row.time < to}
    IN  IF inBucket # {} THEN LastSize(inBucket) ELSE LastSize({row \in rows : row.time < from})

BuildSizeSummary(role, range) ==
    LET rows == {row \in role_size : row.role = role /\ row.time <= range.end}
    IN  [b \in ObservedBuckets(range, {row.time : row \in rows}) |->
            EstimateSizeAt(rows, b, NextBucketStart(b, range.bucket))]

-----------------------------------------------------------------------------
PingFilters ==
    [range : {ResolveTimeRange(label, Clock) : label \in PingLabels}, role : PingedRoles \union {None},
     ship : {None}, vp : {None, "vp", "non_vp"}]

\* However often a message is delivered it is counted once for each role; a deleted one is not
\* counted, unless its deletion went unseen; and the report's bars and halves sum to its total
\* (log_pings_bulk, mark_as_deleted, PingAnalyticsService.build_summary).
PingsCountOnce ==
    /\ \A one, two \in role_ping_logs :
           one.message = two.message /\ one.role = two.role => one = two
    /\ \A row \in role_ping_logs :
           discord[row.message] = "deleted" =>
               row.deleted \/ row.message \in unseen \union DeletionsIn(events)
    /\ role_ping_logs # {} => \A f \in PingFilters :
           LET summary == BuildPingSummary(f)
           IN  /\ SumFunction(summary.total) = summary.total_pings
               /\ SumFunction(summary.vp_enabled) + SumFunction(summary.non_vp) = summary.total_pings

\* Every point of the chart is the size the daily task last saw in or before its bucket, although
\* only changes are written (track_role, _estimate_size_at).
EstimatesTrue ==
    seen # {} => \A role \in TrackedRoles, label \in PingLabels :
        LET range == RoleSizeTimeRange(label, Clock)
            points == BuildSizeSummary(role, range)
        IN  \A b \in DOMAIN points :
                points[b] = LastSize({row \in seen : /\ row.role = role
                                                     /\ row.time < NextBucketStart(b, range.bucket)})
=============================================================================
