------------------------------ MODULE Programme ------------------------------
(***************************************************************************)
(* What makes a buyer's instalment due: the construction programme         *)
(* (app/modules/construction/service.py, milestones and dependencies) and  *)
(* the triggers of one payment plan                                        *)
(* (app/modules/payment_plans/service.py).                                 *)
(*                                                                         *)
(* Every operation takes the project lock; certifying a milestone makes    *)
(* the instalments waiting on it due in the same transaction, so each is   *)
(* one action.  Money, and the approvals a version goes through before it  *)
(* is activated, are SaleLedger's.  A date is a number, 0 when not set.    *)
(***************************************************************************)
EXTENDS Naturals, FiniteSets

CONSTANTS
    Milestones,     \* codes of milestones
    Slots,          \* the instalments of a schedule
    MaxPlanVersions,
    Dates           \* dates of certifications and events

ASSUME ProgrammeAssumption ==
    /\ IsFiniteSet(Milestones) /\ MaxPlanVersions \in Nat /\ Dates \subseteq Nat \ {0}
    /\ Milestones \cap {"manual", "title", "dated"} = {}

VARIABLES
    milestone,      \* construction_milestones: status, certified_date
    depends,        \* construction_milestone_dependencies
    schedule_of,    \* payment_plan_versions and their instalments
    attested,       \* installment_trigger_events standing on an instalment
    transferred     \* date of the effective title transfer, 0 if none

programmeVars == <<milestone, depends, schedule_of, attested, transferred>>

-----------------------------------------------------------------------------
(* Rows *)

PlanVersions == 1..MaxPlanVersions
Triggers == Milestones \cup {"manual", "title", "dated"}

MilestoneRow ==
    [status : {"none", "planned", "achieved", "certified", "cancelled"},
     certified : Nat]

\* An instalment waits until it has its actual due date.
InstalmentRow == [trigger : Triggers, due : Nat]

PlanVersionRow ==
    [status : {"none", "draft", "active", "superseded", "rejected"},
     rows : [Slots -> InstalmentRow]]

AttestationRow ==
    [version : PlanVersions, slot : Slots, date : Dates,
     status : {"submitted", "approved"}]

NoMilestone == [status |-> "none", certified |-> 0]
Unscheduled == [s \in Slots |-> [trigger |-> "dated", due |-> 0]]

-----------------------------------------------------------------------------
(* What the services read *)

Listed == {m \in Milestones : milestone[m].status # "none"}
GoverningVersion == {v \in PlanVersions : schedule_of[v].status = "active"}

\* Everything m waits on, m included: what the breadth-first search visits.
Upstream(m) ==
    {n \in Milestones : \A S \in SUBSET Milestones :
        m \in S /\ (\A d \in depends : d[1] \in S => d[2] \in S) => n \in S}

\* Instalments of the active schedule still waiting on a trigger.
Waiting(v, t) ==
    {s \in Slots : schedule_of[v].status = "active"
                /\ schedule_of[v].rows[s].trigger = t /\ schedule_of[v].rows[s].due = 0}

MakeDue(t, date) ==
    [v \in PlanVersions |->
        [schedule_of[v] EXCEPT !.rows = [s \in Slots |->
            IF s \in Waiting(v, t) THEN [@[s] EXCEPT !.due = date] ELSE @[s]]]]

SetDue(v, s, date) == [schedule_of EXCEPT ![v].rows[s].due = date]

ProgrammeInit ==
    /\ milestone = [m \in Milestones |-> NoMilestone]
    /\ depends = {}
    /\ schedule_of = [v \in PlanVersions |-> [status |-> "none", rows |-> Unscheduled]]
    /\ attested = {}
    /\ transferred = 0

plan_side == <<schedule_of, attested, transferred>>
site_side == <<milestone, depends>>

-----------------------------------------------------------------------------
(* Milestones *)

create_milestone(m) ==
    /\ m \notin Listed
    /\ milestone' = [milestone EXCEPT ![m].status = "planned"]
    /\ UNCHANGED <<depends, plan_side>>

\* Mutant of achieve_milestone: the site's report makes instalments due.
AchieveTriggers(m, date) ==
    /\ milestone[m].status \in {"planned", "achieved"}
    /\ milestone' = [milestone EXCEPT ![m].status = "achieved"]
    /\ schedule_of' = MakeDue(m, date)
    /\ UNCHANGED <<depends, attested, transferred>>

\* The site says the work is done; this makes nothing due.
achieve_milestone(m, date) ==
    /\ milestone[m].status \in {"planned", "achieved"}
    /\ milestone' = [milestone EXCEPT ![m].status = "achieved"]
    /\ UNCHANGED <<depends, plan_side>>

\* A second certification on the same date changes nothing, on another is refused.
certify_milestone(m, date) ==
    /\ milestone[m].status \in {"planned", "achieved"}
    /\ milestone' = [milestone EXCEPT ![m] = [status |-> "certified", certified |-> date]]
    /\ schedule_of' = MakeDue(m, date)
    /\ UNCHANGED <<depends, attested, transferred>>

cancel_milestone(m) ==
    /\ milestone[m].status \in {"planned", "achieved", "cancelled"}
    /\ \A v \in PlanVersions : Waiting(v, m) = {}
    /\ milestone' = [milestone EXCEPT ![m].status = "cancelled"]
    /\ UNCHANGED <<depends, plan_side>>

\* Mutant of add_milestone_dependency: only the direct way back is looked at.
AddUnlessMutual(m, upstream) ==
    /\ {m, upstream} \subseteq Listed /\ m # upstream
    /\ <<upstream, m>> \notin depends
    /\ depends' = depends \cup {<<m, upstream>>}
    /\ UNCHANGED <<milestone, plan_side>>

add_milestone_dependency(m, upstream) ==
    /\ {m, upstream} \subseteq Listed
    /\ m \notin Upstream(upstream)
    /\ depends' = depends \cup {<<m, upstream>>}
    /\ UNCHANGED <<milestone, plan_side>>

remove_milestone_dependency(m, upstream) ==
    /\ <<m, upstream>> \in depends
    /\ milestone[m].status # "certified"
    /\ depends' = depends \ {<<m, upstream>>}
    /\ UNCHANGED <<milestone, plan_side>>

-----------------------------------------------------------------------------
(* The schedule *)

NextVersion(v) ==
    \A w \in PlanVersions : (w < v => schedule_of[w].status # "none")
                         /\ (w >= v => schedule_of[w].status = "none")

InDraft == {v \in PlanVersions : schedule_of[v].status = "draft"}

\* A revision copies the triggers of the standing schedule and none of its dates.
create_version(v) ==
    /\ NextVersion(v)
    /\ InDraft = {}
    /\ schedule_of' = [schedule_of EXCEPT ![v] =
          [status |-> "draft",
           rows |-> [s \in Slots |->
               [trigger |-> IF GoverningVersion = {} THEN "dated"
                            ELSE schedule_of[CHOOSE w \in GoverningVersion : TRUE].rows[s].trigger,
                due |-> 0]]]]
    /\ UNCHANGED <<site_side, attested, transferred>>

\* replace_schedule, one instalment at a time.  A milestone is a reference the
\* plan does not look up.
replace_row(v, s, t) ==
    /\ v \in InDraft
    /\ schedule_of' = [schedule_of EXCEPT ![v].rows[s].trigger = t]
    /\ UNCHANGED <<site_side, attested, transferred>>

reject_version(v) ==
    /\ v \in InDraft
    /\ schedule_of' = [schedule_of EXCEPT ![v].status = "rejected"]
    /\ UNCHANGED <<site_side, attested, transferred>>

\* _activate_locked: dated instalments get their date; nothing else is looked at.
activate_version(v, date) ==
    /\ v \in InDraft
    /\ schedule_of' = [w \in PlanVersions |->
          IF w = v THEN
              [status |-> "active",
               rows |-> [s \in Slots |->
                  IF schedule_of[v].rows[s].trigger = "dated"
                  THEN [trigger |-> "dated", due |-> date] ELSE schedule_of[v].rows[s]]]
          ELSE IF w \in GoverningVersion THEN [schedule_of[w] EXCEPT !.status = "superseded"]
          ELSE schedule_of[w]]
    /\ UNCHANGED <<site_side, attested, transferred>>

-----------------------------------------------------------------------------
(* Triggers other than milestones *)

Standing(v, s) == {a \in attested : a.version = v /\ a.slot = s}

submit_manual_trigger(v, s, date) ==
    /\ s \in Waiting(v, "manual")
    /\ Standing(v, s) = {}
    /\ attested' = attested \cup
          {[version |-> v, slot |-> s, date |-> date, status |-> "submitted"]}
    /\ UNCHANGED <<site_side, schedule_of, transferred>>

approve_manual_trigger(a) ==
    /\ a.status = "submitted"
    /\ schedule_of[a.version].status = "active"
    /\ attested' = (attested \ {a}) \cup {[a EXCEPT !.status = "approved"]}
    /\ schedule_of' = SetDue(a.version, a.slot, a.date)
    /\ UNCHANGED <<site_side, transferred>>

reverse_manual_trigger(a) ==
    /\ a.status = "approved"
    /\ attested' = attested \ {a}
    /\ schedule_of' = SetDue(a.version, a.slot, 0)
    /\ UNCHANGED <<site_side, transferred>>

\* Mutant of refresh_triggers: an instalment already due is dated again.
RefreshAll ==
    /\ GoverningVersion # {}
    /\ transferred # 0
    /\ schedule_of' = [v \in PlanVersions |->
          [schedule_of[v] EXCEPT !.rows = [s \in Slots |->
              IF schedule_of[v].status = "active" /\ @[s].trigger = "title"
              THEN [@[s] EXCEPT !.due = transferred] ELSE @[s]]]]
    /\ UNCHANGED <<site_side, attested, transferred>>

\* Handover and title transfer are read alike; title stands for both.
refresh_triggers ==
    /\ GoverningVersion # {}
    /\ transferred # 0
    /\ schedule_of' = MakeDue("title", transferred)
    /\ UNCHANGED <<site_side, attested, transferred>>

\* sales records the transfer of title, and may reverse the event.
record_transfer(date) ==
    /\ transferred = 0
    /\ transferred' = date
    /\ UNCHANGED <<site_side, schedule_of, attested>>

reverse_transfer ==
    /\ transferred # 0
    /\ transferred' = 0
    /\ UNCHANGED <<site_side, schedule_of, attested>>

-----------------------------------------------------------------------------
SiteNext ==
    \E m \in Milestones :
        \/ create_milestone(m) \/ cancel_milestone(m)
        \/ \E date \in Dates : achieve_milestone(m, date) \/ certify_milestone(m, date)
        \/ \E n \in Milestones :
              add_milestone_dependency(m, n) \/ remove_milestone_dependency(m, n)

PlanNext ==
    \/ \E v \in PlanVersions :
          \/ create_version(v) \/ reject_version(v)
          \/ \E date \in Dates : activate_version(v, date)
          \/ \E s \in Slots :
                \/ \E t \in Triggers : replace_row(v, s, t)
                \/ \E date \in Dates : submit_manual_trigger(v, s, date)
    \/ \E a \in attested : approve_manual_trigger(a) \/ reverse_manual_trigger(a)
    \/ refresh_triggers
    \/ \E date \in Dates : record_transfer(date)
    \/ reverse_transfer

ProgrammeNext == SiteNext \/ PlanNext

ProgrammeSpec == ProgrammeInit /\ [][ProgrammeNext]_programmeVars

-----------------------------------------------------------------------------
(* Properties *)

\* Every table keeps its columns' types.
ProgrammeTypeOK ==
    /\ milestone \in [Milestones -> MilestoneRow]
    /\ depends \subseteq Milestones \X Milestones
    /\ schedule_of \in [PlanVersions -> PlanVersionRow]
    /\ attested \subseteq AttestationRow
    /\ transferred \in Nat

\* The programme never waits on itself: no group of milestones all wait on one
\* another, in whatever order dependencies are added and removed.
ProgrammeCanStart ==
    \A S \in SUBSET Milestones :
        S # {} => \E m \in S : \A n \in S : <<m, n>> \notin depends

\* An instalment is due for a reason that stands: a milestone that was certified,
\* on that very date, or an attestation that was approved and not withdrawn.
DueForAReason ==
    \A v \in PlanVersions : \A s \in Slots :
        LET row == schedule_of[v].rows[s] IN
        /\ row.trigger \in Milestones /\ row.due # 0
              => /\ milestone[row.trigger].status = "certified"
                 /\ milestone[row.trigger].certified = row.due
        /\ row.trigger = "manual"
              => \/ row.due = 0
                 \/ \E a \in Standing(v, s) : a.status = "approved" /\ a.date = row.due

\* Once the buyer was told when an instalment is due, the date of that schedule
\* is never another one; it goes only when an attestation is withdrawn.
DueDateStands ==
    [][\A v \in PlanVersions : \A s \in Slots :
          LET row == schedule_of[v].rows[s] IN
          row.due # 0 /\ row.due # schedule_of'[v].rows[s].due
            => row.trigger = "manual" /\ schedule_of'[v].rows[s].due = 0]_programmeVars

\* No schedule waits for a milestone that is certified, or will never be.
NoScheduleWaitsInVain ==
    \A v \in GoverningVersion : \A m \in Milestones :
        Waiting(v, m) # {} => milestone[m].status \notin {"certified", "cancelled"}
=============================================================================
