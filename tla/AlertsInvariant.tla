-------------------------- MODULE AlertsInvariant --------------------------
(***************************************************************************)
(* The inductive invariant behind the properties of Alerts: what a run of  *)
(* the checks may still do with what it read when it began.                *)
(***************************************************************************)
EXTENDS Alerts

\* Where a run stands says which check it is of.
JobFacts(s) ==
    /\ s.at \in {"upcoming", "overdue"} => s.kind = s.at
    /\ s.at = "tell" => s.kind = "overdue"
    /\ s.at = "mark" => s.kind \in {"upcoming", "overdue"}
    /\ s.at = "idle" => s.queue = {}
    /\ s.pay \notin s.queue
    /\ s.since <= now

JobsAreSound == \A j \in Jobs : JobFacts(job[j])

\* The runs that will still remind of p, and those that have and have not marked it.
Holding(p) == {j \in Jobs : job[j].kind = "upcoming" /\ p \in job[j].queue}
Marking(p) == {j \in Jobs : job[j].kind = "upcoming" /\ job[j].at = "mark" /\ job[j].pay = p}

\* Until p is marked, every reminder of it was lost or is about to be marked;
\* from then on no new run takes p, and those that hold it are among the runs
\* that have overlapped, bound at most.
Counted(p, bound) ==
    IF pays[p].lastAlert = None
    THEN preDue[p] <= Cardinality(Marking(p)) + lost[p]
    ELSE preDue[p] + Cardinality(Holding(p)) <= bound + lost[p]

CountedWithin(bound) == \A p \in Payments : Counted(p, bound)

RemindersCounted == CountedWithin(peak)

PeakIsHighest == Cardinality(Reminding) <= peak

\* Alerted since a run began, or as long before it as the run lets pass.
AlertedFor(s, p) == pays[p].lastAlert # None /\ pays[p].lastAlert >= s.since - Grace(s)

\* What a check found is in its queue, in its hand, or alerted.
NobodyDropped ==
    \A j \in Jobs : \A p \in job[j].owed :
        \/ p \in job[j].queue
        \/ job[j].pay = p
        \/ AlertedFor(job[j], p)

IInv ==
    /\ TypeOK
    /\ JobsAreSound
    /\ PeakIsHighest
    /\ RemindersCounted
    /\ NobodyDropped
=============================================================================
