---------------------------- MODULE FailureStreak ----------------------------
(***************************************************************************)
(* The failure streak of one (repository, kind) and its webhooks           *)
(* (notifications.py, storage/notifications.py).  An operation that failed *)
(* bumps the row in failure_state and may send "repository.failing"; one   *)
(* that succeeded deletes the row and may send "repository.recovered".     *)
(* The row is not locked while a webhook is under way: the automatic task  *)
(* of the repository and manual warms from the dashboard may be between    *)
(* their two accesses at the same time.                                    *)
(*                                                                         *)
(* Streaks are numbered to tell them apart; the row has no such number.    *)
(***************************************************************************)
EXTENDS Naturals

CONSTANTS
  Ops,         \* operations that may be under way at the same time
  Threshold,   \* notify_after_failures
  Selections,  \* values of notify_events: subsets of {"failing", "recovered"}
  Attempts,    \* attempts to deliver one event (3)
  LastStreak,  \* bound: streaks
  MostFailures,\* bound: failures counted in one streak
  None

ASSUME ThresholdAssumption == Threshold \in Nat \ {0} /\ MostFailures \in Nat /\ MostFailures >= Threshold
ASSUME AttemptsAssumption  == Attempts \in Nat \ {0} /\ LastStreak \in Nat
ASSUME SelectionAssumption == Selections \subseteq SUBSET {"failing", "recovered"}

Streaks == 1..LastStreak
Rows    == [count : 1..MostFailures, notified : BOOLEAN, streak : Streaks]
Works   == [at : {"failing", "recovered", "mark"}, streak : Streaks, attempt : 1..Attempts]

ASSUME NoneAssumption == None \notin Rows \cup Works

VARIABLES
  row,      \* the row in failure_state, None when there is none
  work,     \* what each operation is awaiting, None when nothing
  streaks,  \* streaks begun so far (observer)
  alerted,  \* streaks whose "failing" the receiver has (observer)
  relieved, \* streaks for which "recovered" was sent off (observer)
  told      \* flips at each failure of an operation with "failing" selected (observer)

vars == <<row, work, streaks, alerted, relieved, told>>
observers == <<streaks, alerted, relieved, told>>

StreakTypeOK ==
  /\ row \in Rows \cup {None}
  /\ work \in [Ops -> Works \cup {None}]
  /\ streaks \in 0..LastStreak
  /\ alerted \subseteq Streaks /\ relieved \subseteq Streaks
  /\ told \in BOOLEAN

Init ==
  /\ row = None
  /\ work = [o \in Ops |-> None]
  /\ streaks = 0 /\ alerted = {} /\ relieved = {} /\ told = FALSE

-----------------------------------------------------------------------------
Send(o, event, streak) ==
  work' = [work EXCEPT ![o] = [at |-> event, streak |-> streak, attempt |-> 1]]

Ends(o) == work' = [work EXCEPT ![o] = None]

\* bump_failure: one transaction inserts or increments, and reads back.
Bumped ==
  IF row = None
  THEN [count |-> 1, notified |-> FALSE, streak |-> streaks + 1]
  ELSE [row EXCEPT !.count = IF @ < MostFailures THEN @ + 1 ELSE @]

\* Whether the streak is to be announced.
Announces(r, selection) == "failing" \in selection /\ ~r.notified /\ r.count >= Threshold

\* record_failure_and_maybe_notify, to its first await.  The operation works
\* with the configuration it began with.
Fail(o, selection) ==
  /\ work[o] = None
  /\ row = None => streaks < LastStreak
  /\ row' = Bumped
  /\ streaks' = IF row = None THEN streaks + 1 ELSE streaks
  /\ IF Announces(Bumped, selection) THEN Send(o, "failing", Bumped.streak) ELSE UNCHANGED work
  /\ told' = IF "failing" \in selection THEN ~told ELSE told
  /\ UNCHANGED <<alerted, relieved>>

\* Mutant: every recovery is announced.
SucceedAlways(o, selection) ==
  /\ work[o] = None
  /\ row' = None
  /\ IF row # None /\ "recovered" \in selection
     THEN Send(o, "recovered", row.streak) /\ relieved' = relieved \cup {row.streak}
     ELSE UNCHANGED <<work, relieved>>
  /\ UNCHANGED <<streaks, alerted, told>>

\* record_success_and_maybe_notify, to its first await.
Succeed(o, selection) ==
  /\ work[o] = None
  /\ row' = None
  /\ IF row # None /\ row.notified /\ "recovered" \in selection
     THEN Send(o, "recovered", row.streak) /\ relieved' = relieved \cup {row.streak}
     ELSE UNCHANGED <<work, relieved>>
  /\ UNCHANGED <<streaks, alerted, told>>

Sending(o) == work[o] # None /\ work[o].at \in {"failing", "recovered"}

Received(o) ==
  alerted' = IF work[o].at = "failing" THEN alerted \cup {work[o].streak} ELSE alerted

\* A 2xx answer: a delivered failure is then acknowledged in the row.
Accepted(o) ==
  /\ Sending(o)
  /\ Received(o)
  /\ IF work[o].at = "failing" THEN work' = [work EXCEPT ![o].at = "mark"] ELSE Ends(o)
  /\ UNCHANGED <<row, streaks, relieved, told>>

\* A transport error, 429 or 5xx; the receiver may have the event all the same.
\* The last attempt, or one told to wait too long, gives up.
Retried(o) ==
  /\ Sending(o)
  /\ Received(o) \/ UNCHANGED alerted
  /\ \/ work[o].attempt < Attempts /\ work' = [work EXCEPT ![o].attempt = @ + 1]
     \/ Ends(o)
  /\ UNCHANGED <<row, streaks, relieved, told>>

\* Mutant: any answer counts as delivered.
RejectedMarked(o) ==
  /\ Sending(o)
  /\ work' = [work EXCEPT ![o].at = "mark"]
  /\ UNCHANGED <<row, observers>>

\* Any other status ends the delivery.
Rejected(o) ==
  /\ Sending(o)
  /\ Ends(o)
  /\ UNCHANGED <<row, observers>>

\* Mutant: an accepted failure is not acknowledged.
Forgotten(o) ==
  /\ work[o] # None /\ work[o].at = "mark"
  /\ Ends(o)
  /\ UNCHANGED <<row, observers>>

\* mark_failure_notified: whatever row there is now.
Mark(o) ==
  /\ work[o] # None
  /\ work[o].at = "mark"
  /\ row' = IF row = None THEN None ELSE [row EXCEPT !.notified = TRUE]
  /\ Ends(o)
  /\ UNCHANGED observers

\* The task is cancelled, or the process ends: the row stays.
Cancelled(o) ==
  /\ work[o] # None
  /\ Ends(o)
  /\ UNCHANGED <<row, observers>>

\* delete_repo_rows: the repository was removed from the configuration.
Purged ==
  /\ row # None
  /\ row' = None
  /\ UNCHANGED <<work, observers>>

Outcome(o) == \E selection \in Selections : Fail(o, selection) \/ Succeed(o, selection)
Delivery(o) == Accepted(o) \/ Retried(o) \/ Rejected(o) \/ Mark(o)

Next == (\E o \in Ops : Outcome(o) \/ Delivery(o) \/ Cancelled(o)) \/ Purged

Spec == Init /\ [][Next]_vars

\* What is awaited arrives: an attempt has ten seconds.  No outcome is forced.
FairSpec == Spec /\ \A o \in Ops : WF_vars(Delivery(o))

-----------------------------------------------------------------------------
(***************************************************************************)
(* Properties                                                              *)
(***************************************************************************)

\* "Success resets a streak whose failing notification was delivered": a
\* recovery is announced only for a streak that was announced.
RelievedWasAlerted == relieved \subseteq alerted

\* A row counts as notified only if the receiver has the notice of this streak
\* (otherwise the streak goes unreported however long it lasts).
NotifiedWasAlerted == row # None /\ row.notified => row.streak \in alerted

\* "An undelivered failing alert leaves its streak unnotified, so a later
\* failure check may create a new event": an announcement under way is of the
\* present streak, which is not yet acknowledged.
AnnouncesOnce ==
  \A o \in Ops : work[o] # None /\ work[o].at \in {"failing", "mark"}
    => row = None \/ (row.streak = work[o].streak /\ row.count >= Threshold /\ ~row.notified)

\* If from some time on every delivery is accepted and no task is cancelled, and
\* operations that have "failing" selected go on failing, a streak that lasts is
\* announced and acknowledged.  Without "failing" in notify_events ("An empty list
\* disables delivery while retaining failure bookkeeping") nothing is promised, and
\* the failures counted meanwhile must not hide the streak once it is selected.
Trouble ==
  \E o \in Ops : /\ work[o] # None /\ work'[o] = None
                 /\ ~Mark(o)
                 /\ ~(work[o].at = "recovered" /\ Accepted(o))
LastingIsNotified ==
  /\ <>[][~Trouble]_vars
  /\ []<><<told' # told>>_vars
  => ((row # None) ~> (row = None \/ row.notified))
=============================================================================
