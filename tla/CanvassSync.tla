---------------------------- MODULE CanvassSync -----------------------------
(***************************************************************************)
(* The background synchronisation of the canvassers' app (inec-mobile,     *)
(* lib/sync.ts over lib/storage.ts).  A run sends the pending door knocks, *)
(* then the pledges, then the newest location.  Runs are started by an     *)
(* interval, by a return of the network and by a retry timer; none of them *)
(* asks whether another run is still under way, except the interval, which *)
(* asks the state alone.  The local database may throw under every step.    *)
(***************************************************************************)
EXTENDS Naturals, FiniteSets

CONSTANTS Knock, Pledge,   \* rows of the two tables
          Place,           \* locations of the volunteer, by row id
          Window,          \* how many locations one run reads
          Keep,            \* how many locations the phone keeps
          MaxRetries,      \* failures in a row before the state is "error"
          Sync             \* runs that may be under way at once

ASSUME CanvassAssumption ==
    /\ Window \in Nat \ {0} /\ Keep \in Nat \ {0} /\ MaxRetries \in Nat \ {0}
    /\ Place \subseteq Nat
    /\ Knock \cap Pledge = {} /\ (Knock \cup Pledge) \cap Place = {}

VARIABLES status,       \* sync_status: "pending", "synced" or "failed"; "absent"
                        \* before the row is written, "pruned" once it is deleted
          online,       \* what the network listener was told last
          mode,         \* SyncState: "idle", "syncing", "offline", "error"
          retries,      \* retryCount
          ticking,      \* the 30-second interval is set
          timers,       \* a retry timer is pending, by the run that set it
          run,          \* what each run is doing
          died,         \* ghost: a run has thrown before its try since the last began
          received,     \* rows the server has
          conflicts     \* rows in the conflict log

canvassVars == <<status, online, mode, retries, ticking, timers, run, died,
                 received, conflicts>>
rowVars == <<status, received, conflicts>>
clockVars == <<online, mode, retries, ticking, timers>>

Entry == Knock \cup Pledge \cup Place
Rest == [at |-> "rest", todo |-> {}, entry |-> 0]
Table(phase) == CASE phase = "knocks" -> Knock
                  [] phase = "pledges" -> Pledge
                  [] phase = "places" -> Place
Resting(r) == run[r].at = "rest"
Working == {r \in Sync : ~Resting(r)}

CanvassInit ==
    /\ status = [i \in Entry |-> "absent"]
    /\ online = TRUE /\ mode = "idle" /\ retries = 0
    /\ ticking = FALSE /\ timers = {}
    /\ run = [r \in Sync |-> Rest] /\ died = FALSE
    /\ received = {} /\ conflicts = {}

-----------------------------------------------------------------------------
(* The rows                                                                *)

Present(i) == status[i] \notin {"absent", "pruned"}

\* Once i is written, all but the latest Keep locations, pending ones too.
TooOld(i) ==
    {j \in Place \ {i} :
        Present(j) /\ Cardinality({k \in Place : k > j /\ (k = i \/ Present(k))}) >= Keep}

\* saveDoorKnock, savePledge, saveLocation (locations come in order, and the
\* DELETE that follows the INSERT may throw).
save(i) ==
    /\ status[i] = "absent"
    /\ i \in Place => \A j \in Place : j < i => status[j] # "absent"
    /\ \E old \in IF i \in Place THEN {{}, TooOld(i)} ELSE {{}} :
           status' = [j \in Entry |-> IF j = i THEN "pending"
                                      ELSE IF j \in old THEN "pruned" ELSE status[j]]
    /\ UNCHANGED <<received, conflicts, run, died, clockVars>>

PendingOf(T) == {i \in T : status[i] = "pending"}

\* getPendingLocations: the oldest Window rows.
Oldest == {i \in PendingOf(Place) :
               Cardinality({j \in PendingOf(Place) : j < i}) < Window}

Read(phase) ==
    [at |-> phase, entry |-> 0,
     todo |-> IF phase = "places" THEN Oldest ELSE PendingOf(Table(phase))]

-----------------------------------------------------------------------------
(* Starting a run: syncAll                                                 *)

\* setState sets the state at once and then counts the pending rows for the
\* listeners, before the try.
syncAll(r) ==
    /\ Resting(r)
    /\ mode' = "syncing"
    /\ run' = [run EXCEPT ![r].at = "counting"] /\ died' = FALSE

\* Bug: the interval does not come back after an error.
TickWhenIdle(r) ==
    /\ ticking /\ online /\ mode = "idle"
    /\ syncAll(r)
    /\ UNCHANGED <<rowVars, online, retries, ticking, timers>>

\* The interval asks only the state; start() does not ask at all.
Tick(r) ==
    /\ ticking /\ online /\ mode # "syncing"
    /\ syncAll(r)
    /\ UNCHANGED <<rowVars, online, retries, ticking, timers>>

start(r) ==
    /\ ~ticking
    /\ ticking' = TRUE
    /\ IF online THEN syncAll(r) ELSE UNCHANGED <<mode, run, died>>
    /\ UNCHANGED <<rowVars, online, retries, timers>>

stop ==
    /\ ticking
    /\ ticking' = FALSE
    /\ UNCHANGED <<rowVars, online, mode, retries, timers, run, died>>

NetworkDown ==
    /\ online
    /\ online' = FALSE /\ mode' = "offline"
    /\ UNCHANGED <<rowVars, retries, ticking, timers, run, died>>

NetworkUp(r) ==
    /\ ~online
    /\ online' = TRUE
    /\ IF mode = "offline" THEN syncAll(r) ELSE UNCHANGED <<mode, run, died>>
    /\ UNCHANGED <<rowVars, retries, ticking, timers>>

\* The retry timer calls syncAll, which gives up while offline.
RetryTimer(r, q) ==
    /\ q \in timers
    /\ timers' = timers \ {q}
    /\ IF online THEN syncAll(r)
       ELSE Resting(r) /\ mode' = "offline" /\ UNCHANGED <<run, died>>
    /\ UNCHANGED <<rowVars, online, retries, ticking>>

-----------------------------------------------------------------------------
(* Inside a run                                                            *)

Counted(r) ==
    /\ run[r].at = "counting"
    /\ run' = [run EXCEPT ![r] = Read("knocks")]
    /\ UNCHANGED <<rowVars, clockVars, died>>

\* The count throws, or a listener: nothing catches it, and the state stays.
CountThrows(r) ==
    /\ run[r].at = "counting"
    /\ run' = [run EXCEPT ![r] = Rest] /\ died' = TRUE
    /\ UNCHANGED <<rowVars, clockVars>>

\* Any other read or write that throws does so inside the try.
DiskThrows(r) ==
    /\ \/ run[r].at \in {"knocks", "pledges", "places", "ok", "conflict", "park"}
       \/ run[r].at = "refused" /\ run[r].entry \in Knock
    /\ run' = [run EXCEPT ![r].at = "thrown"]
    /\ UNCHANGED <<rowVars, clockVars, died>>

\* The row a phase sends: any pending one, of the locations the newest read.
Sends(r, i) ==
    /\ i \in run[r].todo
    /\ i \in Place => \A j \in run[r].todo : j <= i

\* The server takes a knock again as a new knock; the request or its answer
\* may be lost, and the answer may be a refusal.
Send(r, i) ==
    /\ run[r].at \in {"knocks", "pledges", "places"} /\ Sends(r, i)
    /\ \/ /\ received' = received \cup {i}
          /\ run' = [run EXCEPT ![r].at = "ok", ![r].entry = i]
       \/ /\ received' = received \cup {i}
          /\ run' = [run EXCEPT ![r].at = "thrown"]
       \/ /\ run' = [run EXCEPT ![r].at = "thrown"]
          /\ UNCHANGED received
       \/ /\ run' = [run EXCEPT ![r].at = "refused", ![r].entry = i]
          /\ UNCHANGED received
       \/ /\ i \notin Place
          /\ run' = [run EXCEPT ![r].at = "conflict", ![r].entry = i]
          /\ UNCHANGED received
    /\ UNCHANGED <<status, conflicts, clockVars, died>>

PhaseOf(i) == IF i \in Knock THEN "knocks"
              ELSE IF i \in Pledge THEN "pledges" ELSE "places"
\* The loop goes on after an entry; one location stands for all that were read.
Continue(r, i) ==
    run' = [run EXCEPT ![r] =
               [at |-> PhaseOf(i), entry |-> 0,
                todo |-> IF i \in Place THEN {} ELSE @.todo \ {i}]]

\* Bug: a location is settled for the newer ones too.
MarkAllPlaces(r, i) ==
    IF i \in Place THEN PendingOf(Place) \cup run[r].todo ELSE {i}

\* The sent row; with a location all the older ones that were read with it.
Covered(r, i) == IF i \in Place THEN run[r].todo ELSE {i}

MarkSent(r) ==
    /\ run[r].at = "ok"
    /\ status' = [i \in Entry |->
                     IF i \in Covered(r, run[r].entry) /\ Present(i) THEN "synced"
                     ELSE status[i]]
    /\ Continue(r, run[r].entry)
    /\ UNCHANGED <<received, conflicts, clockVars, died>>

\* A refused knock is failed for good; a pledge and a location stay pending.
Refused(r) ==
    /\ run[r].at = "refused"
    /\ status' = IF run[r].entry \in Knock
                 THEN [status EXCEPT ![run[r].entry] = "failed"]
                 ELSE status
    /\ Continue(r, run[r].entry)
    /\ UNCHANGED <<received, conflicts, clockVars, died>>

\* logConflict, then markDoorKnockFailed or markPledgeFailed.
logConflict(r) ==
    /\ run[r].at = "conflict"
    /\ conflicts' = conflicts \cup {run[r].entry}
    /\ run' = [run EXCEPT ![r].at = "park"]
    /\ UNCHANGED <<status, received, clockVars, died>>

MarkFailed(r) ==
    /\ run[r].at = "park"
    /\ status' = [status EXCEPT ![run[r].entry] = "failed"]
    /\ Continue(r, run[r].entry)
    /\ UNCHANGED <<received, conflicts, clockVars, died>>

NextPhase(r) ==
    /\ run[r].todo = {}
    /\ \/ run[r].at = "knocks" /\ run' = [run EXCEPT ![r] = Read("pledges")]
       \/ run[r].at = "pledges" /\ run' = [run EXCEPT ![r] = Read("places")]
    /\ UNCHANGED <<rowVars, clockVars, died>>

\* The time of the sync is stored and the state set, inside the try: both may throw.
EndRun(r) ==
    /\ run[r].at = "places" /\ run[r].todo = {}
    /\ retries' = 0
    /\ \/ mode' = "idle" /\ run' = [run EXCEPT ![r] = Rest]
       \/ mode' \in {"idle", mode} /\ run' = [run EXCEPT ![r].at = "thrown"]
    /\ UNCHANGED <<rowVars, online, ticking, timers, died>>

\* Bug: the last failure leaves the state at "syncing".
ThrownForgotten(r) ==
    /\ run[r].at = "thrown"
    /\ run' = [run EXCEPT ![r] = Rest]
    /\ retries' = IF retries < MaxRetries THEN retries + 1 ELSE retries
    /\ timers' = IF retries' >= MaxRetries THEN timers ELSE timers \cup {r}
    /\ UNCHANGED <<mode, rowVars, online, ticking, died>>

\* The catch of syncAll: a retry timer, or "error".  The count only grows
\* until a run ends well; MaxRetries stands for all values from there on.
Thrown(r) ==
    /\ run[r].at = "thrown"
    /\ run' = [run EXCEPT ![r] = Rest]
    /\ retries' = IF retries < MaxRetries THEN retries + 1 ELSE retries
    /\ IF retries' >= MaxRetries
       THEN mode' = "error" /\ UNCHANGED timers
       ELSE timers' = timers \cup {r} /\ UNCHANGED mode
    /\ UNCHANGED <<rowVars, online, ticking, died>>

-----------------------------------------------------------------------------
RunStep(r) ==
    \/ Counted(r) \/ MarkSent(r) \/ Refused(r) \/ logConflict(r) \/ MarkFailed(r)
    \/ NextPhase(r) \/ EndRun(r) \/ Thrown(r)
    \/ \E i \in Entry : Send(r, i)

CanvassNext ==
    \/ \E i \in Entry : save(i)
    \/ \E r \in Sync : \/ RunStep(r) \/ CountThrows(r) \/ DiskThrows(r)
                       \/ Tick(r) \/ start(r) \/ NetworkUp(r)
                       \/ \E q \in Sync : RetryTimer(r, q)
    \/ stop \/ NetworkDown

\* A run goes on (a call answers or throws), timers fire, the interval ticks.
CanvassFairness ==
    /\ \A r \in Sync : WF_canvassVars(RunStep(r))
    /\ WF_canvassVars(\E r \in Sync : Tick(r))
    /\ WF_canvassVars(\E r, q \in Sync : RetryTimer(r, q))

CanvassSpec == CanvassInit /\ [][CanvassNext]_canvassVars /\ CanvassFairness

-----------------------------------------------------------------------------
\* The tables and the state of the sync manager keep their shape.
CanvassTypeOK ==
    /\ status \in [Entry -> {"absent", "pending", "synced", "failed", "pruned"}]
    /\ mode \in {"idle", "syncing", "offline", "error"}
    /\ retries \in 0..MaxRetries
    /\ timers \subseteq Sync
    /\ received \subseteq Entry /\ conflicts \subseteq Knock \cup Pledge

\* A location has arrived when it or a newer one has.
CanvassArrived ==
    received \cup {i \in Place : \E j \in Place \cap received : i <= j}
CanvassState ==
    [i \in Entry |-> CASE status[i] = "synced" -> "done"
                       [] status[i] = "failed" -> "parked"
                       [] status[i] = "pruned" -> "dropped"
                       [] OTHER -> status[i]]

CanvassPromise == INSTANCE Delivery
    WITH Item <- Entry, Expendable <- Place,
         state <- CanvassState, arrived <- CanvassArrived

\* Although runs overlap, a row is called synced only when the server has it
\* (of a location: it or a newer one), and no knock or pledge is dropped; a
\* location is, pending or not, only as a newer one is written.
CanvassDelivers == CanvassPromise!Spec

\* Nobody waits for a run that is not there: the interval holds back while
\* the state is "syncing", so then a run or its retry timer is under way, or one
\* has thrown before its try.
SyncingIsAlive == mode = "syncing" => Working # {} \/ timers # {} \/ died

\* The phone keeps the latest location: what was pruned has a newer one.
PrunedIsOld ==
    \A i \in Place : status[i] = "pruned" => \E j \in Place : j > i /\ Present(j)

\* "The local record loses but must not be silently discarded": a pledge is
\* failed only with an entry in the conflict log.
FailedPledgeLogged ==
    \A i \in Pledge : status[i] = "failed" => i \in conflicts

Trying == Working # {} \/ ~ticking \/ ~online

\* While the interval is set and the network is there, the app always comes back
\* to trying, whatever the server or the database did inside a run; only what
\* throws before the try holds it back for good.
KeepsTrying == (ticking /\ online) ~> (Trying \/ (mode = "syncing" /\ died))

\* sync.ts: "Start periodic sync (every 30 seconds when online)".  Not after a
\* count of the pending rows has thrown: the state is "syncing" and stays.
PeriodicSync == (ticking /\ online) ~> Trying

\* The invariant of the canvassers' queue: shape, no waiting for a run that is
\* not there, no pledge failed in silence, and the latest location kept.
CanvassInv == CanvassTypeOK /\ SyncingIsAlive /\ FailedPledgeLogged /\ PrunedIsOld
=============================================================================
