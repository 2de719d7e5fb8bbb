------------------------------ MODULE ScreenKit ------------------------------
(***************************************************************************)
(* The vocabulary in which the screens of the three clients are described. *)
(* A screen has a logic, the loads that its effects and handlers start and *)
(* the writes that its handlers send, and a view, what its JSX hides or    *)
(* disables meanwhile.                                                     *)
(*                                                                         *)
(*   when    a load starts when the screen opens, also whenever a          *)
(*           selection changes, or only when the user asks                 *)
(*   again   what starts it once more: the user pulls or refreshes         *)
(*           ("pull"), retries what was told to have failed ("retry") or   *)
(*           comes back ("focus"), an interval that the cleanup stops      *)
(*           ("poll") or does not ("leak"), an event of the server         *)
(*           ("push")                                                      *)
(*   spins   when the loading flag is raised: at the first load, at every  *)
(*           selection too ("key"), at each load, or never                 *)
(*   late    an answer that a newer request has overtaken is kept, or it   *)
(*           is dropped                                                    *)
(*   fail    a failed load is told, wipes what was shown, both or neither; *)
(*           the message goes with the next load, or with the next answer  *)
(*           ("healed")                                                    *)
(*   ends    the flag is lowered always, or only by an answer              *)
(*   scope   the load is of an election ("election"), which another part of*)
(*           the page or another window may change under it ("shifts"); the*)
(*           flag stays up until there is one ("waits")                    *)
(***************************************************************************)

Load(when, again, spins, fail) ==
    [when |-> when, again |-> again, spins |-> spins, late |-> "kept",
     fail |-> fail, ends |-> "always", scope |-> {}]

OnOpen(again, spins, fail) == Load("open", again, spins, fail)
OnFocus(again, spins, fail) == OnOpen(again \cup {"focus"}, spins, fail)
ByKey(again, spins, fail) == Load("key", again, spins, fail)
OnAsk(spins, fail) == Load("ask", {}, spins, fail)

\* A flag that only an answer lowers.
Lasting(load) == [load EXCEPT !.ends = "answer"]

\* An effect or an abort controller that drops overtaken answers.
Cancelled(load) == [load EXCEPT !.late = "dropped"]

\* useResolvedElection: no load is sent before there is an election.  The mobile
\* app resolves it once for a screen; the pages of the commission follow the
\* choice that is stored for all of them.
PerElection(load) == [load EXCEPT !.scope = {"election"}]
Shifting(load) == [load EXCEPT !.scope = {"election", "shifts"}]

\* The same, with a flag that is up from the start and that only a load lowers.
Waiting(how, load) == [load EXCEPT !.scope = {"election", "waits"} \cup how]

\* useQuery: one request for a key at a time, the answer goes to the cache entry
\* of its key, it asks again when the window gets the focus, and no screen shows
\* an error that it does not ask for.
Query(again) == Cancelled(ByKey(again \cup {"focus"}, "first", {}))

\* A write adds a row or sets an existing one.  Once it is acknowledged the
\* screen loads again ("reload"), its handler fetches by itself, without the
\* flag and with a message of its own ("inline"), it changes what it shows
\* ("local"), or leaves it.
Write(adds, after) == [adds |-> adds, after |-> after, of |-> {}, guard |-> FALSE]

Adds(after) == Write(TRUE, after)
Sets(after) == Write(FALSE, after)

\* A write after which only the named loads start again.
Only(write, names) == [write EXCEPT !.of = names]

\* A handler that returns at once while an earlier call of it is under way.
Guarded(write) == [write EXCEPT !.guard = TRUE]

Empty == [x \in {} |-> x]

Logic(loads, writes) == [loads |-> loads, writes |-> writes]

\* The loads whose spinner stands in for the whole screen, and the loads and
\* writes whose control is disabled while they are under way.
View(whole, held) == [whole |-> whole, held |-> held]

\* A screen of several tabs or sections.
Tabs(views) == View(UNION {v.whole : v \in views}, UNION {v.held : v \in views})

NoLoad == [when |-> "never", again |-> {}, spins |-> "never", late |-> "kept",
           fail |-> {}, ends |-> "always", scope |-> {}]
NoWrite == [adds |-> FALSE, after |-> "never", of |-> {}, guard |-> TRUE]

\* What a screen does, a load and a write of it at a time; a screen may lack
\* the one or the other.
Names(f) == IF DOMAIN f = {} THEN {"nothing"} ELSE DOMAIN f
LoadOf(logic, n) == IF n = "nothing" THEN NoLoad ELSE logic.loads[n]
WriteOf(logic, m) == IF m = "nothing" THEN NoWrite ELSE logic.writes[m]
After(write, n) == IF write.of = {} \/ n \in write.of THEN write.after ELSE "none"

Part(logic, view, n, m) ==
    LET write == WriteOf(logic, m)
    IN [load |-> LoadOf(logic, n), whole |-> n \in view.whole, once |-> n \in view.held,
        write |-> [adds |-> write.adds, after |-> After(write, n), of |-> {},
                   guard |-> write.guard],
        gate |-> write.guard \/ m \in view.held]

Parts(logic, view) ==
    {Part(logic, view, n, m) : n \in Names(logic.loads), m \in Names(logic.writes)}
==============================================================================
