---------------------------- MODULE ScreensProofs ----------------------------
(***************************************************************************)
(* Proofs about Screens for any number of selections, requests under way,  *)
(* loads, forms and repeated writes.  The behaviour is proved once for     *)
(* every description that keeps a rule (Orderly, Careful, Owning, Tidy),   *)
(* and then that every screen keeps the rules, but for those that the      *)
(* properties name.                                                        *)
(***************************************************************************)
EXTENDS Screens, TLAPS

-----------------------------------------------------------------------------
(* The rules                                                               *)

\* No interval outlives the screen.
Tidy(p) == "leak" \notin p.load.again

\* The control that adds a row is held, or guarded, while a copy is under way.
Careful(p) == p.write.adds => p.gate

\* A failed load is told, and no answer takes the message back.
Owning(p) ==
    "told" \in p.load.fail /\ "healed" \notin p.load.fail /\ p.write.after # "inline"

\* The whole screen stands behind the spinner of its load: no load and no write
\* is started while it is out, but for a reload after a write, and then the
\* write was the only one and nothing else can start a load.
Solo(p) ==
    /\ p.whole /\ "shifts" \notin p.load.scope
    /\ \/ /\ p.load.spins = "each" /\ p.load.again \subseteq {"retry"} /\ p.write.after # "local"
          /\ p.write.after \in {"reload", "inline"} => p.gate /\ p.load.when = "open"
          /\ p.write.after = "inline" => "retry" \in p.load.again
       \/ /\ p.load.spins # "never" /\ p.load.again = {} /\ p.load.when = "open"
          /\ p.write.after = "local" /\ "election" \notin p.load.scope

\* What a screen shows at rest does not depend on the order of the answers:
\* overtaken answers are dropped; or no two loads differ in their selection; or
\* one load is out at a time.
Orderly(p) ==
    \/ p.load.late = "dropped" /\ p.write.after # "local"
    \/ /\ p.load.when \in {"open", "never"} \/ (p.load.when = "ask" /\ p.once)
       /\ ~Echoes(p) /\ "shifts" \notin p.load.scope
    \/ Solo(p)

-----------------------------------------------------------------------------
(* The inductive invariant                                                 *)

Out(f, s) == f[s] # Nothing
OneOut(f) == \A s, t \in Slot : Out(f, s) /\ Out(f, t) => s = t

\* How often a form was applied, by how far it is: a form that is to come never;
\* the form that is filled in as often as it was sent again, and once more when
\* the copy that is out has landed; an earlier one no more than that.
LandedNow == \E s \in Slot : Out(sent, s) /\ sent[s].landed
Tally(d) ==
    copies[d] <= (IF d \in resent THEN 1 ELSE 0) +
                 (IF d < draft \/ (d = draft /\ LandedNow) THEN 1 ELSE 0)

FormsInv ==
    /\ \A s \in Slot : Out(sent, s) /\ sent[s].landed => copies[sent[s].draft] > 0
    /\ mine \subseteq Truth
    /\ part.gate =>
          /\ OneOut(sent)
          /\ \A s \in Slot : Out(sent, s) => sent[s].draft = draft
          /\ \A d \in resent : d <= draft
          /\ \A d \in Draft : Tally(d)

\* Nothing is out before there is an election, a screen without a load shows
\* nothing, and only the handlers of some writes fetch inline.
SlotInv ==
    /\ ~elected => Idle(flight) /\ Idle(sent)
    /\ part.load = NoLoad => Idle(flight) /\ shown = Nothing
    /\ \A s \in Slot : Out(flight, s) /\ ~flight[s].own => part.write.after = "inline"

\* An owning screen that has lost a load says so.
ToldInv == Owning(part) /\ open /\ lost => told

\* Behind its spinner a screen has one load out.
SoloInv ==
    Solo(part) /\ open =>
        /\ OneOut(flight)
        /\ \A s \in Slot : Out(flight, s) => IF flight[s].own THEN spinning ELSE ~told
        /\ Echoes(part) /\ ~Idle(sent) => Idle(flight) /\ ~Retryable
        /\ part.write.after = "local" /\ mine # {} => Idle(flight)

\* Whatever is out was asked for the present selection, and after the last
\* acknowledgement if the screen reloads; so is what is shown once it is in.
OrderInv ==
    Orderly(part) /\ open =>
        /\ \A s \in Slot : Out(flight, s) =>
              /\ flight[s].key = sel
              /\ Echoes(part) /\ flight[s].got # Nothing => mine \subseteq flight[s].got
        /\ Idle(flight) /\ ~lost /\ shown # Nothing =>
              /\ shown.key = sel
              /\ Echoes(part) => mine \subseteq shown.rows

\* On any screen the same is true of the newest load, and of its answer.
NewestInv ==
    open =>
        /\ newest \in Slot /\ Out(flight, newest) =>
              /\ flight[newest].key = sel
              /\ Echoes(part) /\ flight[newest].got # Nothing => mine \subseteq flight[newest].got
        /\ Idle(flight) /\ ~lost /\ ~stale /\ shown # Nothing =>
              /\ shown.key = sel
              /\ Echoes(part) => mine \subseteq shown.rows

LoadInv == ToldInv /\ SoloInv /\ OrderInv /\ NewestInv

ScreenIndInv == ScreenTypeOK /\ SlotInv /\ FormsInv /\ LoadInv

-----------------------------------------------------------------------------
(* Types                                                                   *)

LEMMA FirstIsKey == First \in Key
BY ScreenAssumption DEF First

LEMMA AskedIsLoading ==
  ASSUME NEW k \in Key, NEW own \in BOOLEAN
  PROVE  /\ Asked(k, own) \in Loading /\ Asked(k, own) # Nothing
         /\ Asked(k, own).key = k /\ Asked(k, own).got = Nothing /\ Asked(k, own).own = own
<1>1. Asked(k, own) \in Loading
  BY DEF Asked, Loading
<1> QED BY <1>1, NothingAssumption DEF Asked

\* What a new load changes: one slot, and the others unless it drops them.
LEMMA FetchIs ==
  ASSUME ScreenTypeOK, NEW k \in Key, NEW own \in BOOLEAN, Fetch(k, own)
  PROVE  /\ newest' \in Slot /\ (flight[newest'] = Nothing \/ Dropping)
         /\ flight'[newest'] = Asked(k, own)
         /\ \A s \in Slot \ {newest'} : flight'[s] = IF Dropping THEN Nothing ELSE flight[s]
         /\ flight' \in [Slot -> {Nothing} \cup Loading]
         /\ sel' = k /\ stale' = stale
<1> DEFINE free == {s \in Slot : flight[s] = Nothing \/ Dropping}
           new == CHOOSE s \in free : TRUE
<1>1. /\ free # {} /\ newest' = new
      /\ flight' = [s \in Slot |-> IF s = new THEN Asked(k, own)
                                   ELSE IF Dropping THEN Nothing ELSE flight[s]]
      /\ sel' = k /\ stale' = stale
  BY DEF Fetch
<1>2. new \in free
  BY <1>1
<1>3. new \in Slot /\ (flight[new] = Nothing \/ Dropping)
  BY <1>2
<1> HIDE DEF new
<1>4. flight' \in [Slot -> {Nothing} \cup Loading]
  BY <1>1, <1>3, AskedIsLoading DEF ScreenTypeOK
<1> QED BY <1>1, <1>3, <1>4

LEMMA AskIs ==
  ASSUME ScreenTypeOK, NEW k \in Key, Ask(k)
  PROVE  /\ Fetch(k, TRUE)
         /\ shown' \in {shown, Nothing}
         /\ spinning' \in BOOLEAN /\ told' \in BOOLEAN /\ lost' \in BOOLEAN
         /\ open => lost' = FALSE /\ (part.load.spins = "each" => spinning')
<1>1. Fetch(k, TRUE) /\ shown' \in {shown, Nothing}
  BY DEF Ask
<1>2. lost' \in BOOLEAN /\ (open => lost' = FALSE)
  BY DEF Ask, ScreenTypeOK
<1>3. CASE open
  BY <1>1, <1>2, <1>3, Zenon DEF Ask
<1>4. CASE ~open
  BY <1>1, <1>2, <1>4 DEF Ask, ScreenTypeOK
<1> QED BY <1>3, <1>4

\* A step of the user, of a timer or of the election that starts a load and
\* nothing else.
Starts(k) ==
    /\ Ask(k) /\ UNCHANGED <<part, open, writeVars>>
    /\ left' \in {left, left - 1} /\ elected'

Starting == (\E k \in Key : Resolve(k) \/ Select(k) \/ Request(k)) \/ Pull \/ Focus \/ Again

LEMMA StartsAre ==
  ASSUME ScreenTypeOK, Starting
  PROVE  /\ (\E k \in Key : Starts(k)) \/ Starts(sel)
         /\ elected' \in BOOLEAN /\ part.load # NoLoad
<1>1. (\E k \in Key : Starts(k)) \/ Starts(sel)
  BY DEF Starting, Resolve, Select, Request, Pull, Focus, Again, UserAsks, Starts
<1>2. elected' \in BOOLEAN
  BY DEF Starting, Resolve, Select, Request, Pull, Focus, Again, UserAsks, ScreenTypeOK
<1>3. part.load # NoLoad
  BY DEF Starting, Resolve, Select, Request, Pull, Focus, Again, Retryable, NoLoad
<1> QED BY <1>1, <1>2, <1>3

LEMMA StartTypes ==
  ASSUME ScreenTypeOK, NEW k \in Key, Starts(k), left' \in 0 .. MaxAsks, elected' \in BOOLEAN
  PROVE  ScreenTypeOK'
<1>1. Ask(k) /\ Fetch(k, TRUE)
  BY AskIs DEF Starts
<1>2. /\ flight' \in [Slot -> {Nothing} \cup Loading] /\ newest' \in Slot /\ stale' = stale
      /\ sel' \in Key /\ lost' \in BOOLEAN /\ shown' \in {Nothing} \cup Page
      /\ spinning' \in BOOLEAN /\ told' \in BOOLEAN
  BY <1>1, AskIs, FetchIs DEF ScreenTypeOK
<1> QED BY <1>2 DEF Starts, ScreenTypeOK, writeVars

\* The fields of a form and of a load that are out.
LEMMA FormFields ==
  ASSUME ScreenTypeOK, NEW s \in Slot, Out(sent, s)
  PROVE  /\ sent[s] \in Form /\ sent[s].draft \in Draft /\ sent[s].landed \in BOOLEAN
         /\ [sent[s] EXCEPT !.landed = TRUE] \in Form
         /\ [sent[s] EXCEPT !.landed = FALSE] \in Form
         /\ [sent[s] EXCEPT !.landed = TRUE].landed
         /\ ~[sent[s] EXCEPT !.landed = FALSE].landed
         /\ [sent[s] EXCEPT !.landed = TRUE].draft = sent[s].draft
         /\ [sent[s] EXCEPT !.landed = FALSE].draft = sent[s].draft
<1>1. sent[s] \in Form
  BY DEF ScreenTypeOK, Out
<1>2. /\ sent[s].draft \in Draft /\ sent[s].landed \in BOOLEAN
      /\ [sent[s] EXCEPT !.landed = TRUE] \in Form
      /\ [sent[s] EXCEPT !.landed = FALSE] \in Form
      /\ [sent[s] EXCEPT !.landed = TRUE].draft = sent[s].draft
      /\ [sent[s] EXCEPT !.landed = FALSE].draft = sent[s].draft
  BY <1>1 DEF Form
<1>3. [sent[s] EXCEPT !.landed = TRUE].landed /\ ~[sent[s] EXCEPT !.landed = FALSE].landed
  BY <1>1 DEF Form
<1> QED BY <1>1, <1>2, <1>3

LEMMA LoadFields ==
  ASSUME ScreenTypeOK, NEW s \in Slot, Out(flight, s)
  PROVE  /\ flight[s] \in Loading /\ flight[s].key \in Key
         /\ flight[s].own \in BOOLEAN
         /\ flight[s].got # Nothing => flight[s].got \in SUBSET Draft
         /\ \A rows \in SUBSET Draft :
               /\ [flight[s] EXCEPT !.got = rows] \in Loading
               /\ [flight[s] EXCEPT !.got = rows].key = flight[s].key
               /\ [flight[s] EXCEPT !.got = rows].own = flight[s].own
               /\ [flight[s] EXCEPT !.got = rows].got = rows
<1>1. flight[s] \in Loading
  BY DEF ScreenTypeOK, Out
<1> QED BY <1>1 DEF Loading

LEMMA TruthIsDrafts == Truth \in SUBSET Draft
BY DEF Truth

LEMMA NetworkTypes ==
  ASSUME ScreenTypeOK, NEW s \in Slot, Network(s)
  PROVE  ScreenTypeOK'
<1>0. Out(flight, s)
  BY DEF Network, Serve, Answer, Fail, Out
<1>1. CASE Serve(s)
  <2>1. flight' = [flight EXCEPT ![s] = [flight[s] EXCEPT !.got = Truth]]
    BY <1>1 DEF Serve
  <2>2. flight' \in [Slot -> {Nothing} \cup Loading]
    BY <1>0, <2>1, LoadFields, TruthIsDrafts DEF ScreenTypeOK
  <2> QED BY <1>1, <2>2 DEF Serve, ScreenTypeOK, orderVars, writeVars
<1>2. CASE Answer(s)
  <2>1. shown' \in {Nothing} \cup Page
    <3>1. [key |-> flight[s].key, rows |-> flight[s].got] \in Page
      BY <1>0, <1>2, LoadFields DEF Answer, Page
    <3> QED BY <1>2, <3>1 DEF Answer, ScreenTypeOK
  <2>2. flight' \in [Slot -> {Nothing} \cup Loading]
    BY <1>2 DEF Answer, ScreenTypeOK
  <2>3. spinning' \in BOOLEAN /\ told' \in BOOLEAN /\ stale' \in BOOLEAN
    BY <1>2, Zenon DEF Answer, ScreenTypeOK
  <2> QED BY <1>2, <2>1, <2>2, <2>3 DEF Answer, ScreenTypeOK, writeVars
<1>3. CASE Fail(s)
  <2>1. shown' \in {Nothing} \cup Page /\ flight' \in [Slot -> {Nothing} \cup Loading]
    BY <1>3 DEF Fail, ScreenTypeOK
  <2>2. spinning' \in BOOLEAN /\ told' \in BOOLEAN /\ lost' \in BOOLEAN
    BY <1>3, Zenon DEF Fail, ScreenTypeOK
  <2> QED BY <1>3, <2>1, <2>2 DEF Fail, ScreenTypeOK, orderVars, writeVars
<1> QED BY <1>1, <1>2, <1>3 DEF Network

LEMMA NextFormIs ==
  ASSUME ScreenTypeOK, NEW s \in Slot, Out(sent, s)
  PROVE  NextForm(s) \in 1 .. MaxDraft + 1
<1>1. MaxDraft \in Nat /\ sent[s].draft \in 1 .. MaxDraft /\ draft \in 1 .. MaxDraft + 1
  BY FormFields, ScreenAssumption DEF ScreenTypeOK, Draft
<1>2. CASE sent[s].draft = draft
  <2>1. NextForm(s) = draft + 1 /\ draft \in 1 .. MaxDraft
    BY <1>1, <1>2 DEF NextForm
  <2> QED BY <1>1, <2>1
<1>3. CASE sent[s].draft # draft
  BY <1>1, <1>3 DEF NextForm
<1> QED BY <1>2, <1>3

LEMMA FormTypes ==
  ASSUME ScreenTypeOK, NEW s \in Slot, Submit(s) \/ Land(s) \/ Retry(s) \/ Refuse(s)
  PROVE  ScreenTypeOK'
<1>1. CASE Submit(s)
  <2>1. [draft |-> draft, landed |-> FALSE] \in Form
    BY <1>1 DEF Submit, Form
  <2>2. sent' \in [Slot -> {Nothing} \cup Form]
    BY <1>1, <2>1 DEF Submit, ScreenTypeOK
  <2> QED BY <1>1, <2>2 DEF Submit, ScreenTypeOK, loadVars, orderVars
<1>2. CASE Land(s)
  <2>0. Out(sent, s)
    BY <1>2 DEF Land, Out
  <2>1. sent' = [sent EXCEPT ![s] = [sent[s] EXCEPT !.landed = TRUE]]
    BY <1>2 DEF Land
  <2>2. sent' \in [Slot -> {Nothing} \cup Form]
    BY <2>0, <2>1, FormFields DEF ScreenTypeOK
  <2>3. copies' \in [Draft -> Nat]
    <3>1. sent[s].draft \in Draft
      BY <2>0, FormFields
    <3>2. copies' = [copies EXCEPT ![sent[s].draft] = copies[sent[s].draft] + 1]
      BY <1>2 DEF Land
    <3>3. copies \in [Draft -> Nat]
      BY DEF ScreenTypeOK
    <3>4. copies[sent[s].draft] + 1 \in Nat
      BY <3>1, <3>3
    <3> QED BY <3>1, <3>2, <3>3, <3>4
  <2> QED BY <1>2, <2>2, <2>3 DEF Land, ScreenTypeOK, loadVars, orderVars
<1>3. CASE Retry(s)
  <2>0. Out(sent, s)
    BY <1>3 DEF Retry, Out
  <2>1. sent' = [sent EXCEPT ![s] = [sent[s] EXCEPT !.landed = FALSE]]
    BY <1>3 DEF Retry
  <2>2. sent' \in [Slot -> {Nothing} \cup Form]
    BY <2>0, <2>1, FormFields DEF ScreenTypeOK
  <2>3. mine' \cup resent' \subseteq Draft
    BY <1>3, <2>0, FormFields DEF Retry, ScreenTypeOK
  <2> QED BY <1>3, <2>2, <2>3 DEF Retry, ScreenTypeOK, loadVars, orderVars
<1>4. CASE Refuse(s)
  <2>0. Out(sent, s)
    BY <1>4 DEF Refuse, Out
  <2>1. draft' \in 1 .. MaxDraft + 1
    BY <1>4, <2>0, NextFormIs DEF Refuse, ScreenTypeOK
  <2>2. sent' \in [Slot -> {Nothing} \cup Form]
    BY <1>4 DEF Refuse, ScreenTypeOK
  <2> QED BY <1>4, <2>1, <2>2 DEF Refuse, ScreenTypeOK, loadVars, orderVars
<1> QED BY <1>1, <1>2, <1>3, <1>4

LEMMA ShownGrows ==
  ASSUME ScreenTypeOK, shown # Nothing, NEW d \in Draft
  PROVE  LET page == [shown EXCEPT !.rows = @ \cup {d}]
         IN /\ page \in Page /\ page # Nothing
            /\ page.key = shown.key /\ page.rows = shown.rows \cup {d}
<1> DEFINE page == [shown EXCEPT !.rows = shown.rows \cup {d}]
<1>1. shown \in Page
  BY DEF ScreenTypeOK
<1>2. page \in Page /\ page.key = shown.key /\ page.rows = shown.rows \cup {d}
  BY <1>1 DEF Page
<1> HIDE DEF page
<1>3. page # Nothing
  BY <1>2, NothingAssumption
<1> QED BY <1>2, <1>3 DEF page

LEMMA AcknowledgeTypes ==
  ASSUME ScreenTypeOK, NEW s \in Slot, Acknowledge(s)
  PROVE  ScreenTypeOK'
<1>0. Out(sent, s) /\ sent[s].draft \in Draft
  BY FormFields DEF Acknowledge, Out
<1>1. /\ draft' \in 1 .. MaxDraft + 1 /\ mine' \cup resent' \subseteq Draft
      /\ sent' \in [Slot -> {Nothing} \cup Form]
      /\ UNCHANGED <<part, open, elected, copies, left>>
  BY <1>0, NextFormIs DEF Acknowledge, ScreenTypeOK
<1>2. CASE Ask(sel)
  <2>1. Fetch(sel, TRUE) /\ sel \in Key
    BY <1>2, AskIs DEF ScreenTypeOK
  <2>2. /\ flight' \in [Slot -> {Nothing} \cup Loading] /\ newest' \in Slot /\ stale' = stale
        /\ sel' \in Key /\ lost' \in BOOLEAN /\ shown' \in {Nothing} \cup Page
        /\ spinning' \in BOOLEAN /\ told' \in BOOLEAN
    BY <1>2, <2>1, AskIs, FetchIs DEF ScreenTypeOK
  <2> QED BY <1>1, <2>2 DEF ScreenTypeOK
<1>3. CASE Fetch(sel, FALSE) /\ lost' = FALSE /\ UNCHANGED <<shown, spinning, told>>
  <2>1. /\ flight' \in [Slot -> {Nothing} \cup Loading] /\ newest' \in Slot /\ stale' = stale
        /\ sel' \in Key
    BY <1>3, FetchIs DEF ScreenTypeOK
  <2> QED BY <1>1, <1>3, <2>1 DEF ScreenTypeOK
<1>4. CASE ShowLocally(sent[s].draft)
  <2>1. UNCHANGED <<sel, flight, stale, spinning, told, lost>> /\ newest' \in {newest, Nothing}
    BY <1>4 DEF ShowLocally
  <2>2. shown' \in {Nothing} \cup Page
    BY <1>0, <1>4, ShownGrows DEF ShowLocally, ScreenTypeOK
  <2> QED BY <1>1, <2>1, <2>2 DEF ScreenTypeOK
<1> QED BY <1>2, <1>3, <1>4 DEF Acknowledge

LEMMA TypesStay ==
  ASSUME ScreenTypeOK, [Next]_screenVars
  PROVE  ScreenTypeOK'
<1>1. ASSUME Starting
      PROVE  ScreenTypeOK'
  <2>1. left' \in 0 .. MaxAsks
    BY <1>1, ScreenAssumption
       DEF Starting, Resolve, Select, Request, Pull, Focus, Again, UserAsks, ScreenTypeOK
  <2> QED BY <1>1, <2>1, StartsAre, StartTypes DEF ScreenTypeOK
<1>2. ASSUME Leave \/ UNCHANGED screenVars
      PROVE  ScreenTypeOK'
  BY <1>2 DEF Leave, screenVars, loadVars, orderVars, writeVars, ScreenTypeOK
<1> QED BY <1>1, <1>2, NetworkTypes, FormTypes, AcknowledgeTypes DEF Next, Starting

-----------------------------------------------------------------------------
(* The load side                                                           *)

\* Sending a load keeps the invariant when nothing that is out can come back
\* for another selection, or from before an acknowledgement.
LEMMA FetchKeeps ==
  ASSUME ScreenTypeOK, OrderInv, NEW k \in Key, NEW own \in BOOLEAN, Fetch(k, own),
         UNCHANGED <<part, open>>,
         open => lost' = FALSE,
         Orderly(part) /\ open => k = sel \/ Dropping \/ Idle(flight),
         Orderly(part) /\ open /\ Echoes(part) => mine' = mine \/ Dropping \/ Idle(flight),
         Solo(part) /\ open =>
             /\ Idle(flight) /\ part.write.after # "local"
             /\ IF own THEN spinning' ELSE ~told',
         Solo(part) /\ open /\ Echoes(part) => Idle(sent')
  PROVE  LoadInv'
<1>1. /\ newest' \in Slot
      /\ flight'[newest'] = Asked(k, own)
      /\ \A s \in Slot \ {newest'} : flight'[s] = IF Dropping THEN Nothing ELSE flight[s]
      /\ sel' = k
  BY FetchIs
<1>2. PICK new \in Slot : new = newest'
  BY <1>1
<1>3. /\ Asked(k, own) # Nothing /\ Asked(k, own).key = k /\ Asked(k, own).got = Nothing
      /\ Asked(k, own).own = own
  BY AskedIsLoading
<1>4. Out(flight', new) /\ ~Idle(flight')
  BY <1>1, <1>2, <1>3 DEF Out, Idle
<1>5. \A s \in Slot \ {new} : Out(flight', s) =>
         flight'[s] = flight[s] /\ Out(flight, s) /\ ~Dropping /\ ~Idle(flight)
  BY <1>1, <1>2 DEF Out, Idle
<1>6. ToldInv'
  BY DEF ToldInv
<1>7. SoloInv'
  <2> SUFFICES ASSUME Solo(part), open
               PROVE  /\ OneOut(flight')
                      /\ \A s \in Slot : Out(flight', s) =>
                            IF flight'[s].own THEN spinning' ELSE ~told'
                      /\ Echoes(part) => Idle(sent')
                      /\ part.write.after # "local"
    BY DEF SoloInv
  <2>1. \A s \in Slot : Out(flight', s) => s = new
    BY <1>5
  <2>2. OneOut(flight')
    BY <2>1 DEF OneOut
  <2> QED BY <1>1, <1>2, <1>3, <2>1, <2>2
<1>8. OrderInv'
  <2> SUFFICES ASSUME Orderly(part), open, NEW s \in Slot, Out(flight', s)
               PROVE  /\ flight'[s].key = k
                      /\ Echoes(part) /\ flight'[s].got # Nothing => mine' \subseteq flight'[s].got
    BY <1>1, <1>4 DEF OrderInv
  <2>1. CASE s = new
    BY <1>1, <1>2, <1>3, <2>1
  <2>2. CASE s # new
    <3>1. /\ flight'[s] = flight[s] /\ Out(flight, s)
          /\ k = sel /\ (Echoes(part) => mine' = mine)
      BY <1>5, <2>2
    <3> QED BY <3>1 DEF OrderInv
  <2> QED BY <2>1, <2>2
<1>9. NewestInv'
  BY <1>1, <1>3, <1>4 DEF NewestInv
<1> QED BY <1>6, <1>7, <1>8, <1>9 DEF LoadInv

LEMMA AskKeeps ==
  ASSUME ScreenTypeOK, OrderInv, NEW k \in Key, Ask(k), UNCHANGED <<part, open>>,
         Orderly(part) /\ open => k = sel \/ Dropping \/ Idle(flight),
         Orderly(part) /\ open /\ Echoes(part) => mine' = mine \/ Dropping \/ Idle(flight),
         Solo(part) /\ open =>
             Idle(flight) /\ part.load.spins = "each" /\ part.write.after # "local",
         Solo(part) /\ open /\ Echoes(part) => Idle(sent')
  PROVE  LoadInv'
<1>1. /\ Fetch(k, TRUE) /\ TRUE \in BOOLEAN
      /\ open => lost' = FALSE /\ (part.load.spins = "each" => spinning')
  BY AskIs
<1> QED BY <1>1, FetchKeeps

\* The fields of a screen with one load at a time.
LEMMA SoloIs ==
  ASSUME ScreenTypeOK, SlotInv, SoloInv, Solo(part), open
  PROVE  /\ part.whole /\ part.load.again \subseteq {"retry"} /\ "shifts" \notin part.load.scope
         /\ ~spinning /\ (told \/ part.write.after # "inline") => Idle(flight)
         /\ part.load.when # "open" \/ part.load.again # {} \/ "election" \in part.load.scope =>
               part.load.spins = "each" /\ part.write.after # "local"
         /\ part.load.when # "open" => ~Echoes(part)
         /\ Echoes(part) /\ ~Idle(sent) => Idle(flight) /\ ~Retryable
         /\ part.write.after \in {"reload", "inline"} => part.gate /\ part.load.spins = "each"
         /\ part.write.after = "inline" => "retry" \in part.load.again
<1>1. /\ part.whole /\ part.load.again \subseteq {"retry"} /\ "shifts" \notin part.load.scope
      /\ part.load.when # "open" \/ part.load.again # {} \/ "election" \in part.load.scope =>
               part.load.spins = "each" /\ part.write.after # "local"
      /\ part.load.when # "open" => ~Echoes(part)
      /\ part.write.after \in {"reload", "inline"} => part.gate /\ part.load.spins = "each"
      /\ part.write.after = "inline" => "retry" \in part.load.again
  BY DEF Solo, Echoes
<1>2. ASSUME ~spinning, told \/ part.write.after # "inline"
      PROVE  Idle(flight)
  <2>1. \A s \in Slot : ~Out(flight, s)
    BY <1>2 DEF SoloInv, SlotInv
  <2> QED BY <2>1 DEF Idle, Out
<1>3. Echoes(part) /\ ~Idle(sent) => Idle(flight) /\ ~Retryable
  BY DEF SoloInv
<1> QED BY <1>1, <1>2, <1>3

LEMMA StartKeeps ==
  ASSUME ScreenIndInv, Starting
  PROVE  LoadInv'
<1> USE DEF ScreenIndInv, LoadInv
<1>1. ASSUME NEW k \in Key, Select(k)
      PROVE  LoadInv'
  <2>1. /\ Ask(k) /\ UNCHANGED <<part, open>> /\ UNCHANGED <<mine, sent>>
        /\ part.load.when = "key" /\ Reachable
    BY <1>1 DEF Select, UserAsks, writeVars
  <2>2. Solo(part) /\ open =>
          Idle(flight) /\ part.load.spins = "each" /\ part.write.after # "local" /\ ~Echoes(part)
    BY <2>1, SoloIs DEF Reachable, Echoes
  <2>3. Orderly(part) /\ open => Dropping \/ Idle(flight)
    BY <2>1, <2>2 DEF Orderly, Dropping
  <2> HIDE DEF ScreenIndInv, LoadInv
  <2> QED BY <2>1, <2>2, <2>3, AskKeeps DEF ScreenIndInv, LoadInv
<1>2. ASSUME NEW k \in Key, Request(k)
      PROVE  LoadInv'
  <2>1. /\ Ask(k) /\ UNCHANGED <<part, open>> /\ UNCHANGED <<mine, sent>>
        /\ part.load.when = "ask" /\ Reachable /\ (part.once => Idle(flight))
    BY <1>2 DEF Request, UserAsks, writeVars
  <2>2. Solo(part) /\ open =>
          Idle(flight) /\ part.load.spins = "each" /\ part.write.after # "local" /\ ~Echoes(part)
    BY <2>1, SoloIs DEF Reachable, Echoes
  <2>3. Orderly(part) /\ open => Dropping \/ Idle(flight)
    BY <2>1, <2>2 DEF Orderly, Dropping
  <2> QED BY <2>1, <2>2, <2>3, AskKeeps
<1>3. CASE Pull
  <2>1. /\ Ask(sel) /\ UNCHANGED <<part, open>> /\ UNCHANGED <<mine, sent>>
        /\ "pull" \in part.load.again \/ (Retryable /\ ~(part.whole /\ spinning))
    BY <1>3 DEF Pull, UserAsks, writeVars
  <2>2. sel \in Key
    BY DEF ScreenTypeOK
  <2>3. ASSUME Solo(part), open
        PROVE  /\ Idle(flight) /\ part.load.spins = "each" /\ part.write.after # "local"
               /\ Echoes(part) => Idle(sent')
    <3>1. /\ part.whole /\ part.load.again \subseteq {"retry"}
          /\ ~spinning /\ told => Idle(flight)
          /\ part.load.again # {} => part.load.spins = "each" /\ part.write.after # "local"
          /\ Echoes(part) /\ ~Idle(sent) => ~Retryable
      BY <2>3, SoloIs
    <3>2. Retryable /\ ~spinning
      BY <2>1, <3>1
    <3>3. part.load.again # {} /\ told
      BY <3>2 DEF Retryable
    <3>4. Echoes(part) => Idle(sent')
      BY <2>1, <3>1, <3>2
    <3> QED BY <3>1, <3>2, <3>3, <3>4
  <2> QED BY <2>1, <2>2, <2>3, AskKeeps
<1>4. CASE Focus \/ Again
  <2>1. /\ Ask(sel) /\ UNCHANGED <<part, open>> /\ UNCHANGED <<mine, sent>>
        /\ ~(part.load.again \subseteq {"retry"})
    BY <1>4 DEF Focus, Again, UserAsks, writeVars
  <2>2. sel \in Key
    BY DEF ScreenTypeOK
  <2>3. ~(Solo(part) /\ open)
    BY <2>1, SoloIs
  <2> QED BY <2>1, <2>2, <2>3, AskKeeps
<1>5. ASSUME NEW k \in Key, Resolve(k)
      PROVE  LoadInv'
  <2>1. /\ Ask(k) /\ UNCHANGED <<part, open>> /\ UNCHANGED <<mine, sent>>
        /\ "election" \in part.load.scope
        /\ elected => "shifts" \in part.load.scope
    BY <1>5 DEF Resolve, writeVars
  <2>2. "shifts" \notin part.load.scope => Idle(flight) /\ Idle(sent)
    BY <2>1 DEF SlotInv
  <2>3. Solo(part) /\ open =>
          /\ Idle(flight) /\ part.load.spins = "each" /\ part.write.after # "local"
          /\ Idle(sent')
    BY <2>1, <2>2, SoloIs
  <2>4. Orderly(part) /\ open => Dropping \/ Idle(flight)
    BY <2>1, <2>2, <2>3 DEF Orderly, Dropping
  <2> QED BY <2>1, <2>3, <2>4, AskKeeps
<1> QED BY <1>1, <1>2, <1>3, <1>4, <1>5 DEF Starting

LEMMA NetworkKeeps ==
  ASSUME ScreenIndInv, NEW s \in Slot, Network(s)
  PROVE  LoadInv'
<1> USE DEF ScreenIndInv, LoadInv
<1>0. /\ Out(flight, s) /\ flight \in [Slot -> {Nothing} \cup Loading]
      /\ UNCHANGED <<part, open>> /\ UNCHANGED <<sel, newest, mine, sent>>
  BY DEF Network, Serve, Answer, Fail, Out, ScreenTypeOK, writeVars, orderVars
<1>1. CASE Serve(s)
  <2>1. /\ flight' = [flight EXCEPT ![s] = [flight[s] EXCEPT !.got = Truth]]
        /\ UNCHANGED <<shown, stale, spinning, told, lost>>
    BY <1>1 DEF Serve, orderVars
  <2>2. /\ flight'[s] \in Loading /\ flight'[s].key = flight[s].key /\ flight'[s].got = Truth
        /\ flight'[s].own = flight[s].own
        /\ \A t \in Slot \ {s} : flight'[t] = flight[t]
    BY <1>0, <2>1, LoadFields, TruthIsDrafts
  <2>3. Out(flight', s) /\ \A t \in Slot : Out(flight', t) <=> Out(flight, t)
    BY <1>0, <2>2, NothingAssumption DEF Out
  <2>4. ~Idle(flight) /\ ~Idle(flight')
    BY <1>0, <2>3 DEF Idle, Out
  <2>5. ToldInv'
    BY <1>0, <2>1 DEF ToldInv
  <2>6. SoloInv'
    <3>1. \A t \in Slot : Out(flight', t) => flight'[t].own = flight[t].own
      BY <2>2
    <3> QED BY <1>0, <2>1, <2>3, <2>4, <3>1 DEF SoloInv, OneOut, Retryable
  <2>7. mine \subseteq Truth
    BY DEF FormsInv
  <2>8. OrderInv'
    <3> SUFFICES ASSUME Orderly(part), open, NEW t \in Slot, Out(flight', t)
                 PROVE  /\ flight'[t].key = sel
                        /\ Echoes(part) /\ flight'[t].got # Nothing => mine \subseteq flight'[t].got
      BY <1>0, <2>4 DEF OrderInv
    <3> QED BY <2>2, <2>3, <2>7 DEF OrderInv
  <2>9. NewestInv'
    <3> SUFFICES ASSUME open, newest \in Slot, Out(flight', newest)
                 PROVE  /\ flight'[newest].key = sel
                        /\ Echoes(part) /\ flight'[newest].got # Nothing =>
                              mine \subseteq flight'[newest].got
      BY <1>0, <2>4 DEF NewestInv
    <3> QED BY <2>2, <2>3, <2>7 DEF NewestInv
  <2> QED BY <2>5, <2>6, <2>8, <2>9
<1>2. CASE ~open
  BY <1>0, <1>2 DEF ToldInv, SoloInv, OrderInv, NewestInv
<1>3. CASE open /\ (Answer(s) \/ Fail(s))
  <2>1. \A t \in Slot : flight'[t] = IF t = s THEN Nothing ELSE flight[t]
    BY <1>0, <1>3 DEF Answer, Fail
  <2>2. Solo(part) => Idle(flight') /\ OneOut(flight')
    BY <1>0, <1>3, <2>1 DEF SoloInv, OneOut, Out, Idle
  <2>3. Solo(part) /\ Echoes(part) => Idle(sent)
    BY <1>0, <1>3 DEF SoloInv, Idle, Out
  <2>4. SoloInv'
    BY <1>0, <2>2, <2>3 DEF SoloInv, Idle, Out
  <2>5. Orderly(part) => \A t \in Slot : Out(flight', t) =>
              /\ flight'[t].key = sel
              /\ Echoes(part) /\ flight'[t].got # Nothing => mine \subseteq flight'[t].got
    BY <1>3, <2>1 DEF OrderInv, Out
  <2>6. newest \in Slot /\ Out(flight', newest) =>
              /\ flight'[newest].key = sel
              /\ Echoes(part) /\ flight'[newest].got # Nothing => mine \subseteq flight'[newest].got
    BY <1>3, <2>1 DEF NewestInv, Out
  <2>7. CASE Answer(s)
    <3>1. /\ shown' = [key |-> flight[s].key, rows |-> flight[s].got]
          /\ flight[s].got # Nothing /\ (~stale' => s = newest)
      BY <1>3, <2>7 DEF Answer
    <3>2. Orderly(part) \/ ~stale' =>
             shown'.key = sel /\ (Echoes(part) => mine \subseteq shown'.rows)
      BY <1>0, <1>3, <3>1 DEF OrderInv, NewestInv
    <3>3. OrderInv'
      BY <1>0, <2>5, <3>2 DEF OrderInv
    <3>4. NewestInv'
      BY <1>0, <2>6, <3>2 DEF NewestInv
    <3>5. ToldInv'
      <4>1. UNCHANGED lost /\ (Owning(part) /\ told => told')
        BY <1>3, <2>7, Zenon DEF Answer, Owning
      <4> QED BY <1>0, <4>1 DEF ToldInv
    <3> QED BY <2>4, <3>3, <3>4, <3>5
  <2>8. CASE Fail(s)
    <3>1. lost'
      BY <1>3, <2>8 DEF Fail
    <3>2. OrderInv'
      BY <1>0, <2>5, <3>1 DEF OrderInv
    <3>3. NewestInv'
      BY <1>0, <2>6, <3>1 DEF NewestInv
    <3>4. ToldInv'
      <4>1. Owning(part) => flight[s].own
        BY <1>0 DEF SlotInv, Owning
      <4>2. Owning(part) => told'
        BY <1>3, <2>8, <4>1, Zenon DEF Fail, Owning
      <4> QED BY <1>0, <4>2 DEF ToldInv
    <3> QED BY <2>4, <3>2, <3>3, <3>4
  <2> QED BY <1>3, <2>7, <2>8
<1> QED BY <1>1, <1>2, <1>3 DEF Network

\* A form on its way changes nothing that was loaded.
LEMMA FormKeepsLoads ==
  ASSUME ScreenIndInv, NEW s \in Slot, Submit(s) \/ Land(s) \/ Retry(s) \/ Refuse(s)
  PROVE  LoadInv'
<1> USE DEF ScreenIndInv, LoadInv
<1>1. /\ UNCHANGED <<part, open, mine>>
      /\ UNCHANGED <<sel, flight, newest, stale, shown, spinning, told, lost>>
  BY DEF Submit, Land, Retry, Refuse, loadVars, orderVars
<1>2. ToldInv' /\ OrderInv' /\ NewestInv'
  BY <1>1 DEF ToldInv, OrderInv, NewestInv
<1>3. Solo(part) /\ open /\ Echoes(part) /\ ~Idle(sent') => Idle(flight) /\ ~Retryable
  <2>1. ASSUME Submit(s), Solo(part), open, Echoes(part)
        PROVE  Idle(flight) /\ ~Retryable
    <3>1. Reachable /\ (part.gate => ~Handling)
      BY <2>1 DEF Submit
    <3>2. ~spinning /\ ~Retryable
      BY <2>1, <3>1, SoloIs DEF Reachable
    <3>3. \A t \in Slot : ~Out(flight, t)
      <4> SUFFICES ASSUME NEW t \in Slot, Out(flight, t) PROVE FALSE
        OBVIOUS
      <4>1. ~flight[t].own /\ part.write.after = "inline"
        BY <2>1, <3>2 DEF SoloInv, SlotInv
      <4>2. part.gate
        BY <2>1, <4>1, SoloIs
      <4> QED BY <3>1, <4>1, <4>2 DEF Handling, Out
    <3> QED BY <3>2, <3>3 DEF Idle, Out
  <2>2. CASE ~Submit(s)
    <3>1. ~Idle(sent)
      BY <2>2 DEF Land, Retry, Refuse, Idle
    <3> QED BY <3>1, SoloIs
  <2> QED BY <2>1, <2>2
<1>4. SoloInv'
  BY <1>1, <1>3 DEF SoloInv, Retryable
<1> QED BY <1>2, <1>4

LEMMA AcknowledgeKeepsLoads ==
  ASSUME ScreenIndInv, NEW s \in Slot, Acknowledge(s)
  PROVE  LoadInv'
<1> USE DEF ScreenIndInv, LoadInv
<1>0. /\ Out(sent, s) /\ sent[s].draft \in Draft /\ ~Idle(sent)
      /\ \A t \in Slot : sent'[t] = IF t = s THEN Nothing ELSE sent[t]
      /\ UNCHANGED <<part, open>>
      /\ mine' = mine \cup {sent[s].draft}
  <2>1. Out(sent, s)
    BY DEF Acknowledge, Out
  <2> QED BY <2>1, FormFields DEF Acknowledge, Out, Idle, ScreenTypeOK
<1>1. CASE part.write.after \in {"reload", "inline"}
  <2>1. Solo(part) /\ open =>
          /\ Idle(flight) /\ part.load.spins = "each" /\ part.write.after # "local"
          /\ part.gate /\ ~Retryable
    BY <1>0, <1>1, SoloIs DEF Echoes
  <2>2. Solo(part) /\ open => Idle(sent')
    BY <1>0, <2>1 DEF FormsInv, OneOut, Out, Idle
  <2>3. Orderly(part) /\ open => Dropping \/ Idle(flight)
    BY <1>1, <2>1 DEF Orderly, Dropping, Echoes
  <2>4. sel \in Key
    BY DEF ScreenTypeOK
  <2>5. CASE Ask(sel)
    BY <1>0, <2>1, <2>2, <2>3, <2>4, <2>5, AskKeeps
  <2>6. CASE Inlines /\ Fetch(sel, FALSE) /\ lost' = FALSE /\ UNCHANGED <<shown, spinning, told>>
    <3>1. Solo(part) /\ open => ~told
      BY <2>1, <2>6, SoloIs DEF Retryable, Inlines
    <3>2. FALSE \in BOOLEAN
      OBVIOUS
    <3> QED BY <1>0, <2>1, <2>2, <2>3, <2>4, <2>6, <3>1, <3>2, FetchKeeps
  <2>7. CASE ~Reloads /\ ~Inlines /\ ShowLocally(sent[s].draft)
    <3>1. /\ UNCHANGED <<sel, flight, newest, stale, shown, spinning, told, lost>>
          /\ ~open \/ part.load = NoLoad
      BY <1>1, <2>7 DEF ShowLocally, Reloads, Inlines
    <3>2. part.load = NoLoad => Idle(flight) /\ shown = Nothing
      BY DEF SlotInv
    <3>3. open => \A t \in Slot : ~Out(flight, t)
      BY <3>1, <3>2 DEF Idle, Out
    <3>4. ToldInv' /\ OrderInv' /\ NewestInv'
      BY <1>0, <3>1, <3>2, <3>3 DEF ToldInv, OrderInv, NewestInv
    <3>5. SoloInv'
      BY <1>0, <1>1, <2>1, <3>1, <3>3 DEF SoloInv, OneOut, Retryable
    <3> QED BY <3>4, <3>5
  <2> QED BY <2>5, <2>6, <2>7 DEF Acknowledge
<1>2. CASE part.write.after \notin {"reload", "inline"}
  <2>1. /\ UNCHANGED <<sel, flight, stale, spinning, told, lost>>
        /\ shown' = IF open /\ part.write.after = "local" /\ shown # Nothing
                    THEN [shown EXCEPT !.rows = @ \cup {sent[s].draft}] ELSE shown
        /\ newest' = IF part.write.after = "local" THEN Nothing ELSE newest
    BY <1>2 DEF Acknowledge, Reloads, Inlines, ShowLocally
  <2>2. ToldInv'
    BY <1>0, <2>1 DEF ToldInv
  <2>3. Solo(part) /\ open /\ Echoes(part) => Idle(flight) /\ ~Retryable
    BY <1>0, SoloIs
  <2>4. SoloInv'
    BY <1>0, <2>1, <2>3 DEF SoloInv, Retryable, Echoes
  <2>5. Echoes(part) => part.write.after = "local"
    BY <1>2 DEF Echoes
  <2>6. Orderly(part) /\ open /\ Echoes(part) => Solo(part)
    BY <2>5 DEF Orderly
  <2>7. ASSUME open, Echoes(part), shown' # Nothing,
               shown # Nothing => shown.key = sel /\ mine \subseteq shown.rows
        PROVE  shown'.key = sel /\ mine' \subseteq shown'.rows
    <3>1. shown # Nothing
      BY <2>1, <2>7
    <3>2. shown'.key = shown.key /\ shown'.rows = shown.rows \cup {sent[s].draft}
      BY <1>0, <2>1, <2>5, <2>7, <3>1, ShownGrows
    <3> QED BY <1>0, <2>7, <3>1, <3>2
  <2>8. OrderInv'
    <3>1. CASE Orderly(part) /\ open /\ Echoes(part)
      <4>1. Idle(flight') /\ \A t \in Slot : ~Out(flight', t)
        BY <2>1, <2>3, <2>6, <3>1 DEF Idle, Out
      <4>2. ASSUME ~lost, shown' # Nothing
            PROVE  shown'.key = sel /\ mine' \subseteq shown'.rows
        <5>1. shown # Nothing => shown.key = sel /\ mine \subseteq shown.rows
          BY <2>3, <2>6, <3>1, <4>2 DEF OrderInv
        <5> QED BY <2>7, <3>1, <4>2, <5>1
      <4> QED BY <1>0, <2>1, <4>1, <4>2 DEF OrderInv
    <3>2. CASE Orderly(part) /\ open /\ ~Echoes(part)
      <4>1. shown' = shown
        BY <2>1, <3>2 DEF Echoes
      <4> QED BY <1>0, <2>1, <3>2, <4>1 DEF OrderInv
    <3>3. CASE ~(Orderly(part) /\ open)
      BY <1>0, <3>3 DEF OrderInv
    <3> QED BY <3>1, <3>2, <3>3
  <2>9. NewestInv'
    <3>1. CASE open /\ Echoes(part)
      <4>1. newest' \notin Slot
        BY <2>1, <2>5, <3>1, NothingAssumption
      <4>2. ASSUME Idle(flight), ~lost, ~stale, shown' # Nothing
            PROVE  shown'.key = sel /\ mine' \subseteq shown'.rows
        <5>1. shown # Nothing => shown.key = sel /\ mine \subseteq shown.rows
          BY <3>1, <4>2 DEF NewestInv
        <5> QED BY <2>7, <3>1, <4>2, <5>1
      <4> QED BY <1>0, <2>1, <4>1, <4>2 DEF NewestInv
    <3>2. CASE open /\ ~Echoes(part)
      <4>1. shown' = shown /\ newest' = newest
        BY <2>1, <3>2 DEF Echoes
      <4> QED BY <1>0, <2>1, <3>2, <4>1 DEF NewestInv
    <3>3. CASE ~open
      BY <1>0, <3>3 DEF NewestInv
    <3> QED BY <3>1, <3>2, <3>3
  <2> QED BY <2>2, <2>4, <2>8, <2>9
<1> QED BY <1>1, <1>2

-----------------------------------------------------------------------------
(* What may be out                                                         *)

\* Sending a load keeps the invariant where there is one to send.
LEMMA FetchSlots ==
  ASSUME ScreenTypeOK, SlotInv, NEW k \in Key, NEW own \in BOOLEAN, Fetch(k, own),
         UNCHANGED part, elected', part.load # NoLoad,
         own \/ part.write.after = "inline"
  PROVE  SlotInv'
<1>1. /\ newest' \in Slot /\ flight'[newest'] = Asked(k, own)
      /\ \A s \in Slot \ {newest'} : flight'[s] = IF Dropping THEN Nothing ELSE flight[s]
  BY FetchIs
<1>2. PICK new \in Slot : new = newest'
  BY <1>1
<1>3. Asked(k, own).own = own
  BY AskedIsLoading
<1>4. ASSUME NEW s \in Slot, Out(flight', s), ~flight'[s].own
      PROVE  part.write.after = "inline"
  <2>1. CASE s = new
    BY <1>1, <1>2, <1>3, <1>4, <2>1
  <2>2. CASE s # new
    <3>1. flight'[s] = flight[s] /\ Out(flight, s)
      BY <1>1, <1>2, <1>4, <2>2 DEF Out
    <3> QED BY <1>4, <3>1 DEF SlotInv
  <2> QED BY <2>1, <2>2
<1> QED BY <1>4 DEF SlotInv

LEMMA NetworkSlots ==
  ASSUME ScreenIndInv, NEW s \in Slot, Network(s)
  PROVE  SlotInv'
<1> USE DEF ScreenIndInv
<1>0. /\ Out(flight, s) /\ flight \in [Slot -> {Nothing} \cup Loading] /\ ~Idle(flight)
      /\ UNCHANGED <<part, elected, sent>>
  BY DEF Network, Serve, Answer, Fail, Out, Idle, ScreenTypeOK, writeVars
<1>1. elected /\ part.load # NoLoad
  BY <1>0 DEF SlotInv, ScreenTypeOK
<1>2. \A t \in Slot : Out(flight', t) => Out(flight, t) /\ flight'[t].own = flight[t].own
  <2>1. CASE Serve(s)
    <3>1. flight' = [flight EXCEPT ![s] = [flight[s] EXCEPT !.got = Truth]]
      BY <2>1 DEF Serve
    <3> QED BY <1>0, <3>1, LoadFields, TruthIsDrafts DEF Out
  <2>2. CASE Answer(s) \/ Fail(s)
    BY <1>0, <2>2 DEF Answer, Fail, Out
  <2> QED BY <2>1, <2>2 DEF Network
<1> QED BY <1>0, <1>1, <1>2 DEF SlotInv

LEMMA FormSlots ==
  ASSUME ScreenIndInv, NEW s \in Slot, Submit(s) \/ Land(s) \/ Retry(s) \/ Refuse(s)
  PROVE  SlotInv'
<1> USE DEF ScreenIndInv
<1>1. UNCHANGED <<part, elected, flight, shown>>
  BY DEF Submit, Land, Retry, Refuse, loadVars
<1>2. elected
  <2>1. CASE Submit(s)
    BY <2>1 DEF Submit, Reachable
  <2>2. CASE ~Submit(s)
    <3>1. ~Idle(sent)
      BY <2>2 DEF Land, Retry, Refuse, Idle
    <3> QED BY <3>1 DEF SlotInv
  <2> QED BY <2>1, <2>2
<1> QED BY <1>1, <1>2 DEF SlotInv

LEMMA AcknowledgeSlots ==
  ASSUME ScreenIndInv, NEW s \in Slot, Acknowledge(s)
  PROVE  SlotInv'
<1> USE DEF ScreenIndInv
<1>1. ~Idle(sent) /\ UNCHANGED <<part, elected>>
  BY DEF Acknowledge, Idle
<1>2. elected /\ elected'
  BY <1>1 DEF SlotInv
<1>3. sel \in Key /\ TRUE \in BOOLEAN /\ FALSE \in BOOLEAN
  BY DEF ScreenTypeOK
<1>4. CASE Reloads /\ Ask(sel)
  <2>1. Fetch(sel, TRUE) /\ part.load # NoLoad
    BY <1>3, <1>4, AskIs DEF Reloads
  <2> QED BY <1>1, <1>2, <1>3, <2>1, FetchSlots
<1>5. CASE Inlines /\ Fetch(sel, FALSE)
  BY <1>1, <1>2, <1>3, <1>5, FetchSlots DEF Inlines
<1>6. CASE ShowLocally(sent[s].draft)
  <2>1. flight' = flight /\ (shown = Nothing => shown' = Nothing)
    BY <1>6 DEF ShowLocally
  <2> QED BY <1>1, <1>2, <2>1 DEF SlotInv
<1> QED BY <1>4, <1>5, <1>6 DEF Acknowledge

-----------------------------------------------------------------------------
(* The write side                                                          *)

\* A step that leaves the forms alone.
LEMMA FormsStay ==
  ASSUME FormsInv, UNCHANGED part, UNCHANGED writeVars
  PROVE  FormsInv'
BY DEF FormsInv, writeVars, Out, OneOut, LandedNow, Tally, Truth

\* With a held control, whether the form that is filled in has landed is said
\* by the one copy that is out.
LEMMA HeldForm ==
  ASSUME ScreenTypeOK, FormsInv, part.gate, NEW s \in Slot, Out(sent, s)
  PROVE  /\ sent[s].draft = draft /\ draft \in Draft
         /\ \A t \in Slot : t # s => ~Out(sent, t)
         /\ LandedNow <=> sent[s].landed
<1>1. sent[s].draft = draft /\ \A t \in Slot : t # s => ~Out(sent, t)
  BY DEF FormsInv, OneOut
<1> QED BY <1>1, FormFields DEF LandedNow

LEMMA SubmitForms ==
  ASSUME ScreenIndInv, NEW s \in Slot, Submit(s)
  PROVE  FormsInv'
<1> USE DEF ScreenIndInv
<1>1. /\ \A t \in Slot \ {s} : sent'[t] = sent[t]
      /\ sent'[s] = [draft |-> draft, landed |-> FALSE]
      /\ UNCHANGED <<part, draft, copies, mine, resent>>
      /\ part.gate => Idle(sent)
  BY DEF Submit, ScreenTypeOK, Handling
<1>2. sent'[s].draft = draft /\ sent'[s].landed = FALSE
  BY <1>1
<1>3. \A t \in Slot : Out(sent', t) /\ sent'[t].landed => copies'[sent'[t].draft] > 0
  BY <1>1, <1>2 DEF FormsInv, Out
<1>4. mine' \subseteq Truth'
  BY <1>1 DEF FormsInv, Truth
<1>5. ASSUME part.gate
      PROVE  /\ OneOut(sent')
             /\ \A t \in Slot : Out(sent', t) => sent'[t].draft = draft'
             /\ \A d \in resent' : d <= draft'
             /\ \A d \in Draft : Tally(d)'
  <2>1. \A t \in Slot : ~Out(sent, t) /\ (t # s => ~Out(sent', t))
    BY <1>1, <1>5 DEF Idle, Out
  <2>2. ~LandedNow /\ ~LandedNow'
    BY <1>2, <2>1 DEF LandedNow
  <2>3. OneOut(sent') /\ \A t \in Slot : Out(sent', t) => sent'[t].draft = draft'
    BY <1>1, <1>2, <2>1 DEF OneOut
  <2>4. (\A d \in resent' : d <= draft') /\ (\A d \in Draft : Tally(d)')
    BY <1>1, <1>5, <2>2 DEF FormsInv, Tally
  <2> QED BY <2>3, <2>4
<1> QED BY <1>1, <1>3, <1>4, <1>5 DEF FormsInv

LEMMA LandForms ==
  ASSUME ScreenIndInv, NEW s \in Slot, Land(s)
  PROVE  FormsInv'
<1> USE DEF ScreenIndInv
<1>0. Out(sent, s) /\ ~sent[s].landed
  BY DEF Land, Out
<1>1. /\ sent' = [sent EXCEPT ![s] = [sent[s] EXCEPT !.landed = TRUE]]
      /\ sent \in [Slot -> {Nothing} \cup Form] /\ copies \in [Draft -> Nat]
      /\ copies' = [copies EXCEPT ![sent[s].draft] = copies[sent[s].draft] + 1]
      /\ UNCHANGED <<part, draft, mine, resent>>
  BY DEF Land, ScreenTypeOK
<1>2. /\ sent'[s].draft = sent[s].draft /\ sent'[s].landed /\ sent[s].draft \in Draft
      /\ \A t \in Slot \ {s} : sent'[t] = sent[t]
      /\ Out(sent', s)
  BY <1>0, <1>1, FormFields, NothingAssumption DEF Out
<1>3. /\ copies'[sent[s].draft] = copies[sent[s].draft] + 1 /\ copies[sent[s].draft] \in Nat
      /\ \A d \in Draft \ {sent[s].draft} : copies'[d] = copies[d]
  BY <1>1, <1>2
<1>4. \A d \in Draft : copies[d] \in Nat /\ copies'[d] \in Nat /\ copies'[d] >= copies[d]
  BY <1>1, <1>3
<1>5. \A t \in Slot : Out(sent', t) /\ sent'[t].landed => copies'[sent'[t].draft] > 0
  <2> SUFFICES ASSUME NEW t \in Slot, Out(sent', t), sent'[t].landed
               PROVE  copies'[sent'[t].draft] > 0
    OBVIOUS
  <2>1. CASE t = s
    BY <1>2, <1>3, <2>1
  <2>2. CASE t # s
    <3>1. Out(sent, t) /\ sent[t].landed /\ sent'[t].draft = sent[t].draft
      BY <1>2, <2>2 DEF Out
    <3>2. sent[t].draft \in Draft /\ copies[sent[t].draft] > 0
      BY <3>1, FormFields DEF FormsInv
    <3>3. PICK d \in Draft : d = sent[t].draft
      BY <3>2
    <3> QED BY <1>4, <3>1, <3>2, <3>3
  <2> QED BY <2>1, <2>2
<1>6. mine' \subseteq Truth'
  BY <1>1, <1>4 DEF FormsInv, Truth
<1>7. ASSUME part.gate
      PROVE  /\ OneOut(sent')
             /\ \A t \in Slot : Out(sent', t) => sent'[t].draft = draft'
             /\ \A d \in resent' : d <= draft'
             /\ \A d \in Draft : Tally(d)'
  <2>1. /\ sent[s].draft = draft /\ draft \in Draft /\ ~LandedNow
        /\ \A t \in Slot : t # s => ~Out(sent, t)
    BY <1>0, <1>7, HeldForm
  <2>2. /\ OneOut(sent')
        /\ \A t \in Slot : Out(sent', t) => sent'[t].draft = draft'
    BY <1>1, <1>2, <2>1 DEF OneOut, Out
  <2>3. LandedNow'
    BY <1>2 DEF LandedNow
  <2>4. ASSUME NEW d \in Draft
        PROVE  Tally(d)'
    <3>1. Tally(d)
      BY <1>7 DEF FormsInv
    <3>2. CASE d = draft
      <4>1. copies[d] <= (IF d \in resent THEN 1 ELSE 0) + 0
        BY <2>1, <3>1, <3>2 DEF Tally, Draft
      <4> QED BY <1>1, <1>3, <2>1, <2>3, <3>2, <4>1 DEF Tally
    <3>3. CASE d # draft
      BY <1>1, <1>3, <2>1, <3>1, <3>3 DEF Tally
    <3> QED BY <3>2, <3>3
  <2>5. \A d \in resent' : d <= draft'
    BY <1>1, <1>7 DEF FormsInv
  <2> QED BY <2>2, <2>4, <2>5
<1> QED BY <1>1, <1>5, <1>6, <1>7 DEF FormsInv

LEMMA RetryForms ==
  ASSUME ScreenIndInv, NEW s \in Slot, Retry(s)
  PROVE  FormsInv'
<1> USE DEF ScreenIndInv
<1>0. Out(sent, s) /\ sent[s].landed
  BY DEF Retry, Out
<1>1. /\ sent' = [sent EXCEPT ![s] = [sent[s] EXCEPT !.landed = FALSE]]
      /\ sent \in [Slot -> {Nothing} \cup Form] /\ copies \in [Draft -> Nat]
      /\ resent' = resent \cup {sent[s].draft} /\ sent[s].draft \notin resent
      /\ UNCHANGED <<part, draft, copies, mine>>
  BY DEF Retry, ScreenTypeOK
<1>2. /\ sent'[s].draft = sent[s].draft /\ ~sent'[s].landed /\ sent[s].draft \in Draft
      /\ \A t \in Slot \ {s} : sent'[t] = sent[t]
  BY <1>0, <1>1, FormFields
<1>3. \A t \in Slot : Out(sent', t) /\ sent'[t].landed => copies'[sent'[t].draft] > 0
  BY <1>1, <1>2 DEF FormsInv, Out
<1>4. mine' \subseteq Truth'
  BY <1>1 DEF FormsInv, Truth
<1>5. ASSUME part.gate
      PROVE  /\ OneOut(sent')
             /\ \A t \in Slot : Out(sent', t) => sent'[t].draft = draft'
             /\ \A d \in resent' : d <= draft'
             /\ \A d \in Draft : Tally(d)'
  <2>1. /\ sent[s].draft = draft /\ draft \in Draft /\ LandedNow
        /\ \A t \in Slot : t # s => ~Out(sent, t)
    BY <1>0, <1>5, HeldForm
  <2>2. /\ OneOut(sent')
        /\ \A t \in Slot : Out(sent', t) => sent'[t].draft = draft'
    BY <1>1, <1>2, <2>1 DEF OneOut, Out
  <2>3. ~LandedNow'
    BY <1>2, <2>1 DEF LandedNow, Out
  <2>4. ASSUME NEW d \in Draft
        PROVE  Tally(d)'
    <3>1. Tally(d) /\ d \in Nat /\ copies[d] \in Nat
      BY <1>1, <1>5, ScreenAssumption DEF FormsInv, Draft
    <3>2. CASE d = draft
      <4>1. d \notin resent /\ d \in resent' /\ copies[d] <= 1
        BY <1>1, <2>1, <3>1, <3>2 DEF Tally
      <4> QED BY <1>1, <2>1, <2>3, <3>1, <3>2, <4>1 DEF Tally
    <3>3. CASE d # draft
      <4>1. d \in resent' <=> d \in resent
        BY <1>1, <2>1, <3>3
      <4> QED BY <1>1, <2>1, <3>1, <3>3, <4>1 DEF Tally
    <3> QED BY <3>2, <3>3
  <2>5. \A d \in resent' : d <= draft'
    <3>1. draft <= draft
      BY <2>1, ScreenAssumption DEF Draft
    <3> QED BY <1>1, <1>5, <2>1, <3>1 DEF FormsInv
  <2> QED BY <2>2, <2>4, <2>5
<1> QED BY <1>1, <1>3, <1>4, <1>5 DEF FormsInv

\* A form is answered: the slot is free again, and a form that was applied makes
\* way for the next.
LEMMA AnsweredForms ==
  ASSUME ScreenIndInv, NEW s \in Slot, Acknowledge(s) \/ Refuse(s)
  PROVE  FormsInv'
<1> USE DEF ScreenIndInv
<1>0. Out(sent, s)
  BY DEF Acknowledge, Refuse, Out
<1>1. /\ \A t \in Slot : sent'[t] = IF t = s THEN Nothing ELSE sent[t]
      /\ UNCHANGED <<part, copies, resent>>
      /\ mine' = mine \/ (sent[s].landed /\ mine' = mine \cup {sent[s].draft})
  BY DEF Acknowledge, Refuse, ScreenTypeOK
<1>2. draft' = IF sent[s].landed THEN NextForm(s) ELSE draft
  BY DEF Acknowledge, Refuse
<1>3. \A t \in Slot : Out(sent', t) /\ sent'[t].landed => copies'[sent'[t].draft] > 0
  BY <1>1 DEF FormsInv, Out
<1>4. mine' \subseteq Truth'
  <2>1. sent[s].landed => sent[s].draft \in Truth
    BY <1>0, FormFields DEF FormsInv, Truth
  <2> QED BY <1>1, <2>1 DEF FormsInv, Truth
<1>5. ASSUME part.gate
      PROVE  /\ OneOut(sent')
             /\ \A t \in Slot : Out(sent', t) => sent'[t].draft = draft'
             /\ \A d \in resent' : d <= draft'
             /\ \A d \in Draft : Tally(d)'
  <2>1. /\ sent[s].draft = draft /\ draft \in Draft /\ (LandedNow <=> sent[s].landed)
        /\ \A t \in Slot : t # s => ~Out(sent, t)
    BY <1>0, <1>5, HeldForm
  <2>2. /\ \A t \in Slot : ~Out(sent', t)
        /\ ~LandedNow'
    BY <1>1, <2>1 DEF LandedNow, Out
  <2>3. /\ OneOut(sent')
        /\ \A t \in Slot : Out(sent', t) => sent'[t].draft = draft'
    BY <2>2 DEF OneOut
  <2>4. draft \in Nat /\ draft' = IF LandedNow THEN draft + 1 ELSE draft
    BY <1>2, <2>1, ScreenAssumption DEF NextForm, Draft
  <2>5. ASSUME NEW d \in Draft
        PROVE  Tally(d)'
    <3>1. Tally(d) /\ d \in Nat /\ copies[d] \in Nat
      BY <1>5, ScreenAssumption DEF FormsInv, Draft, ScreenTypeOK
    <3>2. d < draft' \/ (d = draft' /\ LandedNow') <=> d < draft \/ (d = draft /\ LandedNow)
      BY <2>2, <2>4, <3>1
    <3> QED BY <1>1, <3>1, <3>2 DEF Tally
  <2>6. \A d \in resent' : d <= draft'
    <3> SUFFICES ASSUME NEW d \in resent PROVE d <= draft'
      BY <1>1
    <3>1. d <= draft /\ d \in Nat
      BY <1>5, ScreenAssumption DEF FormsInv, Draft, ScreenTypeOK
    <3> QED BY <2>4, <3>1
  <2> QED BY <2>3, <2>5, <2>6
<1> QED BY <1>1, <1>3, <1>4, <1>5 DEF FormsInv

-----------------------------------------------------------------------------
(* The invariant                                                           *)

LEMMA ScreenStart ==
  ASSUME Init
  PROVE  ScreenIndInv
<1>1. /\ part \in AllParts /\ open = TRUE /\ left = MaxAsks /\ sel = First /\ shown = Nothing
      /\ told = FALSE /\ lost = FALSE /\ stale = FALSE /\ draft = 1 /\ mine = {} /\ resent = {}
      /\ sent = [s \in Slot |-> Nothing] /\ copies = [d \in Draft |-> 0]
  BY DEF Init
<1>2. /\ flight \in [Slot -> {Nothing} \cup Loading]
      /\ OneOut(flight)
      /\ \A s \in Slot : Out(flight, s) =>
            /\ flight[s].key = sel /\ flight[s].got = Nothing /\ flight[s].own
            /\ elected /\ part.load.when \in {"open", "key"}
  <2>1. TRUE \in BOOLEAN
    OBVIOUS
  <2> QED BY <2>1, FirstIsKey, AskedIsLoading DEF Init, OneOut, Out
<1>3. /\ part.load.when \in {"open", "key"} /\ part.load.spins # "never" /\ elected => spinning
      /\ spinning \in BOOLEAN /\ elected \in BOOLEAN /\ newest \in Slot
  <2>1. elected \in BOOLEAN
    BY Zenon DEF Init
  <2>2. newest \in Slot
    BY ScreenAssumption DEF Init
  <2>3. /\ part.load.when \in {"open", "key"} /\ part.load.spins # "never" /\ elected => spinning
        /\ spinning \in BOOLEAN
    BY Zenon DEF Init
  <2> QED BY <2>1, <2>2, <2>3
<1>4. ScreenTypeOK
  <2>1. {open, elected, spinning, stale, told, lost} \subseteq BOOLEAN
    BY <1>1, <1>3
  <2> QED BY <1>1, <1>2, <1>3, <2>1, FirstIsKey, ScreenAssumption DEF ScreenTypeOK
<1>10. SlotInv
  <2>1. Idle(sent)
    BY <1>1 DEF Idle
  <2>2. ~elected \/ part.load = NoLoad => Idle(flight)
    BY <1>2 DEF Idle, Out, NoLoad
  <2> QED BY <1>1, <1>2, <2>1, <2>2 DEF SlotInv
<1>5. FormsInv
  BY <1>1 DEF FormsInv, Out, OneOut, Truth, Tally
<1>6. ToldInv
  BY <1>1 DEF ToldInv
<1>7. SoloInv
  <2>1. Idle(sent) /\ mine = {}
    BY <1>1 DEF Idle
  <2>2. Solo(part) => part.load.spins # "never"
    BY DEF Solo
  <2> QED BY <1>2, <1>3, <2>1, <2>2 DEF SoloInv
<1>8. OrderInv /\ NewestInv
  BY <1>1, <1>2 DEF OrderInv, NewestInv
<1> QED BY <1>4, <1>5, <1>6, <1>7, <1>8, <1>10 DEF ScreenIndInv, LoadInv

LEMMA ScreenStep ==
  ASSUME ScreenIndInv, [Next]_screenVars
  PROVE  ScreenIndInv'
<1>1. ScreenTypeOK'
  BY TypesStay DEF ScreenIndInv
<1>2. ASSUME Starting
      PROVE  ScreenIndInv'
  <2>1. PICK k \in Key : Starts(k)
    BY <1>2, StartsAre DEF ScreenIndInv, ScreenTypeOK
  <2>2. UNCHANGED <<part, writeVars>> /\ elected' /\ Fetch(k, TRUE) /\ TRUE \in BOOLEAN
    BY <2>1, AskIs DEF Starts, ScreenIndInv
  <2>3. FormsInv'
    BY <2>2, FormsStay DEF ScreenIndInv
  <2>4. SlotInv'
    BY <1>2, <2>2, StartsAre, FetchSlots DEF ScreenIndInv
  <2> QED BY <1>1, <1>2, <2>3, <2>4, StartKeeps DEF ScreenIndInv
<1>3. ASSUME NEW s \in Slot, Network(s)
      PROVE  ScreenIndInv'
  <2>1. UNCHANGED <<part, writeVars>>
    BY <1>3 DEF Network, Serve, Answer, Fail
  <2>2. FormsInv'
    BY <2>1, FormsStay DEF ScreenIndInv
  <2> QED BY <1>1, <1>3, <2>2, NetworkKeeps, NetworkSlots DEF ScreenIndInv
<1>4. ASSUME NEW s \in Slot, Submit(s) \/ Land(s) \/ Retry(s) \/ Refuse(s)
      PROVE  ScreenIndInv'
  BY <1>1, <1>4, FormKeepsLoads, FormSlots, SubmitForms, LandForms, RetryForms, AnsweredForms
     DEF ScreenIndInv
<1>5. ASSUME NEW s \in Slot, Acknowledge(s)
      PROVE  ScreenIndInv'
  BY <1>1, <1>5, AcknowledgeKeepsLoads, AcknowledgeSlots, AnsweredForms DEF ScreenIndInv
<1>6. CASE Leave
  <2>1. UNCHANGED <<part, writeVars>> /\ ~open' /\ UNCHANGED <<elected, flight, shown, sent>>
    BY <1>6 DEF Leave, loadVars, writeVars
  <2>2. FormsInv'
    BY <2>1, FormsStay DEF ScreenIndInv
  <2>3. SlotInv'
    BY <2>1 DEF ScreenIndInv, SlotInv
  <2>4. LoadInv'
    BY <2>1 DEF LoadInv, ToldInv, SoloInv, OrderInv, NewestInv
  <2> QED BY <1>1, <2>2, <2>3, <2>4 DEF ScreenIndInv
<1>7. CASE UNCHANGED screenVars
  <2>1. UNCHANGED <<part, writeVars>> /\ UNCHANGED open /\ UNCHANGED loadVars
    BY <1>7 DEF screenVars
  <2>2. FormsInv'
    BY <2>1, FormsStay DEF ScreenIndInv
  <2>3. LoadInv' /\ SlotInv'
    BY <2>1 DEF ScreenIndInv, LoadInv, SlotInv, ToldInv, SoloInv, OrderInv, NewestInv,
                loadVars, orderVars, writeVars, Retryable
  <2> QED BY <1>1, <2>2, <2>3 DEF ScreenIndInv
<1> QED BY <1>2, <1>3, <1>4, <1>5, <1>6, <1>7 DEF Next, Starting

-----------------------------------------------------------------------------
(* The descriptions                                                        *)

\* The rules, read off the logic and the view of a screen.
TidyAt(logic) == \A n \in Names(logic.loads) : "leak" \notin LoadOf(logic, n).again

CarefulAt(logic, view) ==
    \A m \in Names(logic.writes) :
        WriteOf(logic, m).adds => WriteOf(logic, m).guard \/ m \in view.held

OwningAt(logic) ==
    /\ \A n \in Names(logic.loads) :
          "told" \in LoadOf(logic, n).fail /\ "healed" \notin LoadOf(logic, n).fail
    /\ \A m \in Names(logic.writes) : WriteOf(logic, m).after # "inline"

OrderlyAt(logic, view) ==
    \A n \in Names(logic.loads), m \in Names(logic.writes) :
        LET load == LoadOf(logic, n)
            after == After(WriteOf(logic, m), n)
            gate == WriteOf(logic, m).guard \/ m \in view.held
        IN \/ load.late = "dropped" /\ after # "local"
           \/ /\ load.when \in {"open", "never"} \/ (load.when = "ask" /\ n \in view.held)
              /\ after \notin {"reload", "inline", "local"} /\ "shifts" \notin load.scope
           \/ /\ n \in view.whole /\ "shifts" \notin load.scope
              /\ \/ /\ load.spins = "each" /\ load.again \subseteq {"retry"} /\ after # "local"
                    /\ after \in {"reload", "inline"} => gate /\ load.when = "open"
                    /\ after = "inline" => "retry" \in load.again
                 \/ /\ load.spins # "never" /\ load.again = {} /\ load.when = "open"
                    /\ after = "local" /\ "election" \notin load.scope

Sound(logic, view) == TidyAt(logic) /\ CarefulAt(logic, view) /\ OrderlyAt(logic, view)

LEMMA PartHas ==
  ASSUME NEW logic, NEW view, NEW n, NEW m
  PROVE  LET p == Part(logic, view, n, m)
             write == WriteOf(logic, m)
         IN  /\ p.load = LoadOf(logic, n)
             /\ p.whole <=> n \in view.whole
             /\ p.once <=> n \in view.held
             /\ p.write.adds = write.adds
             /\ p.write.after = After(write, n)
             /\ p.gate <=> (write.guard \/ m \in view.held)
<1> DEFINE p == Part(logic, view, n, m)
<1>1. p.load = LoadOf(logic, n) /\ p.write.after = After(WriteOf(logic, m), n)
  BY DEF Part
<1>2. p.write.adds = WriteOf(logic, m).adds
  BY DEF Part
<1>3. p.whole <=> n \in view.whole
  BY Zenon DEF Part
<1>4. p.once <=> n \in view.held
  BY Zenon DEF Part
<1>5. p.gate <=> (WriteOf(logic, m).guard \/ m \in view.held)
  BY Zenon DEF Part
<1> QED BY <1>1, <1>2, <1>3, <1>4, <1>5

LEMMA RulesKept ==
  ASSUME NEW logic, NEW view, NEW p \in Parts(logic, view)
  PROVE  /\ TidyAt(logic) => Tidy(p)
         /\ CarefulAt(logic, view) => Careful(p)
         /\ OrderlyAt(logic, view) => Orderly(p)
         /\ OwningAt(logic) => Owning(p)
<1>1. PICK n \in Names(logic.loads), m \in Names(logic.writes) : p = Part(logic, view, n, m)
  BY DEF Parts
<1>2. TidyAt(logic) => Tidy(p)
  BY <1>1, PartHas DEF TidyAt, Tidy
<1>3. CarefulAt(logic, view) => Careful(p)
  BY <1>1, PartHas DEF CarefulAt, Careful
<1>4. OrderlyAt(logic, view) => Orderly(p)
  BY <1>1, PartHas DEF OrderlyAt, Orderly, Solo, Echoes
<1>5. OwningAt(logic) => Owning(p)
  BY <1>1, PartHas DEF OwningAt, Owning, After
<1> QED BY <1>2, <1>3, <1>4, <1>5

\* Every screen of the mobile app keeps the rules, but for those that are named.
LEMMA MobileScreensKeep ==
  ASSUME NEW p \in MobileParts
  PROVE  /\ Tidy(p)
         /\ p \notin RacingParts => Orderly(p)
         /\ p \notin DoubledParts => Careful(p)
<1> USE DEF Sound, TidyAt, CarefulAt, OrderlyAt, Names, LoadOf, WriteOf, After,
            NoLoad, NoWrite, Logic, OnFocus, Adds, Sets, View, OnOpen, Write, Load,
            ByKey, Cancelled, Empty, OnAsk, PerElection, Lasting, Guarded, Waiting
<1>1. TidyAt(AlertsScreen) /\ CarefulAt(AlertsScreen, AlertsView)
  BY DEF AlertsScreen, AlertsView
<1>2. TidyAt(DashboardScreen) /\ CarefulAt(DashboardScreen, DashboardView)
  BY DEF DashboardScreen, DashboardView
<1>3. Sound(FeedScreen, FeedView)
  BY DEF FeedScreen, FeedView
<1>4. TidyAt(ReportsScreen) /\ CarefulAt(ReportsScreen, ReportsView)
  BY DEF ReportsScreen, ReportsView
<1>5. Sound(AdminConsoleScreen, AdminConsoleView)
  BY DEF AdminConsoleScreen, AdminConsoleView
<1>6. Sound(AIMonitoringScreen, AIMonitoringView)
  BY DEF AIMonitoringScreen, AIMonitoringView
<1>7. Sound(AnomalyDetectionScreen, AnomalyDetectionView)
  BY DEF AnomalyDetectionScreen, AnomalyDetectionView
<1>8. Sound(AuditScreen, AuditView)
  BY DEF AuditScreen, AuditView
<1>9. Sound(BiometricsScreen, BiometricsView)
  BY DEF BiometricsScreen, BiometricsView
<1>10. Sound(BlockchainScreen, BlockchainView)
  BY DEF BlockchainScreen, BlockchainView
<1>11. Sound(BVASSyncScreen, BVASSyncView)
  BY DEF BVASSyncScreen, BVASSyncView
<1>12. Sound(BVASScreen, BVASView)
  BY DEF BVASScreen, BVASView
<1>13. Sound(CitizenPortalScreen, CitizenPortalView)
  BY DEF CitizenPortalScreen, CitizenPortalView
<1>14. Sound(CollationScreen, CollationView)
  BY DEF CollationScreen, CollationView
<1>15. TidyAt(CommandCenterScreen) /\ CarefulAt(CommandCenterScreen, CommandCenterView)
  BY DEF CommandCenterScreen, CommandCenterView
<1>16. TidyAt(ComplianceScreen) /\ CarefulAt(ComplianceScreen, ComplianceView)
  BY DEF ComplianceScreen, ComplianceView
<1>17. Sound(DataValidationScreen, DataValidationView)
  BY DEF DataValidationScreen, DataValidationView
<1>18. TidyAt(DisputesScreen) /\ CarefulAt(DisputesScreen, DisputesView)
  BY DEF DisputesScreen, DisputesView
<1>19. Sound(DocumentAIScreen, DocumentAIView)
  BY DEF DocumentAIScreen, DocumentAIView
<1>20. TidyAt(DuplicateDetectionScreen) /\ CarefulAt(DuplicateDetectionScreen, DuplicateDetectionView)
  BY DEF DuplicateDetectionScreen, DuplicateDetectionView
<1>21. Sound(ElectionsScreen, ElectionsView)
  BY DEF ElectionsScreen, ElectionsView
<1>22. Sound(EnrollmentKioskScreen, EnrollmentKioskView)
  BY DEF EnrollmentKioskScreen, EnrollmentKioskView
<1>23. TidyAt(EvidenceScreen) /\ CarefulAt(EvidenceScreen, EvidenceView)
  BY DEF EvidenceScreen, EvidenceView
<1>24. Sound(ExportCenterScreen, ExportCenterView)
  BY DEF ExportCenterScreen, ExportCenterView
<1>25. TidyAt(GeoMapScreen) /\ CarefulAt(GeoMapScreen, GeoMapView)
  BY DEF GeoMapScreen, GeoMapView
<1>26. Sound(GeofencingScreen, GeofencingView)
  BY DEF GeofencingScreen, GeofencingView
<1>27. Sound(GOTVAnalyticsScreen, GOTVAnalyticsView)
  BY DEF GOTVAnalyticsScreen, GOTVAnalyticsView
<1>28. TidyAt(GOTVCampaignsScreen) /\ CarefulAt(GOTVCampaignsScreen, GOTVCampaignsView)
  BY DEF GOTVCampaignsScreen, GOTVCampaignsView
<1>29. TidyAt(GOTVCanvasserScreen) /\ OrderlyAt(GOTVCanvasserScreen, GOTVCanvasserView)
  BY DEF GOTVCanvasserScreen, GOTVCanvasserView
<1>30. Sound(GOTVContactsScreen, GOTVContactsView)
  BY DEF GOTVContactsScreen, GOTVContactsView
<1>31. TidyAt(GOTVIndicatorsScreen) /\ OrderlyAt(GOTVIndicatorsScreen, GOTVIndicatorsView)
  BY DEF GOTVIndicatorsScreen, GOTVIndicatorsView
<1>32. TidyAt(GOTVLeaderboardScreen) /\ CarefulAt(GOTVLeaderboardScreen, GOTVLeaderboardView)
  BY DEF GOTVLeaderboardScreen, GOTVLeaderboardView
<1>33. TidyAt(GOTVLoginScreen) /\ OrderlyAt(GOTVLoginScreen, GOTVLoginView)
  BY DEF GOTVLoginScreen, GOTVLoginView
<1>34. TidyAt(GOTVPledgesScreen) /\ CarefulAt(GOTVPledgesScreen, GOTVPledgesView)
  BY DEF GOTVPledgesScreen, GOTVPledgesView
<1>35. TidyAt(GOTVRidesScreen) /\ CarefulAt(GOTVRidesScreen, GOTVRidesView)
  BY DEF GOTVRidesScreen, GOTVRidesView
<1>36. Sound(GOTVSegmentsScreen, GOTVSegmentsView)
  BY DEF GOTVSegmentsScreen, GOTVSegmentsView
<1>37. Sound(GOTVTerritoryScreen, GOTVTerritoryView)
  BY DEF GOTVTerritoryScreen, GOTVTerritoryView
<1>38. Sound(GOTVWarRoomScreen, GOTVWarRoomView)
  BY DEF GOTVWarRoomScreen, GOTVWarRoomView
<1>39. Sound(GOTVScreen, GOTVView)
  BY DEF GOTVScreen, GOTVView
<1>40. Sound(HardwareBiometricScreen, HardwareBiometricView)
  BY DEF HardwareBiometricScreen, HardwareBiometricView
<1>41. TidyAt(IncidentsScreen)
  BY DEF IncidentsScreen
<1>42. Sound(LoginScreen, LoginView)
  BY DEF LoginScreen, LoginView
<1>43. Sound(IntegrityScreen, IntegrityView)
  BY DEF IntegrityScreen, IntegrityView
<1>44. Sound(KYCScreen, KYCView)
  BY DEF KYCScreen, KYCView
<1>45. TidyAt(MFAScreen) /\ CarefulAt(MFAScreen, MFAView)
  BY DEF MFAScreen, MFAView
<1>46. Sound(MiddlewareScreen, MiddlewareView)
  BY DEF MiddlewareScreen, MiddlewareView
<1>47. Sound(MLDashboardScreen, MLDashboardView)
  BY DEF MLDashboardScreen, MLDashboardView
<1>48. Sound(ObserverMonitoringScreen, ObserverMonitoringView)
  BY DEF ObserverMonitoringScreen, ObserverMonitoringView
<1>49. Sound(PollingUnitsScreen, PollingUnitsView)
  BY DEF PollingUnitsScreen, PollingUnitsView
<1>50. Sound(PortalIntegrationScreen, PortalIntegrationView)
  BY DEF PortalIntegrationScreen, PortalIntegrationView
<1>51. Sound(PredictiveAnalyticsScreen, PredictiveAnalyticsView)
  BY DEF PredictiveAnalyticsScreen, PredictiveAnalyticsView
<1>52. Sound(ProductionScreen, ProductionView)
  BY DEF ProductionScreen, ProductionView
<1>53. Sound(PublicAPIScreen, PublicAPIView)
  BY DEF PublicAPIScreen, PublicAPIView
<1>54. TidyAt(ResultCaptureScreen) /\ CarefulAt(ResultCaptureScreen, ResultCaptureView)
  BY DEF ResultCaptureScreen, ResultCaptureView
<1>55. TidyAt(ResultsScreen) /\ CarefulAt(ResultsScreen, ResultsView)
  BY DEF ResultsScreen, ResultsView
<1>56. Sound(ScaleHealthScreen, ScaleHealthView)
  BY DEF ScaleHealthScreen, ScaleHealthView
<1>57. TidyAt(SMSVerificationScreen) /\ CarefulAt(SMSVerificationScreen, SMSVerificationView)
  BY DEF SMSVerificationScreen, SMSVerificationView
<1>58. Sound(StakeholderScreen, StakeholderView)
  BY DEF StakeholderScreen, StakeholderView
<1>59. Sound(TrainingScreen, TrainingView)
  BY DEF TrainingScreen, TrainingView
<1>60. Sound(TVDashboardScreen, TVDashboardView)
  BY DEF TVDashboardScreen, TVDashboardView
<1>61. Sound(UserManagementScreen, UserManagementView)
  BY DEF UserManagementScreen, UserManagementView
<1>62. Sound(VoterRegistrationScreen, VoterRegistrationView)
  BY DEF VoterRegistrationScreen, VoterRegistrationView
<1>63. Sound(VoterSearchScreen, VoterSearchView)
  BY DEF VoterSearchScreen, VoterSearchView
<1>64. Sound(WebhookManagementScreen, WebhookManagementView)
  BY DEF WebhookManagementScreen, WebhookManagementView
<1>65. Sound(WorkflowEngineScreen, WorkflowEngineView)
  BY DEF WorkflowEngineScreen, WorkflowEngineView
<1> HIDE DEF Sound, TidyAt, CarefulAt, OrderlyAt, Names, LoadOf, WriteOf, After,
             NoLoad, NoWrite, Logic, OnFocus, Adds, Sets, View, OnOpen, Write, Load,
             ByKey, Cancelled, Empty, OnAsk, PerElection, Lasting, Guarded, Waiting
<1> QED BY <1>1, <1>2, <1>3, <1>4, <1>5, <1>6, <1>7, <1>8, <1>9, <1>10, <1>11, <1>12,
           <1>13, <1>14, <1>15, <1>16, <1>17, <1>18, <1>19, <1>20, <1>21, <1>22,
           <1>23, <1>24, <1>25, <1>26, <1>27, <1>28, <1>29, <1>30, <1>31, <1>32,
           <1>33, <1>34, <1>35, <1>36, <1>37, <1>38, <1>39, <1>40, <1>41, <1>42,
           <1>43, <1>44, <1>45, <1>46, <1>47, <1>48, <1>49, <1>50, <1>51, <1>52,
           <1>53, <1>54, <1>55, <1>56, <1>57, <1>58, <1>59, <1>60, <1>61, <1>62,
           <1>63, <1>64, <1>65, RulesKept
           DEF Sound, MobileParts, RacingParts, DoubledParts

\* So does every page of the campaign platform.
LEMMA CampaignPagesKeep ==
  ASSUME NEW p \in CampaignParts
  PROVE  /\ Tidy(p)
         /\ p \notin RacingParts => Orderly(p)
         /\ p \notin DoubledParts => Careful(p)
<1> USE DEF Sound, TidyAt, CarefulAt, OrderlyAt, Names, LoadOf, WriteOf, After,
            NoLoad, NoWrite, Logic, Empty, Adds, Tabs, Write, View, List, Only,
            Saved, Query, Cancelled, ByKey, Load, Changed, Sets, Drafted, Polled
<1>1. Sound(Analytics, AnalyticsJSX)
  BY DEF Analytics, AnalyticsJSX, AnalyticsPanel, AnalyticsMessageTests
<1>2. Sound(BudgetPlanner, BudgetPlannerJSX)
  BY DEF BudgetPlanner, BudgetPlannerJSX, BudgetPlannerTable, BudgetPlannerDisclosure
<1>3. Sound(CampaignTeam, CampaignTeamJSX)
  BY DEF CampaignTeam, CampaignTeamJSX
<1>4. Sound(CampaignTimeline, CampaignTimelineJSX)
  BY DEF CampaignTimeline, CampaignTimelineJSX
<1>5. Sound(CandidateProfilePage, CandidateProfilePageJSX)
  BY DEF CandidateProfilePage, CandidateProfilePageJSX
<1>6. Sound(CandidateWebsite, CandidateWebsiteJSX)
  BY DEF CandidateWebsite, CandidateWebsiteJSX
<1>7. Sound(Dashboard, DashboardJSX)
  BY DEF Dashboard, DashboardJSX
<1>8. Sound(DataProtection, DataProtectionJSX)
  BY DEF DataProtection, DataProtectionJSX, DataProtectionConsent,
         DataProtectionDsar, DataProtectionTransparency
<1>9. Sound(DebateCoach, DebateCoachJSX)
  BY DEF DebateCoach, DebateCoachJSX, DebateCoachDraft, DebateCoachPractice
<1>10. Sound(DiasporaOutreach, DiasporaOutreachJSX)
  BY DEF DiasporaOutreach, DiasporaOutreachJSX
<1>11. TidyAt(ElectionDayWarRoom) /\ OrderlyAt(ElectionDayWarRoom, ElectionDayWarRoomJSX)
  BY DEF ElectionDayWarRoom, ElectionDayWarRoomJSX, ElectionDayWarRoomFeed,
         ElectionDayWarRoomReport
<1>12. Sound(EndorsementTracker, EndorsementTrackerJSX)
  BY DEF EndorsementTracker, EndorsementTrackerJSX
<1>13. Sound(FundraisingTracker, FundraisingTrackerJSX)
  BY DEF FundraisingTracker, FundraisingTrackerJSX
<1>14. Sound(Home, HomeJSX)
  BY DEF Home, HomeJSX, HomeHub, HomeSimulator, HomeResults, HomeHistory
<1>15. Sound(JoinCampaign, JoinCampaignJSX)
  BY DEF JoinCampaign, JoinCampaignJSX
<1>16. Sound(LegalCompliance, LegalComplianceJSX)
  BY DEF LegalCompliance, LegalComplianceJSX
<1>17. Sound(Login, LoginJSX)
  BY DEF Login, LoginJSX
<1>18. Sound(ManifestoBuilder, ManifestoBuilderJSX)
  BY DEF ManifestoBuilder, ManifestoBuilderJSX, ManifestoBuilderList,
         ManifestoBuilderDialogs
<1>19. Sound(MediaMonitoring, MediaMonitoringJSX)
  BY DEF MediaMonitoring, MediaMonitoringJSX, ComplianceControl,
         MediaMonitoringMentions
<1>20. Sound(OppositionResearch, OppositionResearchJSX)
  BY DEF OppositionResearch, OppositionResearchJSX
<1>21. Sound(PetitionDrive, PetitionDriveJSX)
  BY DEF PetitionDrive, PetitionDriveJSX
<1>22. Sound(PetitionSignPage, PetitionSignPageJSX)
  BY DEF PetitionSignPage, PetitionSignPageJSX
<1>23. Sound(PollingUnitLocator, PollingUnitLocatorJSX)
  BY DEF PollingUnitLocator, PollingUnitLocatorJSX
<1>24. Sound(PostElectionAnalytics, PostElectionAnalyticsJSX)
  BY DEF PostElectionAnalytics, PostElectionAnalyticsJSX
<1>25. Sound(PressReleaseGenerator, PressReleaseGeneratorJSX)
  BY DEF PressReleaseGenerator, PressReleaseGeneratorJSX
<1>26. Sound(ResultsProjection, ResultsProjectionJSX)
  BY DEF ResultsProjection, ResultsProjectionJSX
<1>27. Sound(SocialMediaCenter, SocialMediaCenterJSX)
  BY DEF SocialMediaCenter, SocialMediaCenterJSX
<1>28. Sound(Tribunal, TribunalJSX)
  BY DEF Tribunal, TribunalJSX
<1>29. Sound(VolunteerPortal, VolunteerPortalJSX)
  BY DEF VolunteerPortal, VolunteerPortalJSX, VolunteerPortalTabs,
         VolunteerPortalAnalytics, VolunteerPortalDialogs
<1>30. Sound(VoterRegistration, VoterRegistrationJSX)
  BY DEF VoterRegistration, VoterRegistrationJSX, VoterRegistrationForms,
         VoterRegistrationList
<1> HIDE DEF Sound, TidyAt, CarefulAt, OrderlyAt, Names, LoadOf, WriteOf, After,
             NoLoad, NoWrite, Logic, Empty, Adds, Tabs, Write, View, List, Only,
             Saved, Query, Cancelled, ByKey, Load, Changed, Sets, Drafted, Polled
<1> QED BY <1>1, <1>2, <1>3, <1>4, <1>5, <1>6, <1>7, <1>8, <1>9, <1>10, <1>11, <1>12,
           <1>13, <1>14, <1>15, <1>16, <1>17, <1>18, <1>19, <1>20, <1>21, <1>22,
           <1>23, <1>24, <1>25, <1>26, <1>27, <1>28, <1>29, <1>30, RulesKept
           DEF Sound, CampaignParts, RacingParts, DoubledParts

\* And every page of the commission.
LEMMA InecPagesKeep ==
  ASSUME NEW p \in InecParts
  PROVE  /\ Tidy(p)
         /\ p \notin RacingParts => Orderly(p)
         /\ p \notin DoubledParts => Careful(p)
<1> USE DEF Sound, TidyAt, CarefulAt, OrderlyAt, Names, LoadOf, WriteOf, After,
            NoLoad, NoWrite, Logic, OnOpen, Empty, View, Load, Shifting, Withheld,
            OnAsk, ByKey, Sets, Write, Adds, Only, Tabs, Cancelled, Waiting
<1>1. Sound(AIMonitoringPage, AIMonitoringPageJSX)
  BY DEF AIMonitoringPage, AIMonitoringPageJSX
<1>2. TidyAt(AdminConsolePage) /\ CarefulAt(AdminConsolePage, AdminConsolePageJSX)
  BY DEF AdminConsolePage, AdminConsolePageJSX
<1>3. TidyAt(AuditPage) /\ CarefulAt(AuditPage, AuditPageJSX)
  BY DEF AuditPage, AuditPageJSX
<1>4. Sound(BlockchainPage, BlockchainPageJSX)
  BY DEF BlockchainPage, BlockchainPageJSX
<1>5. TidyAt(BVASPage) /\ CarefulAt(BVASPage, BVASPageJSX)
  BY DEF BVASPage, BVASPageJSX
<1>6. TidyAt(BVASDevices) /\ CarefulAt(BVASDevices, BVASDevicesJSX)
  BY DEF BVASDevices, BVASDevicesJSX
<1>7. TidyAt(BVASSyncPage) /\ CarefulAt(BVASSyncPage, BVASSyncPageJSX)
  BY DEF BVASSyncPage, BVASSyncPageJSX
<1>8. Sound(PublicComplaintForm, PublicComplaintFormJSX)
  BY DEF PublicComplaintForm, PublicComplaintFormJSX
<1>9. Sound(CitizenPortalPage, CitizenPortalPageJSX)
  BY DEF CitizenPortalPage, CitizenPortalPageJSX
<1>10. TidyAt(CollationPage) /\ CarefulAt(CollationPage, CollationPageJSX)
  BY DEF CollationPage, CollationPageJSX
<1>11. TidyAt(ComplianceReportPage) /\ CarefulAt(ComplianceReportPage, ComplianceReportPageJSX)
  BY DEF ComplianceReportPage, ComplianceReportPageJSX
<1>12. Sound(DataValidationPage, DataValidationPageJSX)
  BY DEF DataValidationPage, DataValidationPageJSX
<1>13. TidyAt(DisputeResolutionPage) /\ CarefulAt(DisputeResolutionPage, DisputeResolutionPageJSX)
  BY DEF DisputeResolutionPage, DisputeResolutionPageJSX
<1>14. TidyAt(DocumentAIPage) /\ CarefulAt(DocumentAIPage, DocumentAIPageJSX)
  BY DEF DocumentAIPage, DocumentAIPageJSX
<1>15. Sound(DuplicateDetectionPage, DuplicateDetectionPageJSX)
  BY DEF DuplicateDetectionPage, DuplicateDetectionPageJSX
<1>16. TidyAt(ElectionsPage) /\ CarefulAt(ElectionsPage, ElectionsPageJSX)
  BY DEF ElectionsPage, ElectionsPageJSX, ElectionsPageForm, ElectionsPageList
<1>17. TidyAt(EvidenceJourneyPage) /\ CarefulAt(EvidenceJourneyPage, EvidenceJourneyPageJSX)
  BY DEF EvidenceJourneyPage, EvidenceJourneyPageJSX
<1>18. Sound(ExportCenterPage, ExportCenterPageJSX)
  BY DEF ExportCenterPage, ExportCenterPageJSX
<1>19. TidyAt(GeofencingPage) /\ CarefulAt(GeofencingPage, GeofencingPageJSX)
  BY DEF GeofencingPage, GeofencingPageJSX
<1>20. TidyAt(GOTVAnalytics) /\ CarefulAt(GOTVAnalytics, GOTVAnalyticsJSX)
  BY DEF GOTVAnalytics, GOTVAnalyticsJSX
<1>21. Sound(GOTVBlockchain, GOTVBlockchainJSX)
  BY DEF GOTVBlockchain, GOTVBlockchainJSX
<1>22. TidyAt(GOTVLeaderboard) /\ CarefulAt(GOTVLeaderboard, GOTVLeaderboardJSX)
  BY DEF GOTVLeaderboard, GOTVLeaderboardJSX
<1>23. Sound(GOTVLedger, GOTVLedgerJSX)
  BY DEF GOTVLedger, GOTVLedgerJSX
<1>24. TidyAt(GOTVLocations) /\ CarefulAt(GOTVLocations, GOTVLocationsJSX)
  BY DEF GOTVLocations, GOTVLocationsJSX
<1>25. TidyAt(GOTVSegments)
  BY DEF GOTVSegments
<1>26. TidyAt(GOTVTasks) /\ CarefulAt(GOTVTasks, GOTVTasksJSX)
  BY DEF GOTVTasks, GOTVTasksJSX
<1>27. TidyAt(GOTVVetting) /\ CarefulAt(GOTVVetting, GOTVVettingJSX)
  BY DEF GOTVVetting, GOTVVettingJSX
<1>28. Sound(GOTVWarRoom, GOTVWarRoomJSX)
  BY DEF GOTVWarRoom, GOTVWarRoomJSX
<1>29. TidyAt(IncidentsPage)
  BY DEF IncidentsPage
<1>30. TidyAt(IntegrityScorePage) /\ CarefulAt(IntegrityScorePage, IntegrityScorePageJSX)
  BY DEF IntegrityScorePage, IntegrityScorePageJSX
<1>31. Sound(KYCVerificationPage, KYCVerificationPageJSX)
  BY DEF KYCVerificationPage, KYCVerificationPageJSX
<1>32. Sound(LoginPage, LoginPageJSX)
  BY DEF LoginPage, LoginPageJSX
<1>33. TidyAt(PollingUnitsPage) /\ CarefulAt(PollingUnitsPage, PollingUnitsPageJSX)
  BY DEF PollingUnitsPage, PollingUnitsPageJSX
<1>34. TidyAt(PortalIntegrationPage) /\ CarefulAt(PortalIntegrationPage, PortalIntegrationPageJSX)
  BY DEF PortalIntegrationPage, PortalIntegrationPageJSX
<1>35. Sound(PredictiveAnalyticsPage, PredictiveAnalyticsPageJSX)
  BY DEF PredictiveAnalyticsPage, PredictiveAnalyticsPageJSX
<1>36. TidyAt(ResultsPage) /\ CarefulAt(ResultsPage, ResultsPageJSX)
  BY DEF ResultsPage, ResultsPageJSX
<1>37. TidyAt(SMSVerificationPage) /\ CarefulAt(SMSVerificationPage, SMSVerificationPageJSX)
  BY DEF SMSVerificationPage, SMSVerificationPageJSX
<1>38. Sound(ScaleHealthPage, ScaleHealthPageJSX)
  BY DEF ScaleHealthPage, ScaleHealthPageJSX
<1>39. TidyAt(TrainingPage)
  BY DEF TrainingPage
<1>40. TidyAt(TVDashboardPage) /\ CarefulAt(TVDashboardPage, TVDashboardPageJSX)
  BY DEF TVDashboardPage, TVDashboardPageJSX
<1>41. TidyAt(UserManagementPage) /\ CarefulAt(UserManagementPage, UserManagementPageJSX)
  BY DEF UserManagementPage, UserManagementPageJSX, UserManagementPageForm,
         UserManagementPageList
<1>42. TidyAt(VoterRegistrationPage) /\ CarefulAt(VoterRegistrationPage, VoterRegistrationPageJSX)
  BY DEF VoterRegistrationPage, VoterRegistrationPageJSX
<1>43. TidyAt(WebhookManagementPage)
  BY DEF WebhookManagementPage
<1>44. TidyAt(WorkflowEnginePage) /\ CarefulAt(WorkflowEnginePage, WorkflowEnginePageJSX)
  BY DEF WorkflowEnginePage, WorkflowEnginePageJSX
<1> HIDE DEF Sound, TidyAt, CarefulAt, OrderlyAt, Names, LoadOf, WriteOf, After,
             NoLoad, NoWrite, Logic, OnOpen, Empty, View, Load, Shifting, Withheld,
             OnAsk, ByKey, Sets, Write, Adds, Only, Tabs, Cancelled, Waiting
<1> QED BY <1>1, <1>2, <1>3, <1>4, <1>5, <1>6, <1>7, <1>8, <1>9, <1>10, <1>11, <1>12,
           <1>13, <1>14, <1>15, <1>16, <1>17, <1>18, <1>19, <1>20, <1>21, <1>22,
           <1>23, <1>24, <1>25, <1>26, <1>27, <1>28, <1>29, <1>30, <1>31, <1>32,
           <1>33, <1>34, <1>35, <1>36, <1>37, <1>38, <1>39, <1>40, <1>41, <1>42,
           <1>43, <1>44, RulesKept
           DEF Sound, InecParts, RacingParts, DoubledParts

\* The pages that withhold their records say so when a load fails.
LEMMA AuthoritativePagesOwn ==
  ASSUME NEW p \in AuthoritativeParts
  PROVE  Owning(p)
<1> USE DEF OwningAt, Logic, Shifting, ByKey, Withheld, Empty, OnOpen, Adds, Sets, Waiting,
            Only, OnAsk, Load, Write, Names, LoadOf, NoLoad, WriteOf, NoWrite
<1>1. OwningAt(BVASPage)
  BY DEF BVASPage
<1>2. OwningAt(CollationPage)
  BY DEF CollationPage
<1>3. OwningAt(ComplianceReportPage)
  BY DEF ComplianceReportPage
<1>4. OwningAt(GOTVLedger)
  BY DEF GOTVLedger
<1>5. OwningAt(IncidentsPage)
  BY DEF IncidentsPage
<1>6. OwningAt(PredictiveAnalyticsPage)
  BY DEF PredictiveAnalyticsPage
<1>7. OwningAt(ResultsPage)
  BY DEF ResultsPage
<1>8. OwningAt(UserManagementPage)
  BY DEF UserManagementPage
<1>9. OwningAt(WebhookManagementPage)
  BY DEF WebhookManagementPage
<1> HIDE DEF OwningAt
<1> QED BY <1>1, <1>2, <1>3, <1>4, <1>5, <1>6, <1>7, <1>8, <1>9, RulesKept DEF AuthoritativeParts

-----------------------------------------------------------------------------
(* The theorems                                                            *)

LEMMA RulesOfAll ==
  ASSUME NEW p \in AllParts
  PROVE  /\ Tidy(p)
         /\ p \notin RacingParts => Orderly(p)
         /\ p \notin DoubledParts => Careful(p)
BY MobileScreensKeep, CampaignPagesKeep, InecPagesKeep DEF AllParts

LEMMA ScreenAlways == Spec => []ScreenIndInv
BY ScreenStart, ScreenStep, PTL DEF Spec

LEMMA OneRowHolds == ScreenIndInv => OneRowPerForm
<1> SUFFICES ASSUME ScreenIndInv, part.write.adds, part \notin DoubledParts, NEW d \in Draft
             PROVE  copies[d] <= IF d \in resent THEN 2 ELSE 1
  BY DEF OneRowPerForm
<1>1. part.gate
  BY RulesOfAll DEF ScreenIndInv, ScreenTypeOK, Careful
<1>2. Tally(d) /\ copies[d] \in Nat
  BY <1>1 DEF ScreenIndInv, FormsInv, ScreenTypeOK
<1> QED BY <1>2 DEF Tally

\* On every screen, for any number of forms, requests and repeated writes, a
\* form whose control is held adds one row, and one more for each time that the
\* client sends it again by itself; and a page of authoritative data that has
\* lost its newest load says so (the repeats of request in lib/api.ts, the
\* disabled buttons and the catch blocks of the pages).
THEOREM ScreensSound == Spec => []ScreenInv
<1>1. ScreenIndInv => FailureOwned
  BY AuthoritativePagesOwn DEF ScreenIndInv, LoadInv, ToldInv, FailureOwned, AtRest
<1>2. ScreenIndInv => ScreenInv
  BY <1>1, OneRowHolds DEF ScreenIndInv, ScreenInv
<1> QED BY <1>2, ScreenAlways, PTL

\* A screen that drops overtaken answers, never asks for two different things,
\* or hides behind its spinner, shows at rest the last selection with every
\* change that was acknowledged to the user, whatever the order in which the
\* answers come in; any other screen does unless the answer to a load that had
\* been overtaken came in last.
THEOREM SettledScreensShowOwn == Spec => []SettledShowsOwn
<1>1. ScreenIndInv => SettledShowsOwn
  BY RulesOfAll
     DEF ScreenIndInv, LoadInv, ScreenTypeOK, OrderInv, NewestInv, SettledShowsOwn, AtRest
<1> QED BY <1>1, ScreenAlways, PTL

\* No screen of the three clients sends anything once it was left, but for the
\* load with which the handler of a write that had been sent ends: the cleanup of
\* each effect stops its interval, and no query is fetched that no page watches.
THEOREM ScreensQuietOnceLeft == Spec => QuietOnceLeft
<1> DEFINE Quiet ==
        /\ \A s \in Slot : sent[s] = Nothing => sent'[s] = Nothing
        /\ \A s \in Slot : flight[s] = Nothing /\ flight'[s] # Nothing =>
              HandlerEnds /\ ~Dropping
<1>1. ASSUME ScreenIndInv, [Next]_screenVars, ~open
      PROVE  Quiet
  <2> USE <1>1
  <2>1. "leak" \notin part.load.again
    BY RulesOfAll DEF ScreenIndInv, ScreenTypeOK, Tidy
  <2>2. /\ ~Pull /\ ~Focus /\ ~Again /\ ~Leave
        /\ \A k \in Key : ~Resolve(k) /\ ~Select(k) /\ ~Request(k)
        /\ \A t \in Slot : ~Submit(t)
    BY <2>1 DEF Pull, Focus, Again, Leave, Resolve, Select, Request, Submit, Reachable
  <2>3. ASSUME NEW t \in Slot, Network(t)
        PROVE  Quiet
    BY <2>3 DEF Network, Serve, Answer, Fail, ScreenIndInv, ScreenTypeOK, writeVars
  <2>4. ASSUME NEW t \in Slot, Land(t) \/ Retry(t) \/ Refuse(t)
        PROVE  Quiet
    BY <2>4 DEF Land, Retry, Refuse, loadVars, ScreenIndInv, ScreenTypeOK
  <2>5. ASSUME NEW t \in Slot, Acknowledge(t)
        PROVE  Quiet
    <3>1. /\ \A s \in Slot : sent[s] = Nothing => sent'[s] = Nothing
          /\ HandlerEnds
      BY <2>5 DEF Acknowledge, HandlerEnds, ScreenIndInv, ScreenTypeOK
    <3>2. CASE Reloads \/ Inlines
      BY <3>1, <3>2 DEF Reloads, Inlines
    <3>3. CASE ~Reloads /\ ~Inlines
      BY <2>5, <3>1, <3>3 DEF Acknowledge, ShowLocally
    <3> QED BY <3>2, <3>3
  <2>6. CASE UNCHANGED screenVars
    BY <2>6 DEF screenVars, loadVars, writeVars
  <2> QED BY <2>2, <2>3, <2>4, <2>5, <2>6 DEF Next
<1>2. ScreenIndInv /\ [Next]_screenVars => [~open => Quiet]_screenVars
  BY <1>1
<1> QED BY <1>2, ScreenAlways, PTL DEF Spec, QuietOnceLeft
=============================================================================
