----------------------------- MODULE Dashboard -----------------------------
(***************************************************************************)
(* The operator's dashboard (frontend/app.js): the pages that start when   *)
(* they are first shown, the recovery actions of the orchestrator, the     *)
(* storyboard tour, the expansion simulator and the ingestion of pasted    *)
(* data.  One browser thread runs click handlers and timers to completion; *)
(* no timer is ever cancelled.                                             *)
(*                                                                         *)
(* Time advances in ticks of 200 ms, the unit of every delay but that of a *)
(* page's start, 100 ms rounded up.  A timer fires before the next tick    *)
(* once it is due; timers of the same delay fire in the order in which     *)
(* they were set.  Labels, colours, charts, toasts, the alert feed (which  *)
(* only grows) and the drifting asset counter have no bearing on the rest  *)
(* and are left out.  Leaflet and Chart.js are loaded.                     *)
(***************************************************************************)
EXTENDS Ingestion, Orchestrator, SequencesExt

CONSTANTS
    Seed,       \* the carts that the map shows at first
    Texts,      \* what operators paste
    TempsSet, NeighborhoodsSet, TelemetriesSet,     \* the inputs they choose
    Vectors,    \* the expansions they simulate
    Limit       \* bound: how often the operator does each kind of thing, and any

Kinds == {"nav", "input", "click", "tour", "submit", "grow", "open", "any"}

ASSUME SeedAssumption == Seed \in Seq(Cart) /\ \E i \in DOMAIN Seed : Seed[i].story
ASSUME TextsAssumption == Texts \subseteq Text
ASSUME InputsAssumption ==
    /\ TempsSet \subseteq Temps /\ NeighborhoodsSet \subseteq Neighborhoods
    /\ TelemetriesSet \subseteq Telemetries
ASSUME LimitAssumption == Limit \in [Kinds -> Nat]

VARIABLES
    page,       \* the section that is shown
    opened,     \* sections whose start was scheduled: mapInit, orchInit, expInit
    ready,      \* sections that have started
    inputs,     \* the orchestrator's temperature, neighborhood and telemetry
    feed,       \* the recovery actions on the page, elements of the document
    builds,     \* how many times the feed was built, which tells elements apart
    badge,      \* the number of pending actions that is shown
    deployed,   \* history: the elements whose action was deployed
    saved,      \* deployments added to the spoilage saved
    map,        \* the carts on the map, none before the map exists
    overlay,    \* the counters over the map
    marker,     \* storyCartMarker: none, or a marker shown on the map or removed
    refill,     \* the refill queue: its origin and the priorities in it
    modal,      \* whether the ingestion dialog covers the page
    submitted,  \* history: the last data that was accepted
    tour,       \* currentStepIndex, and whether a step was run
    marks,      \* the elements with class story-highlight, those of the feed excepted
    expansion,  \* counts of the simulator, projected growth, what its chart shows
    timers,     \* the timers that have not fired, in the order they were set
    left        \* bound: what the operator may still do

pageVars == <<page, opened, ready>>
feedVars == <<feed, builds, badge>>
savedVars == <<deployed, saved>>
mapVars == <<map, overlay, marker>>
tourVars == <<tour, marks>>
vars == <<pageVars, inputs, feedVars, savedVars, mapVars, refill, modal, submitted,
          tourVars, expansion, timers, left>>

Pages == {"command-center", "operations", "orchestrator", "expansion"}
Lazy == {"operations", "orchestrator", "expansion"}

Unmapped == <<>>
NoChart == -1
Nobody == "none"

-----------------------------------------------------------------------------
(* Timers.                                                                 *)

Delay == [start |-> 1, step |-> 2, fade |-> 2, mark |-> 3, deploy |-> 5, remove |-> 5,
          ingest |-> 6]

\* What a timer is about: a section or an element's identifier, an element's
\* build or the index of a step, and data.
Timer(kind, what, num, data) ==
    [kind |-> kind, wait |-> Delay[kind], what |-> what, num |-> num, data |-> data]

About(kind, what, num) == Timer(kind, what, num, <<>>)

Pending(kind) == {i \in DOMAIN timers : timers[i].kind = kind}

\* Timer i fires: it is due, and no timer of its kind was set before it.
Fires(i, kind) ==
    /\ timers[i].kind = kind /\ timers[i].wait = 0
    /\ \A j \in Pending(kind) : i <= j

Others(i) == RemoveAt(timers, i)

Tick ==
    /\ timers # <<>>
    /\ \A i \in DOMAIN timers : timers[i].wait > 0
    /\ timers' = [i \in DOMAIN timers |-> [timers[i] EXCEPT !.wait = @ - 1]]
    /\ UNCHANGED <<pageVars, inputs, feedVars, savedVars, mapVars, refill, modal, submitted,
                   tourVars, expansion, left>>

\* The operator acts; the dialog covers everything but itself.
Operator(kind, inDialog) ==
    /\ modal = inDialog
    /\ left[kind] > 0 /\ left["any"] > 0
    /\ left' = [left EXCEPT ![kind] = @ - 1, !["any"] = @ - 1]

-----------------------------------------------------------------------------
(* Sections.                                                               *)

NavToAgain(key, ts) ==
    /\ page' = key
    /\ opened' = opened
    /\ timers' = IF key \in Lazy THEN Append(ts, About("start", key, 0)) ELSE ts

\* navTo, with the observer that schedules the start of a section the first
\* time it is shown; the timers are then ts and that one.
NavTo(key, ts) ==
    /\ page' = key
    /\ opened' = opened \cup ({key} \cap Lazy)
    /\ timers' = IF key \in Lazy \ opened THEN Append(ts, About("start", key, 0)) ELSE ts

Navigate(key) ==
    /\ Operator("nav", FALSE)
    /\ NavTo(key, timers)
    /\ UNCHANGED <<ready, inputs, feedVars, savedVars, mapVars, refill, modal, submitted,
                   tourVars, expansion>>

HasStory(carts) == \E i \in DOMAIN carts : carts[i].story

\* The carts replace those on the map, and with them the storyboard's marker:
\* the seed, which every map shows first, has it.
RenderCarts(carts) ==
    /\ map' = carts
    /\ overlay' = Overlay(carts)
    /\ marker' = IF HasStory(carts) THEN "shown" ELSE "removed"

\* The map is made once, with the seed.
InitMapAgain == RenderCarts(Seed)
InitMap == IF map = Unmapped THEN RenderCarts(Seed) ELSE UNCHANGED mapVars

\* An element's identifier: a name and a number, 0 when it has none.
Id(name) == <<name, 0>>
Stable == Id("stable")

Element(id) == [id |-> id, build |-> builds + 1, state |-> "ready", lit |-> FALSE]

\* The feed is built anew from a list of actions.
BuildFeed(ids) ==
    /\ builds' = builds + 1
    /\ feed' = Each(Element, ids)

UpdateOrchestrator(in) ==
    LET ids == Each(Id, Offered(in.temp, in.neighborhood, in.telemetry)) IN
    /\ BuildFeed(ids)
    /\ badge' = Len(ids)

\* The refill queue at first, invented entries.
Invented == [from |-> "seed", queue |-> <<>>]

\* The expansion chart is drawn when its section starts.
Draw(e) == [e EXCEPT !.chart = e.growth]

StartSection(i) ==
    LET key == timers[i].what IN
    /\ Fires(i, "start")
    /\ timers' = Others(i)
    /\ ready' = ready \cup {key}
    /\ \/ /\ key = "operations"
          /\ InitMap
          /\ refill' = Invented
          /\ UNCHANGED <<feedVars, expansion>>
       \/ /\ key = "orchestrator"
          /\ UpdateOrchestrator(inputs)
          /\ UNCHANGED <<mapVars, refill, expansion>>
       \/ /\ key = "expansion"
          /\ expansion' = Draw(expansion)
          /\ UNCHANGED <<feedVars, mapVars, refill>>
    /\ UNCHANGED <<page, opened, inputs, savedVars, modal, submitted, tourVars, left>>

-----------------------------------------------------------------------------
(* The orchestrator.                                                       *)

\* Inputs are listened to once the section has started.
Listen(in) ==
    /\ inputs' = in
    /\ IF "orchestrator" \in ready THEN UpdateOrchestrator(in) ELSE UNCHANGED feedVars

\* The operator changes one input; the humidity, which no action depends on, is
\* not among the inputs, but changing it builds the feed anew as well.
ChangeInput(in) ==
    /\ Operator("input", FALSE)
    /\ page = "orchestrator"
    /\ Cardinality({f \in DOMAIN in : in[f] # inputs[f]}) <= 1
    /\ Listen(in)
    /\ UNCHANGED <<pageVars, savedVars, mapVars, refill, modal, submitted, tourVars, expansion,
                   timers>>

\* executeOrchestratorAction: a button that was clicked is disabled.
AlwaysClickable(item) == item.id # Stable
Clickable(item) == item.state = "ready" /\ item.id # Stable

Execute(k) ==
    /\ page = "orchestrator"
    /\ Clickable(feed[k])
    /\ Operator("click", FALSE)
    /\ feed' = [feed EXCEPT ![k].state = "deploying"]
    /\ timers' = Append(timers, About("deploy", feed[k].id, feed[k].build))
    /\ UNCHANGED <<pageVars, inputs, builds, badge, savedVars, mapVars, refill, modal, submitted,
                   tourVars, expansion>>

\* The element of a timer, which may have left the page, and the element that
\* now has its identifier.
Same(item, t) == item.id = t.what /\ item.build = t.num
SameId(item, t) == item.id = t.what

\* A second later the deployment is counted, whatever became of the button.
CreditIfShown(t) ==
    IF \E k \in DOMAIN feed : Same(feed[k], t)
    THEN saved' = saved + 1 /\ deployed' = deployed \cup {<<t.what, t.num>>}
    ELSE UNCHANGED savedVars

Credit(t) ==
    /\ saved' = saved + 1
    /\ deployed' = deployed \cup {<<t.what, t.num>>}

Deploy(i) ==
    LET t == timers[i] IN
    /\ Fires(i, "deploy")
    /\ Credit(t)
    /\ feed' = [k \in DOMAIN feed |->
                  IF Same(feed[k], t) THEN [feed[k] EXCEPT !.state = "deployed"] ELSE feed[k]]
    /\ timers' = Append(Others(i), About("remove", t.what, t.num))
    /\ UNCHANGED <<pageVars, inputs, builds, badge, mapVars, refill, modal, submitted, tourVars,
                   expansion, left>>

\* Another second later an element is looked up by its identifier and fades.
FadingDeploying(t) == {k \in DOMAIN feed : SameId(feed[k], t) /\ feed[k].state = "deploying"}
FadingFirst(t) == {k \in DOMAIN feed : k = 1}
Fading(t) == {k \in DOMAIN feed : SameId(feed[k], t)}

Fade(i) ==
    LET t == timers[i]
        found == Fading(t)
    IN
    /\ Fires(i, "remove")
    /\ timers' = IF found = {} THEN Others(i)
                 ELSE LET item == feed[CHOOSE k \in found : TRUE]
                      IN  Append(Others(i), About("fade", item.id, item.build))
    /\ UNCHANGED <<pageVars, inputs, feedVars, savedVars, mapVars, refill, modal, submitted,
                   tourVars, expansion, left>>

\* When it has faded it is removed, and what remains is counted.
CountBefore(items) == badge
Count(items) == Len(items)

RemoveElement(i) ==
    LET found == {k \in DOMAIN feed : Same(feed[k], timers[i])} IN
    /\ Fires(i, "fade")
    /\ timers' = Others(i)
    /\ feed' = IF found = {} THEN feed ELSE RemoveAt(feed, CHOOSE k \in found : TRUE)
    /\ badge' = Count(feed')
    /\ UNCHANGED <<pageVars, inputs, builds, savedVars, mapVars, refill, modal, submitted,
                   tourVars, expansion, left>>

-----------------------------------------------------------------------------
(* The expansion simulator.                                                *)

\* How much an expansion adds, and by how much it raises the projected monthly
\* revenue, in hundreds of rupees: 0.72 lakh for 500 subscribers.
Step(vector, amount) ==
    CASE vector = "vending" -> 5
      [] vector = "qcomm"   -> 2
      [] vector = "subs"    -> amount
      [] vector = "trucks"  -> 1

Boost(vector, amount) ==
    CASE vector = "vending" -> 800
      [] vector = "qcomm"   -> 1400
      [] vector = "subs"    -> (amount * 720) \div 500
      [] vector = "trucks"  -> 2200

Added(vector, amount) ==
    [expansion EXCEPT !.count[vector] = @ + Step(vector, amount),
                      !.growth = @ + Boost(vector, amount)]

\* simulateExpansionVector; the chart, once there is one, is drawn again.
Grown(vector, amount) ==
    IF expansion.chart = NoChart THEN Added(vector, amount) ELSE Draw(Added(vector, amount))

Expand(vector) ==
    /\ Operator("grow", FALSE)
    /\ page = "expansion"
    /\ expansion' = Grown(vector, 500)
    /\ UNCHANGED <<pageVars, inputs, feedVars, savedVars, mapVars, refill, modal, submitted,
                   tourVars, timers>>

-----------------------------------------------------------------------------
(* The storyboard, steps 0 to 4.                                           *)

Steps == 0..4
Section == <<"command-center", "operations", "orchestrator", "orchestrator", "expansion">>
Target == <<"revenue", "live-map", "config-card", "actions-card", "growth">>

\* clearHighlights.
Unlit(items) == [k \in DOMAIN items |-> [items[k] EXCEPT !.lit = FALSE]]

\* runStepAction: highlights go and the step's section is shown at once, the
\* rest of the step follows in 400 ms.
RunStep(step) ==
    /\ Operator("tour", FALSE)
    /\ tour' = [step |-> step, run |-> TRUE]
    /\ marks' = {}
    /\ feed' = Unlit(feed)
    /\ NavTo(Section[step + 1], Append(timers, About("step", "", step)))
    /\ UNCHANGED <<ready, inputs, builds, badge, savedVars, mapVars, refill, modal, submitted,
                   expansion>>

Back == tour.step > 0 /\ RunStep(tour.step - 1)
Forward == RunStep((tour.step + 1) % 5)
Dot(step) == RunStep(step)

\* The highlight of a step's target.
MarkOnPage(step) == IF page = Section[step + 1] THEN marks \cup {Target[step + 1]} ELSE marks
Mark(step) == marks \cup {Target[step + 1]}

ShowStep(i) ==
    LET step == timers[i].num IN
    /\ Fires(i, "step")
    /\ marks' = Mark(step) \cup (IF step = 0 THEN {"alert"} ELSE {})
    /\ timers' = IF step = 1 THEN Append(Others(i), About("mark", "", 0)) ELSE Others(i)
    /\ IF step = 1 THEN InitMap ELSE UNCHANGED mapVars
    /\ IF step = 2 THEN Listen([inputs EXCEPT !.temp = 38, !.telemetry = "strain"])
       ELSE /\ feed' = [k \in DOMAIN feed |->
                          [feed[k] EXCEPT !.lit = @ \/ (step = 3 /\ k = 1)]]
            /\ UNCHANGED <<builds, badge, inputs>>
    /\ expansion' = IF step = 4 THEN Grown("subs", 300) ELSE expansion
    /\ UNCHANGED <<pageVars, savedVars, refill, modal, submitted, tour, left>>

\* The storyboard's cart is highlighted if its marker is still on the map.
MarkCart(i) ==
    /\ Fires(i, "mark")
    /\ timers' = Others(i)
    /\ marks' = IF marker = "shown" THEN marks \cup {"cart"} ELSE marks
    /\ UNCHANGED <<pageVars, inputs, feedVars, savedVars, mapVars, refill, modal, submitted, tour,
                   expansion, left>>

-----------------------------------------------------------------------------
(* Ingestion.                                                              *)

OpenDialog ==
    /\ Operator("open", FALSE)
    /\ modal' = TRUE
    /\ UNCHANGED <<pageVars, inputs, feedVars, savedVars, mapVars, refill, submitted, tourVars,
                   expansion, timers>>

\* Closing, cancelling, or clicking beside the dialog.
HideDialog ==
    /\ modal
    /\ modal' = FALSE
    /\ UNCHANGED <<pageVars, inputs, feedVars, savedVars, mapVars, refill, submitted, tourVars,
                   expansion, timers, left>>

\* A text is parsed when it is submitted; one that holds no cart is refused
\* with an alert and changes nothing.
Submit(text) ==
    LET carts == ParseRawData(text) IN
    /\ Operator("submit", TRUE)
    /\ carts # <<>>
    /\ submitted' = carts
    /\ timers' = Append(timers, Timer("ingest", "", 0, carts))
    /\ UNCHANGED <<pageVars, inputs, feedVars, savedVars, mapVars, refill, modal, tourVars,
                   expansion>>

IngestId(k) == <<"ingest-act", k - 1>>

\* The action feed: one action for each cart that calls for it, or one element
\* that says that there is none.
IngestActions(carts) ==
    IF Warnings(carts) = <<>> THEN <<Stable>>
    ELSE [k \in DOMAIN Warnings(carts) |-> IngestId(k)]

\* 1.2 s after its submission the data replaces what the pages show.
Ingest(i) ==
    LET carts == timers[i].data IN
    /\ Fires(i, "ingest")
    /\ RenderCarts(carts)
    /\ marks' = marks \ {"cart"}
    /\ refill' = [from |-> "ingest", queue |-> RefillQueue(carts)]
    /\ BuildFeed(IngestActions(carts))
    /\ badge' = Len(Warnings(carts))
    /\ modal' = FALSE
    /\ NavTo("operations", Others(i))
    /\ UNCHANGED <<ready, inputs, savedVars, submitted, tour, expansion, left>>

-----------------------------------------------------------------------------
AllInputs == [temp : TempsSet, neighborhood : NeighborhoodsSet, telemetry : TelemetriesSet]

Init ==
    /\ page = "command-center" /\ opened = {} /\ ready = {}
    /\ inputs = [temp |-> 34, neighborhood |-> "typical-suburban", telemetry |-> "normal"]
    /\ feed = <<>> /\ builds = 0 /\ badge = 0
    /\ deployed = {} /\ saved = 0
    /\ map = Unmapped /\ overlay = Overlay(<<>>) /\ marker = Nobody
    /\ refill = [from |-> Nobody, queue |-> <<>>]
    /\ modal = FALSE /\ submitted = <<>>
    /\ tour = [step |-> 0, run |-> FALSE] /\ marks = {}
    /\ expansion = [count |-> [v \in {"vending", "qcomm", "subs", "trucks"} |-> 0],
                    growth |-> 0, chart |-> NoChart]
    /\ timers = <<>>
    /\ left = Limit

Fire(i) ==
    \/ StartSection(i) \/ Deploy(i) \/ Fade(i) \/ RemoveElement(i)
    \/ ShowStep(i) \/ MarkCart(i) \/ Ingest(i)

Clock == Tick \/ \E i \in DOMAIN timers : Fire(i)

Operate ==
    \/ \E key \in Pages : Navigate(key)
    \/ \E in \in AllInputs : ChangeInput(in)
    \/ \E k \in DOMAIN feed : Execute(k)
    \/ \E v \in Vectors : Expand(v)
    \/ Back \/ Forward \/ \E step \in Steps : Dot(step)
    \/ OpenDialog \/ HideDialog \/ \E text \in Texts : Submit(text)

Next == Clock \/ Operate

\* The browser's event loop: time passes and timers that are due fire.
Fairness == WF_vars(Clock)

Spec == Init /\ [][Next]_vars /\ Fairness

-----------------------------------------------------------------------------
(* Properties.                                                             *)

\* Every variable keeps its type.
TypeOK ==
    /\ page \in Pages /\ opened \subseteq Lazy /\ ready \subseteq opened
    /\ inputs \in [temp : Temps, neighborhood : Neighborhoods, telemetry : Telemetries]
    /\ \A k \in DOMAIN feed : /\ feed[k].state \in {"ready", "deploying", "deployed"}
                              /\ feed[k].build = builds /\ feed[k].lit \in BOOLEAN
    /\ builds \in Nat /\ badge \in Nat /\ saved \in Nat
    /\ \A i \in DOMAIN map : map[i] \in Cart
    /\ marker \in {Nobody, "shown", "removed"} /\ refill.from \in {Nobody, "seed", "ingest"}
    /\ modal \in BOOLEAN
    /\ tour \in [step : Steps, run : BOOLEAN]
    /\ marks \subseteq {Target[k] : k \in 1..5} \cup {"alert", "cart"}
    /\ \A i \in DOMAIN timers : /\ timers[i].kind \in DOMAIN Delay
                                /\ timers[i].wait \in 0..Delay[timers[i].kind]

\* A click on a recovery action is credited exactly once: the spoilage saved
\* counts the clicks whose second has passed, no button is credited twice, and
\* no rebuild of the feed loses or repeats one (executeOrchestratorAction).
ClicksCredited ==
    /\ saved + Cardinality(Pending("deploy")) = Limit["click"] - left["click"]
    /\ saved = Cardinality(deployed)

\* The badge counts the elements of the feed, however it was built or thinned.
\* The exception is an ingestion without warnings: its one element says so,
\* and the badge says 0 until a removal from an earlier feed counts it.
BadgeCounts ==
    \/ badge = Len(feed)
    \/ badge = 0 /\ Len(feed) = 1 /\ feed[1].id = Stable

\* An action disappears from the feed only when the feed is built anew or after
\* an action with its identifier was deployed, from this feed or an earlier one:
\* the removal looks the element up by its identifier.
VanishedExplained ==
    [][\A k \in DOMAIN feed :
         builds' = builds =>
           \/ \E j \in DOMAIN feed' : feed'[j].id = feed[k].id
           \/ \E b \in 1..builds : <<feed[k].id, b>> \in deployed]_vars

\* A deployed action leaves the page, by its removal or by a rebuild.
Lingers == \E k \in DOMAIN feed : feed[k].state = "deployed"
DeployedLeaves == Lingers ~> ~Lingers

\* When an ingestion finishes, the three views of the data agree: the pending
\* actions are the carts that the map counts as low or offline, and every refill
\* is one of them.  Invented refills replace them at most once, when the
\* operations section starts for the first time.
IngestAgrees ==
    [][/\ Cardinality(Pending("ingest"))' < Cardinality(Pending("ingest")) =>
            /\ badge' = overlay'["low-stock"] + overlay'["offline"]
            /\ Len(refill'.queue) <= badge'
            /\ overlay'["active"] + badge' = Len(map')
       /\ refill.from = "ingest" /\ refill'.from = "seed" =>
            "operations" \in ready' \ ready]_vars

\* Once no ingestion is under way the map shows the data accepted last, whatever
\* was cancelled, opened or toured meanwhile: nothing brings the seed back.
LastIngested == submitted # <<>> /\ Pending("ingest") = {} => map = submitted

\* When the steps that were chosen have all been shown, the target of the current
\* one is highlighted, however quickly they followed each other.
TourSettles == tour.run /\ Pending("step") = {} => Target[tour.step + 1] \in marks
=============================================================================
