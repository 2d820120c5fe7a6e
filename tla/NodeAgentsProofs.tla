------------------------- MODULE NodeAgentsProofs -------------------------
(***************************************************************************)
(* The safety of NodeAgents for any agents, connections and number of      *)
(* configurations, whether the stop of the node is held to a limit or not; *)
(* and, in the last part, that of FleetControl, from which the node has    *)
(* its new configurations.                                                 *)
(*                                                                         *)
(* The invariant has a part for each of those who act.  StageInv: where    *)
(* the tasks are, and what is over at each stage of the node's stop.       *)
(* HurtInv: who was cancelled, and what that leaves.  StartOf: what a      *)
(* start has brought up.  ChangeInv: the stop in the middle of a change.   *)
(* StopOfBy: what a stop still has ahead of it, so that a walk no one cut  *)
(* leaves nothing.  ListedRight: what an entry of the list says of its     *)
(* instance.  LifeOf: who has an instance, by its lifecycle.               *)
(***************************************************************************)
EXTENDS NodeAgents, FleetControl, FiniteSetTheorems, TLAPS

Walking == {"channel", "receive", "workers", "sessions", "runtimes", "stopped"}
Coming == {"prepare", "runtime up", "channel up", "undo"}
Ours == StartSteps \cup Walking       \* a start task that has its instance

(* What the steps of a stop from s on take down *)
Ahead(s) ==
  CASE s = "stopped" -> {}
    [] s \in {"sessions", "runtimes"} -> {"session", "runtime"}
    [] s = "workers" -> {"worker", "session", "runtime"}
    [] s = "receive" -> {"receive", "worker", "session", "runtime"}
    [] OTHER -> Parts

ControlOver == {"reminders", "starts", "agents", "server", "down"} \cup StopSteps
WakesOver == ControlOver \ {"reminders"}
StartsOver == WakesOver \ {"starts"}
ListOver == {"server", "down"}
BeforeStarts == {"boot", "up", "control", "reminders"}

(* Where the tasks may be, and how far the stop of the node has come *)
StageInv ==
  /\ pc[Main] \in MainSteps \cup StopSteps
  /\ pc[Ctl] \in StopSteps \cup {"poll", "tell", "over"}
  /\ \A a \in Agents : pc[a] \in Ours \cup {"tell", "over"}
  /\ pc[Main] = "boot" => pc[Ctl] = "over" /\ ~hurt[Ctl]
  /\ pc[Main] # "boot" => \A a \in Agents : pc[a] # "over" => a \in starting
  /\ \A a \in starting : cfg[a] # 0
  /\ pc[Main] \in ControlOver => pc[Ctl] = "over"
  /\ pc[Main] \in WakesOver => wake = None
  /\ pc[Main] \in StartsOver => \A a \in Agents : pc[a] = "over"
  /\ pc[Main] \in ListOver => \A a \in Agents : agents[a] = 0
  /\ pc[Main] = "down" => \A h \in Handlers : inFlight[h] = None

(* Cancellations: a start gets one at most, and a stopper that got one ends *)
HurtInv ==
  /\ pc[Ctl] \in {"poll", "tell"} => ~hurt[Ctl]
  /\ pc[Ctl] = "over" /\ hurt[Ctl] =>
       /\ on[Ctl] \in Instances
       /\ agents[on[Ctl][1]] = 0 /\ pc[on[Ctl][1]] = "over"
  /\ hurt[Main] =>
       /\ pc[Main] \in StopSteps \cup {"cut off"}
       /\ on[Main] \in Instances /\ agents[on[Main][1]] = on[Main][2]
  /\ \A a \in Agents : cut[a] \/ hurt[a] => pc[Main] \notin BeforeStarts
  /\ \A a \in Agents : ~ (cut[a] /\ hurt[a])

(* The start of an agent, and what it has brought up so far *)
StartOf(a) ==
  pc[a] \in Ours =>
    /\ cfg[a] # 0 /\ cfg[a] <= written /\ on[a] = <<a, cfg[a]>>
    /\ wake # on[a] /\ \A h \in Handlers : inFlight[h] # on[a]
    /\ IF pc[a] = "load" THEN agents[a] = 0 /\ life[on[a]] = "none"
                         ELSE agents[a] = cfg[a] /\ live[on[a]] \subseteq {"runtime"}
    /\ pc[a] \in Coming => life[on[a]] = "init"
    /\ pc[a] \in {"prepare", "runtime up"} => live[on[a]] = {}
    /\ pc[a] \in Walking => life[on[a]] = "terminated" /\ (live[on[a]] # {} => hurt[a])
    /\ pc[a] = "stopped" => live[on[a]] = {}
StartInv == \A a \in Agents : StartOf(a)

(* The change the control's task is making *)
ChangeInv ==
  IF change = None THEN pc[Ctl] \notin StopSteps
  ELSE LET a == change[2] IN
       /\ pc[Ctl] \in StopSteps
       /\ agents[a] # 0 /\ on[Ctl] = Listed(a) /\ pc[a] = "over"
       /\ change[1] = "update" => /\ cfg[a] # 0 /\ cfg[a] <= written
                                  /\ life[<<a, cfg[a]>>] = "none"

(* The stop of an instance by the control's task or by the node *)
StopOfBy(t) ==
  pc[t] \in StopSteps =>
    /\ on[t] \in Instances
    /\ agents[on[t][1]] = on[t][2] /\ life[on[t]] = "terminated"
    /\ ~hurt[t] => live[on[t]] \subseteq Ahead(pc[t]) \cup {"worker"}
    /\ ~hurt[t] /\ pc[t] \notin {"drain", "gather"} => Carrying(on[t]) = {}
StopInv == \A t \in Stoppers : StopOfBy(t)

(* The list of agents *)
ListedRight(a) ==
  agents[a] # 0 =>
    /\ agents[a] = cfg[a] \/ (change # None /\ change[2] = a)
    /\ life[Listed(a)] # "none"
    /\ life[Listed(a)] = "init" => pc[a] \in Coming
    /\ life[Listed(a)] = "terminated" =>
         \/ pc[a] \in Walking
         \/ change # None /\ change[2] = a
         \/ pc[Main] \in {"agents", "cut off"} \cup StopSteps
ListInv == \A a \in Agents : ListedRight(a)

(* The instances *)
LifeOf(i) ==
  /\ i[2] > written => life[i] = "none"
  /\ life[i] = "none" => live[i] = {} /\ wake # i /\ \A h \in Handlers : inFlight[h] # i
  /\ life[i] \in {"init", "idle"} => agents[i[1]] = i[2]
  /\ life[i] = "init" => wake # i /\ \A h \in Handlers : inFlight[h] # i
  /\ life[i] = "terminated" => \/ live[i] \subseteq {"worker"}
                               \/ \E t \in Tasks : StoppingOf(t, i)
                               \/ CutShort(i)
LifeInv == \A i \in Instances : LifeOf(i)

IInv == /\ TypeOK /\ StageInv /\ HurtInv /\ StartInv
        /\ ChangeInv /\ StopInv /\ ListInv /\ LifeInv

-----------------------------------------------------------------------------
(* The constants, pairs and the walk *)

LEMMA Constants ==
  /\ Tasks = Agents \cup {Ctl, Main} /\ Stoppers = {Ctl, Main} /\ Stoppers \subseteq Tasks
  /\ Ctl \in Tasks /\ Main \in Tasks /\ Agents \subseteq Tasks
  /\ Ctl # Main /\ Ctl \notin Agents /\ Main \notin Agents
  /\ MaxWritten \in Nat /\ MaxWritten >= 1 /\ Versions = 1 .. MaxWritten
BY TasksDiffer, NodeAssumption DEF Tasks, Stoppers, Ctl, Main, Versions

LEMMA Pairs ==
  /\ \A a \in Agents, n \in Versions :
        <<a, n>> \in Instances /\ <<a, n>>[1] = a /\ <<a, n>>[2] = n
  /\ \A i \in Instances : i[1] \in Agents /\ i[2] \in Versions /\ i = <<i[1], i[2]>>
  /\ None \notin Instances
BY DEF Instances, None

LEMMA TakesIs ==
  /\ DOMAIN Takes = {"channel", "receive", "workers", "sessions", "runtimes"}
  /\ Takes["channel"] = {"channel"} /\ Takes["receive"] = {"receive"}
  /\ Takes["workers"] = {"worker"} /\ Takes["sessions"] = {"session"}
  /\ Takes["runtimes"] = {"runtime", "session"}
BY DEF Takes

LEMMA PlaceIs ==
  /\ Place("channel") = 1 /\ Place("receive") = 2 /\ Place("workers") = 3
  /\ Place("sessions") = 4 /\ Place("runtimes") = 5
<1>1. /\ Walk[1] = "channel" /\ Walk[2] = "receive" /\ Walk[3] = "workers"
      /\ Walk[4] = "sessions" /\ Walk[5] = "runtimes" /\ Walk[6] = "stopped"
      /\ Len(Walk) = 6
  BY DEF Walk
<1>2. \A k \in 1 .. 6 : k = 1 \/ k = 2 \/ k = 3 \/ k = 4 \/ k = 5 \/ k = 6
  OBVIOUS
<1>3. ASSUME NEW j \in 1 .. 6 PROVE Place(Walk[j]) = j
  <2>1. \A k \in 1 .. 6 : Walk[k] = Walk[j] <=> k = j
    BY <1>1, <1>2, <1>3
  <2>2. Place(Walk[j]) = CHOOSE k \in 1 .. 6 : k = j
    BY <1>1, <2>1 DEF Place
  <2>3. QED
    BY <2>2
<1>4. QED
  BY <1>1, <1>3

(* The walk goes to the next step that has something to take down *)
LEMMA WalkGoesOn ==
  ASSUME NEW s \in DOMAIN Takes, NEW i
  PROVE  /\ NextStep(s, i) \in Walking \ {"channel"}
         /\ \A S : live[i] \subseteq Ahead(s) \cup S =>
               live[i] \ Takes[s] \subseteq Ahead(NextStep(s, i)) \cup S
<1>1. /\ Walk[1] = "channel" /\ Walk[2] = "receive" /\ Walk[3] = "workers"
      /\ Walk[4] = "sessions" /\ Walk[5] = "runtimes" /\ Walk[6] = "stopped"
      /\ Len(Walk) = 6
  BY DEF Walk
<1>2. Place(s) \in 1 .. 5 /\ s = Walk[Place(s)]
  BY <1>1, TakesIs, PlaceIs
<1> DEFINE L == Later(s, i)
<1>3. L = {k \in (Place(s) + 1) .. 5 : Takes[Walk[k]] \cap live[i] # {}}
  BY <1>1 DEF Later
<1>4. CASE L = {}
  <2>1. NextStep(s, i) = "stopped"
    BY <1>4 DEF NextStep
  <2>2. \A k \in (Place(s) + 1) .. 5 : Takes[Walk[k]] \cap live[i] = {}
    BY <1>3, <1>4
  <2>3. live[i] \cap Ahead(s) \subseteq Takes[s]
    <3>1. CASE s = "channel"
      <4>1. Takes[Walk[2]] \cap live[i] = {} /\ Takes[Walk[3]] \cap live[i] = {}
            /\ Takes[Walk[5]] \cap live[i] = {}
        BY <2>2, <3>1, PlaceIs
      <4>2. QED
        BY <1>1, <3>1, <4>1, TakesIs DEF Ahead, Parts
    <3>2. CASE s = "receive"
      <4>1. Takes[Walk[3]] \cap live[i] = {} /\ Takes[Walk[5]] \cap live[i] = {}
        BY <2>2, <3>2, PlaceIs
      <4>2. QED
        BY <1>1, <3>2, <4>1, TakesIs DEF Ahead, Parts
    <3>3. CASE s = "workers"
      <4>1. Takes[Walk[5]] \cap live[i] = {}
        BY <2>2, <3>3, PlaceIs
      <4>2. QED
        BY <1>1, <3>3, <4>1, TakesIs DEF Ahead, Parts
    <3>4. CASE s = "sessions"
      <4>1. Takes[Walk[5]] \cap live[i] = {}
        BY <2>2, <3>4, PlaceIs
      <4>2. QED
        BY <1>1, <3>4, <4>1, TakesIs DEF Ahead, Parts
    <3>5. CASE s = "runtimes"
      BY <3>5, TakesIs DEF Ahead, Parts
    <3>6. QED
      BY <3>1, <3>2, <3>3, <3>4, <3>5, TakesIs
  <2>4. QED
    BY <2>1, <2>3 DEF Walking
<1>5. CASE L # {}
  <2>1. L \subseteq 2 .. 5
    BY <1>2, <1>3
  <2>2. \E k \in L : \A j \in L : k <= j
    <3>1. \A k \in L : k = 2 \/ k = 3 \/ k = 4 \/ k = 5
      BY <2>1
    <3> HIDE DEF L
    <3>2. CASE 2 \in L
      BY <3>1, <3>2
    <3>3. CASE 2 \notin L /\ 3 \in L
      BY <3>1, <3>3
    <3>4. CASE 2 \notin L /\ 3 \notin L /\ 4 \in L
      BY <3>1, <3>4
    <3>5. CASE 2 \notin L /\ 3 \notin L /\ 4 \notin L
      BY <1>5, <3>1, <3>5
    <3>6. QED
      BY <3>2, <3>3, <3>4, <3>5
  <2> DEFINE m == CHOOSE k \in L : \A j \in L : k <= j
  <2>3. m \in L /\ \A j \in L : m <= j
    BY <2>2
  <2>4. NextStep(s, i) = Walk[m]
    BY <1>5 DEF NextStep
  <2> HIDE DEF m, L
  <2>5. m \in 2 .. 5 /\ Place(s) < m
    BY <1>2, <1>3, <2>1, <2>3
  <2>6. Walk[m] \in Walking \ {"channel"}
    BY <1>1, <2>5 DEF Walking
  <2>7. \A k \in (Place(s) + 1) .. 5 : k < m => Takes[Walk[k]] \cap live[i] = {}
    BY <1>2, <1>3, <2>3, <2>5
  <2>8. live[i] \cap Ahead(s) \subseteq Takes[s] \cup Ahead(Walk[m])
    <3>1. m = 2 \/ m = 3 \/ m = 4 \/ m = 5
      BY <2>5
    <3>2. ASSUME NEW k \in {2, 3, 4}, Place(s) < k, k < m PROVE Takes[Walk[k]] \cap live[i] = {}
      BY <1>2, <2>7, <3>2
    <3>3. CASE s = "channel"
      <4>1. /\ 2 < m => Takes[Walk[2]] \cap live[i] = {}
            /\ 3 < m => Takes[Walk[3]] \cap live[i] = {}
        BY <3>2, <3>3, PlaceIs
      <4>2. QED
        BY <1>1, <3>1, <3>3, <4>1, TakesIs DEF Ahead, Parts
    <3>4. CASE s = "receive"
      <4>1. 3 < m => Takes[Walk[3]] \cap live[i] = {}
        BY <3>2, <3>4, PlaceIs
      <4>2. 2 < m
        BY <2>5, <3>4, PlaceIs
      <4>3. QED
        BY <1>1, <3>1, <3>4, <4>1, <4>2, TakesIs DEF Ahead, Parts
    <3>5. CASE s \in {"workers", "sessions", "runtimes"}
      <4>1. 3 < m
        BY <2>5, <3>5, PlaceIs
      <4>2. QED
        BY <1>1, <3>1, <3>5, <4>1, TakesIs DEF Ahead, Parts
    <3>6. QED
      BY <3>3, <3>4, <3>5, TakesIs
  <2>9. QED
    BY <2>4, <2>6, <2>8
<1>6. QED
  BY <1>4, <1>5

Pcs == StopSteps \cup StartSteps \cup MainSteps \cup {"over", "poll", "tell"}

LEMMA Steps ==
  /\ Walking \subseteq StopSteps /\ DOMAIN Takes \subseteq Walking
  /\ StopSteps \subseteq ControlOver /\ StopSteps \subseteq WakesOver
  /\ StopSteps \subseteq StartsOver
  /\ StopSteps \cap (ListOver \cup BeforeStarts \cup StartSteps \cup Coming
                       \cup {"boot", "down", "load", "poll", "tell", "over", "cut off"}) = {}
  /\ Coming \subseteq StartSteps /\ StartSteps = Coming \cup {"load"}
  /\ "load" \notin Coming /\ Ours \subseteq Pcs /\ StopSteps \subseteq Pcs
BY TakesIs DEF Walking, StopSteps, ControlOver, WakesOver, StartsOver, ListOver, BeforeStarts,
   StartSteps, Coming, Ours, Pcs

LEMMA InitInv == Init => IInv
<1> SUFFICES ASSUME Init PROVE IInv
  OBVIOUS
<1>1. TypeOK
  <2>1. on \in [Tasks -> Instances \cup {None}]
    BY Constants, Pairs, NodeAssumption DEF Init
  <2>2. pc \in [Tasks -> Pcs]
    BY Constants DEF Init, Pcs, StartSteps, MainSteps
  <2>3. cfg \in [Agents -> 0 .. MaxWritten] /\ agents \in [Agents -> 0 .. MaxWritten]
        /\ written \in Versions
    BY Constants DEF Init
  <2>4. QED
    BY <2>1, <2>2, <2>3 DEF Init, TypeOK, Pcs
<1>2. StageInv /\ HurtInv /\ ChangeInv
  <2>1. /\ pc[Main] = "boot" /\ pc[Ctl] = "over" /\ change = None
        /\ \A t \in Tasks : ~hurt[t] /\ ~cut[t]
        /\ \A a \in Agents : pc[a] \in {"load", "over"}
        /\ starting = {}
    BY Constants, NodeAssumption DEF Init
  <2>2. StageInv
    BY <2>1, Constants DEF StageInv, MainSteps, Ours, StartSteps, ControlOver, WakesOver,
                           StartsOver, ListOver, StopSteps
  <2>3. HurtInv
    BY <2>1, Constants DEF HurtInv
  <2>4. ChangeInv
    BY <2>1, Steps DEF ChangeInv
  <2>5. QED
    BY <2>2, <2>3, <2>4
<1>3. ListInv
  BY DEF Init, ListInv, ListedRight
<1>4. StopInv
  BY Constants, NodeAssumption DEF Init, StopInv, StopOfBy, StopSteps
<1>5. LifeInv
  BY Pairs DEF Init, LifeInv, LifeOf
<1>6. StartInv
  <2>1. SUFFICES ASSUME NEW a \in Agents, a \in Configured PROVE StartOf(a)
    BY Constants, NodeAssumption DEF Init, StartInv, StartOf, Ours, StartSteps, Walking
  <2>2. /\ pc[a] = "load" /\ cfg[a] = 1 /\ written = 1 /\ on[a] = <<a, 1>> /\ agents[a] = 0
        /\ wake = None /\ \A h \in Handlers : inFlight[h] = None
    BY <2>1, Constants DEF Init
  <2>3. <<a, 1>> \in Instances /\ None \notin Instances
    BY Constants, Pairs
  <2>4. life[<<a, 1>>] = "none"
    BY <2>3 DEF Init
  <2>5. QED
    BY <2>2, <2>3, <2>4 DEF StartOf, Coming, Walking
<1>7. QED
  BY <1>1, <1>2, <1>3, <1>4, <1>5, <1>6 DEF IInv

-----------------------------------------------------------------------------
(* The walk of whoever stops an instance *)

(* The instance a start task is about *)
LEMMA StartHas ==
  ASSUME IInv, NEW a \in Agents, pc[a] \in Ours
  PROVE  /\ on[a] = <<a, cfg[a]>> /\ on[a] \in Instances /\ cfg[a] # 0
         /\ on[a][1] = a /\ on[a][2] = cfg[a] /\ cfg[a] \in Versions
         /\ pc[a] # "load" => on[a] = Listed(a) /\ agents[a] = cfg[a] /\ agents[a] # 0
<1>1. cfg[a] # 0 /\ on[a] = <<a, cfg[a]>> /\ (pc[a] # "load" => agents[a] = cfg[a])
  BY DEF IInv, StartInv, StartOf
<1>2. cfg[a] \in Versions
  BY <1>1, Constants DEF IInv, TypeOK
<1>3. QED
  BY <1>1, <1>2, Pairs DEF Listed

(* A step of a stop takes parts of its instance away and keeps the place *)
StopMoves(t) ==
  /\ pc[t] \in StopSteps
  /\ \E s \in StopSteps : Goes(t, s) /\ (pc[t] \in Walking => s \in Walking)
  /\ live' = live \/ \E S : live' = [live EXCEPT ![on[t]] = @ \ S]
  /\ cut' = cut \/ cut' = [cut EXCEPT ![t] = FALSE]
  /\ hurt' \in [Tasks -> BOOLEAN]
  /\ \A u \in Tasks : /\ hurt[u] => hurt'[u]
                      /\ u # t \/ t \in Agents => hurt'[u] = hurt[u]
  /\ told' \subseteq Handlers
  /\ UNCHANGED <<configuration, agents, starting, life, on, change, inFlight, wake, limit>>

LEMMA StopStepMoves ==
  ASSUME IInv, NEW t \in Tasks, StopStep(t)
  PROVE  StopMoves(t)
<1>0. /\ pc \in [Tasks -> Pcs] /\ hurt \in [Tasks -> BOOLEAN] /\ cut \in [Tasks -> BOOLEAN]
      /\ told \subseteq Handlers
  BY DEF IInv, TypeOK, Pcs
<1>a. t \in Agents => pc[t] \notin {"drain", "gather"}
  BY DEF IInv, StageInv, Ours, StartSteps, Walking
<1>b. t \in Agents \/ t \in Stoppers
  BY Constants
<1> USE DEF configuration, commands, instances
<1>1. CASE Drained(t)
  BY <1>0, <1>1 DEF Drained, StopMoves, StopSteps, Walking
<1>2. CASE DrainTimesOut(t)
  BY <1>0, <1>2 DEF DrainTimesOut, StopMoves, StopSteps, Walking, Carrying
<1>3. CASE TakeDown(t)
  <2>1. pc[t] \in DOMAIN Takes /\ NextStep(pc[t], on[t]) \in Walking
    BY <1>3, WalkGoesOn DEF TakeDown
  <2>2. QED
    BY <1>0, <1>3, <2>1, Steps DEF TakeDown, StopMoves
<1>4. CASE CutWhileDraining(t)
  <2>1. t \in Stoppers
    BY <1>4, <1>a, <1>b DEF CutWhileDraining
  <2>2. QED
    BY <1>0, <1>4, <2>1, Constants DEF CutWhileDraining, StopMoves, StopSteps, Walking
<1>5. CASE CutWhileReceiving(t)
  <2>1. pc[t] = "receive" /\ pc[t] \in DOMAIN Takes /\ NextStep("receive", on[t]) \in Walking
    BY <1>5, TakesIs, WalkGoesOn DEF CutWhileReceiving
  <2>2. QED
    BY <1>0, <1>5, <2>1, Steps DEF CutWhileReceiving, StopMoves
<1>6. CASE CutOnTheWalk(t)
  <2>1. /\ hurt' \in [Tasks -> BOOLEAN]
        /\ \A u \in Tasks : /\ hurt[u] => hurt'[u]
                            /\ u # t \/ t \in Agents => hurt'[u] = hurt[u]
    <3>1. hurt' = [hurt EXCEPT ![t] = hurt[t] \/ t \in Stoppers]
      BY <1>6 DEF CutOnTheWalk
    <3>2. t \in Agents => t \notin Stoppers
      BY Constants
    <3>3. QED
      BY <1>0, <3>1, <3>2
  <2>2. pc[t] \in Walking /\ Goes(t, "stopped")
    BY <1>6 DEF CutOnTheWalk, Walking
  <2>3. QED
    BY <1>0, <1>6, <2>1, <2>2 DEF CutOnTheWalk, StopMoves, StopSteps, Walking
<1>7. QED
  BY <1>1, <1>2, <1>3, <1>4, <1>5, <1>6 DEF StopStep

(* What a step of a stop does to the others *)
LEMMA StopFrame ==
  ASSUME IInv, NEW t \in Tasks, StopMoves(t)
  PROVE  /\ TypeOK' /\ StageInv' /\ HurtInv' /\ ChangeInv' /\ ListInv' /\ LifeInv'
         /\ \A a \in Agents : a # t => StartOf(a)'
         /\ \A u \in Stoppers : u # t => StopOfBy(u)'
<1> USE DEF configuration, commands, instances
<1>0. /\ pc \in [Tasks -> Pcs] /\ hurt \in [Tasks -> BOOLEAN] /\ cut \in [Tasks -> BOOLEAN]
      /\ live \in [Instances -> SUBSET Parts] /\ on \in [Tasks -> Instances \cup {None}]
  BY DEF IInv, TypeOK, Pcs
<1>1. PICK s \in StopSteps : Goes(t, s) /\ (pc[t] \in Walking => s \in Walking)
  BY DEF StopMoves
<1>2. /\ pc' = [pc EXCEPT ![t] = s] /\ pc'[t] = s
      /\ \A u \in Tasks : u # t => pc'[u] = pc[u]
      /\ pc[t] \in StopSteps
  BY <1>0, <1>1 DEF Goes, StopMoves
<1>3. /\ live' \in [Instances -> SUBSET Parts]
      /\ \A i \in Instances : live'[i] \subseteq live[i] /\ (on[t] # i => live'[i] = live[i])
  <2>1. PICK S : live' = live \/ live' = [live EXCEPT ![on[t]] = @ \ S]
    BY DEF StopMoves
  <2>2. QED
    BY <1>0, <2>1
<1>4. /\ cut' \in [Tasks -> BOOLEAN] /\ \A u \in Tasks : cut'[u] => cut[u]
  BY <1>0 DEF StopMoves
<1>5. /\ hurt' \in [Tasks -> BOOLEAN]
      /\ \A u \in Tasks : /\ hurt[u] => hurt'[u]
                          /\ u # t \/ t \in Agents => hurt'[u] = hurt[u]
  BY DEF StopMoves
<1>6. UNCHANGED <<configuration, agents, starting, life, on, change, inFlight, wake, limit>>
      /\ told' \subseteq Handlers
  BY DEF StopMoves
<1>7. TypeOK'
  <2>1. pc' \in [Tasks -> Pcs]
    BY <1>0, <1>2, Steps
  <2>2. QED
    BY <1>3, <1>4, <1>5, <1>6, <2>1 DEF IInv, TypeOK, Pcs
<1>8. StageInv'
  <2>1. StageInv /\ Ctl \in Tasks /\ Main \in Tasks /\ Agents \subseteq Tasks
    BY Constants DEF IInv
  <2>2. \A a \in Agents : pc'[a] \in Ours \cup {"tell", "over"} /\ (pc'[a] # "over" => pc[a] # "over")
        /\ (pc[a] = "over" => pc'[a] = "over")
    <3>1. SUFFICES ASSUME NEW a \in Agents, a = t
                   PROVE s \in Walking /\ pc[a] # "over"
      BY <1>2, <2>1, <3>1 DEF StageInv, Ours
    <3>2. pc[a] \in Walking
      BY <1>2, <2>1, <3>1, Steps DEF StageInv, Ours
    <3>3. QED
      BY <1>1, <1>2, <3>1, <3>2, Steps
  <2>3. /\ pc'[Ctl] \in StopSteps \cup {"poll", "tell", "over"}
        /\ pc[Ctl] = "over" => pc'[Ctl] = "over"
        /\ pc[Ctl] = "over" => hurt'[Ctl] = hurt[Ctl]
    BY <1>2, <1>5, <2>1, Steps DEF StageInv
  <2>4. pc'[Main] = pc[Main] \/ (pc[Main] \in StopSteps /\ pc'[Main] \in StopSteps)
    <3>1. CASE t = Main
      BY <1>2, <3>1
    <3>2. CASE t # Main
      <4>1. \A u \in Tasks : u # t => pc'[u] = pc[u]
        BY <1>2
      <4>2. pc'[Main] = pc[Main]
        BY <3>2, <4>1, Constants
      <4>3. QED
        BY <4>2
    <3>3. QED
      BY <3>1, <3>2
  <2>5. CASE pc'[Main] = pc[Main]
    BY <1>6, <2>1, <2>2, <2>3, <2>5 DEF StageInv
  <2>6. CASE pc[Main] \in StopSteps /\ pc'[Main] \in StopSteps
    BY <1>6, <2>1, <2>2, <2>3, <2>6, Steps DEF StageInv
  <2>7. QED
    BY <2>4, <2>5, <2>6
<1>9. HurtInv'
  <2>1. HurtInv /\ Ctl \in Tasks /\ Main \in Tasks /\ Agents \subseteq Tasks
    BY Constants DEF IInv
  <2>2. pc'[Ctl] \in {"poll", "tell", "over"} => pc'[Ctl] = pc[Ctl] /\ hurt'[Ctl] = hurt[Ctl]
    BY <1>2, <1>5, <2>1, Steps
  <2>3. pc'[Main] = pc[Main] \/ (pc[Main] \in StopSteps /\ pc'[Main] \in StopSteps)
    <3>1. CASE t = Main
      BY <1>2, <3>1
    <3>2. CASE t # Main
      <4>1. \A u \in Tasks : u # t => pc'[u] = pc[u]
        BY <1>2
      <4>2. pc'[Main] = pc[Main]
        BY <3>2, <4>1, Constants
      <4>3. QED
        BY <4>2
    <3>3. QED
      BY <3>1, <3>2
  <2>4. \A a \in Agents : /\ cut'[a] => cut[a]
                          /\ hurt'[a] = hurt[a]
                          /\ pc[a] = "over" => pc'[a] = "over"
    <3>1. \A a \in Agents : a = t => hurt'[a] = hurt[a]
      BY <1>5, <2>1
    <3>2. QED
      BY <1>2, <1>4, <1>5, <2>1, <3>1, Steps
  <2>5. hurt'[Main] => hurt[Main] \/ t = Main
    BY <1>5, <2>1
  <2>6. t = Main => on[Main] \in Instances /\ agents[on[Main][1]] = on[Main][2]
    BY <1>2, Constants DEF IInv, StopInv, StopOfBy
  <2>7. hurt'[Main] => pc'[Main] \in StopSteps \cup {"cut off"}
                       /\ on[Main] \in Instances /\ agents[on[Main][1]] = on[Main][2]
    BY <1>2, <2>1, <2>3, <2>5, <2>6 DEF HurtInv
  <2>8. \A i \in Instances : pc[i[1]] = "over" => pc'[i[1]] = "over"
    BY <2>4, Pairs
  <2>9. pc'[Main] \in BeforeStarts => pc[Main] \in BeforeStarts
    BY <2>3, Steps
  <2>10. QED
    BY <1>6, <2>1, <2>2, <2>4, <2>7, <2>8, <2>9 DEF HurtInv
<1>10. ChangeInv'
  <2>1. ChangeInv /\ TypeOK /\ Ctl \in Tasks /\ Agents \subseteq Tasks
    BY Constants DEF IInv
  <2>2. pc'[Ctl] \in StopSteps <=> pc[Ctl] \in StopSteps
    BY <1>2, <2>1
  <2>3. change # None => change[2] \in Agents
    BY <2>1 DEF TypeOK
  <2>4. \A a \in Agents : pc[a] = "over" => pc'[a] = "over"
    BY <1>2, <2>1, Steps
  <2>5. CASE change = None
    BY <1>6, <2>1, <2>2, <2>5 DEF ChangeInv
  <2>6. CASE change # None
    BY <1>6, <2>1, <2>2, <2>3, <2>4, <2>6 DEF ChangeInv, Listed
  <2>7. QED
    BY <2>5, <2>6
<1>11. ListInv'
  <2>1. SUFFICES ASSUME NEW a \in Agents PROVE ListedRight(a)'
    BY DEF ListInv
  <2>2. ListedRight(a) /\ a \in Tasks /\ Main \in Tasks /\ pc[a] \in Ours \cup {"tell", "over"}
    BY Constants DEF IInv, ListInv, StageInv
  <2>3. pc[a] \in Coming => pc'[a] \in Coming
    BY <1>2, <2>2, Steps
  <2>4. pc[a] \in Walking => pc'[a] \in Walking
    BY <1>1, <1>2, <2>2
  <2>5. pc[Main] \in {"agents", "cut off"} \cup StopSteps =>
           pc'[Main] \in {"agents", "cut off"} \cup StopSteps
    BY <1>2, <2>2
  <2>6. QED
    BY <1>6, <2>2, <2>3, <2>4, <2>5 DEF ListedRight, Listed
<1>12. LifeInv'
  <2>1. SUFFICES ASSUME NEW i \in Instances PROVE LifeOf(i)'
    BY DEF LifeInv
  <2>2. LifeOf(i)
    BY DEF IInv, LifeInv
  <2>3. (\E u \in Tasks : StoppingOf(u, i)) => \E u \in Tasks : StoppingOf(u, i)'
    BY <1>2, <1>6 DEF StoppingOf
  <2>4. CutShort(i) => CutShort(i)'
    BY <1>5, <1>6, Constants DEF CutShort
  <2>5. QED
    BY <1>3, <1>6, <2>2, <2>3, <2>4 DEF LifeOf
<1>13. ASSUME NEW a \in Agents, a # t PROVE StartOf(a)'
  <2>1. StartOf(a) /\ a \in Tasks /\ pc'[a] = pc[a] /\ hurt'[a] = hurt[a]
    BY <1>2, <1>5, <1>13, Constants DEF IInv, StartInv
  <2>2. pc[a] \in Ours => on[a] \in Instances
    BY StartHas
  <2>3. pc[a] \in Ours => live'[on[a]] \subseteq live[on[a]]
    BY <1>3, <2>2
  <2>4. QED
    BY <1>6, <2>1, <2>3 DEF StartOf
<1>14. ASSUME NEW u \in Stoppers, u # t PROVE StopOfBy(u)'
  <2>1. StopOfBy(u) /\ u \in Tasks /\ pc'[u] = pc[u] /\ hurt'[u] = hurt[u]
    BY <1>2, <1>5, <1>14, Constants DEF IInv, StopInv
  <2>2. pc[u] \in StopSteps => live'[on[u]] \subseteq live[on[u]]
    BY <1>3, <2>1 DEF StopOfBy
  <2>3. QED
    BY <1>6, <2>1, <2>2 DEF StopOfBy, Carrying
<1>15. QED
  BY <1>7, <1>8, <1>9, <1>10, <1>11, <1>12, <1>13, <1>14

LEMMA AheadIs ==
  /\ Ahead("drain") = Parts /\ Ahead("gather") = Parts /\ Ahead("channel") = Parts
  /\ Ahead("stopped") = {}
  /\ \A s \in {"receive", "workers", "sessions", "runtimes"} : "session" \in Ahead(s)
  /\ Ahead("receive") \subseteq {"worker"} \cup Ahead("workers") \cup Takes["receive"]
BY TakesIs DEF Ahead, Parts

(* The one who stops an instance leaves less and less of it *)
LEMMA StopperStops ==
  ASSUME IInv, NEW t \in Stoppers, StopStep(t)
  PROVE  StopOfBy(t)'
<1> USE DEF configuration, commands, instances
<1>0. /\ pc \in [Tasks -> Pcs] /\ hurt \in [Tasks -> BOOLEAN] /\ t \in Tasks
      /\ live \in [Instances -> SUBSET Parts]
  BY Constants DEF IInv, TypeOK, Pcs
<1>1. StopMoves(t)
  BY <1>0, StopStepMoves
<1>2. StopOfBy(t) /\ pc[t] \in StopSteps
  BY <1>1 DEF IInv, StopInv, StopMoves
<1>3. UNCHANGED <<on, agents, life, inFlight>>
  BY <1>1 DEF StopMoves
<1>5. PICK i \in Instances : on[t] = i
  BY <1>2 DEF StopOfBy
<1>4. /\ agents[i[1]] = i[2] /\ life[i] = "terminated"
      /\ ~hurt[t] => live[i] \subseteq Ahead(pc[t]) \cup {"worker"}
      /\ ~hurt[t] /\ pc[t] \notin {"drain", "gather"} => Carrying(i) = {}
      /\ live[i] \subseteq Parts
  BY <1>0, <1>2, <1>5 DEF StopOfBy
<1>6. SUFFICES ASSUME ~hurt'[t]
               PROVE  /\ live'[i] \subseteq Ahead(pc'[t]) \cup {"worker"}
                      /\ pc'[t] \notin {"drain", "gather"} => Carrying(i)' = {}
  <2>1. on'[t] = i /\ agents'[i[1]] = i[2] /\ life'[i] = "terminated"
    BY <1>3, <1>4, <1>5
  <2>2. QED
    BY <1>6, <2>1 DEF StopOfBy, Carrying
<1>7. ~hurt[t] /\ Carrying(i)' = Carrying(i)
  <2>1. hurt[t] => hurt'[t]
    BY <1>0, <1>1 DEF StopMoves
  <2>2. Carrying(i)' = Carrying(i)
    BY <1>3 DEF Carrying
  <2>3. QED
    BY <1>6, <2>1, <2>2
<1>8. CASE Drained(t)
  <2>1. pc'[t] = "channel" /\ Carrying(i) = {} /\ live' = live
    BY <1>0, <1>5, <1>8 DEF Drained, Goes
  <2>2. QED
    BY <1>4, <1>7, <2>1, AheadIs
<1>9. CASE DrainTimesOut(t)
  <2>1. pc'[t] = "gather" /\ live' = live
    BY <1>0, <1>9 DEF DrainTimesOut, Goes
  <2>2. QED
    BY <1>4, <2>1, AheadIs
<1>10. CASE TakeDown(t)
  <2>1. /\ pc[t] \in DOMAIN Takes /\ pc'[t] = NextStep(pc[t], i)
        /\ live'[i] = live[i] \ Takes[pc[t]]
    BY <1>0, <1>4, <1>5, <1>10 DEF TakeDown, Goes
  <2>2. live[i] \subseteq Ahead(pc[t]) \cup {"worker"}
    BY <1>4, <1>7
  <2>3. live'[i] \subseteq Ahead(pc'[t]) \cup {"worker"}
    BY <2>1, <2>2, WalkGoesOn
  <2>4. pc[t] \notin {"drain", "gather"}
    BY <2>1, TakesIs
  <2>5. QED
    BY <1>4, <1>7, <2>3, <2>4
<1>11. CASE CutWhileDraining(t)
  BY <1>0, <1>6, <1>11 DEF CutWhileDraining
<1>12. CASE CutWhileReceiving(t)
  <2>1. /\ pc[t] = "receive" /\ pc[t] \in DOMAIN Takes /\ pc'[t] = NextStep(pc[t], i)
        /\ live'[i] = live[i] \ Takes[pc[t]]
    BY <1>0, <1>4, <1>5, <1>12, TakesIs DEF CutWhileReceiving, Goes
  <2>2. live[i] \subseteq Ahead(pc[t]) \cup {"worker"}
    BY <1>4, <1>7
  <2>3. live'[i] \subseteq Ahead(pc'[t]) \cup {"worker"}
    BY <2>1, <2>2, WalkGoesOn
  <2>4. QED
    BY <1>4, <1>7, <2>1, <2>3
<1>13. CASE CutOnTheWalk(t)
  <2>1. hurt'[t] = (hurt[t] \/ t \in Stoppers)
    BY <1>0, <1>13 DEF CutOnTheWalk
  <2>2. QED
    BY <1>6, <2>1
<1>14. QED
  BY <1>8, <1>9, <1>10, <1>11, <1>12, <1>13 DEF StopStep

(* A start that is given up takes away what it had brought up *)
LEMMA StartStops ==
  ASSUME IInv, NEW a \in Agents, StopStep(a)
  PROVE  StartOf(a)'
<1> USE DEF configuration, commands, instances
<1>0. /\ pc \in [Tasks -> Pcs] /\ hurt \in [Tasks -> BOOLEAN] /\ a \in Tasks
      /\ live \in [Instances -> SUBSET Parts]
  BY Constants DEF IInv, TypeOK, Pcs
<1>1. StopMoves(a)
  BY <1>0, StopStepMoves
<1>2. pc[a] \in Walking /\ pc[a] \in Ours
  BY <1>1, Steps DEF IInv, StageInv, StopMoves, Ours
<1>3. UNCHANGED <<cfg, written, on, agents, life, inFlight, wake>> /\ hurt'[a] = hurt[a]
  BY <1>0, <1>1 DEF StopMoves
<1> DEFINE i == on[a]
<1>4. /\ i \in Instances /\ i = <<a, cfg[a]>> /\ cfg[a] # 0 /\ cfg[a] <= written
      /\ agents[a] = cfg[a]
      /\ life[i] = "terminated" /\ (live[i] # {} => hurt[a]) /\ live[i] \subseteq {"runtime"}
      /\ wake # i /\ \A h \in Handlers : inFlight[h] # i
  <2>1. StartOf(a) /\ pc[a] # "load"
    BY <1>2, Steps DEF IInv, StartInv
  <2>2. QED
    BY <1>2, <2>1, StartHas DEF StartOf
<1>5. pc'[a] \in Walking
  <2>1. PICK s \in StopSteps : Goes(a, s) /\ (pc[a] \in Walking => s \in Walking)
    BY <1>1 DEF StopMoves
  <2>2. QED
    BY <1>0, <1>2, <2>1 DEF Goes
<1> HIDE DEF i
<1>a. on[a] = i
  BY DEF i
<1>6. SUFFICES live'[i] \subseteq live[i] /\ (pc'[a] = "stopped" => live'[i] = {})
  BY <1>3, <1>4, <1>5, <1>a, Steps DEF StartOf, Walking, Coming
<1>7. ~cut[a] => pc[a] \in DOMAIN Takes /\ pc'[a] = NextStep(pc[a], i)
                 /\ live'[i] = live[i] \ Takes[pc[a]]
  BY <1>0, <1>2, <1>4, <1>a DEF StopStep, Drained, DrainTimesOut, TakeDown, CutWhileDraining,
     CutWhileReceiving, CutOnTheWalk, Walking, Goes
<1>8. CASE ~cut[a]
  <2>1. live[i] \subseteq Ahead(pc[a]) \cup {}
    <3>1. "runtime" \in Ahead(pc[a])
      BY <1>2, <1>7, <1>8, TakesIs DEF Ahead, Parts
    <3>2. QED
      BY <1>4, <3>1
  <2>2. live'[i] \subseteq Ahead(pc'[a]) \cup {}
    BY <1>7, <1>8, <2>1, WalkGoesOn
  <2>3. QED
    BY <1>7, <1>8, <2>2, AheadIs
<1>9. CASE cut[a]
  <2>1. ~hurt[a]
    BY <1>9 DEF IInv, HurtInv
  <2>2. live[i] = {}
    BY <1>4, <2>1
  <2>3. live'[i] \subseteq live[i]
    <3>1. PICK S : live' = live \/ live' = [live EXCEPT ![on[a]] = @ \ S]
      BY <1>1 DEF StopMoves
    <3>2. QED
      BY <1>0, <1>4, <1>a, <3>1
  <2>4. QED
    BY <2>2, <2>3
<1>10. QED
  BY <1>8, <1>9

LEMMA StopStepKeeps ==
  ASSUME IInv, NEW t \in Tasks, StopStep(t)
  PROVE  IInv'
<1>1. StopMoves(t)
  BY StopStepMoves
<1>2. /\ TypeOK' /\ StageInv' /\ HurtInv' /\ ChangeInv' /\ ListInv' /\ LifeInv'
      /\ \A a \in Agents : a # t => StartOf(a)'
      /\ \A u \in Stoppers : u # t => StopOfBy(u)'
  BY <1>1, StopFrame
<1>3. t \in Agents => StartOf(t)'
  BY StartStops
<1>4. t \in Stoppers => StopOfBy(t)'
  BY StopperStops
<1>5. StartInv' /\ StopInv'
  BY <1>2, <1>3, <1>4 DEF StartInv, StopInv
<1>6. QED
  BY <1>2, <1>5 DEF IInv

-----------------------------------------------------------------------------
(* The node's own task *)

(* It goes to s, where what the place stands for is over *)
MainGoes(s) ==
  /\ Goes(Main, s)
  /\ pc[Main] # "agents" /\ pc[Main] # "boot" /\ s # "boot"
  /\ pc[Main] \in StopSteps => pc[Main] = "stopped" /\ s \in {"agents", "cut off"}
  /\ pc[Main] = "cut off" => s = "cut off"
  /\ hurt[Main] => s = "cut off"
  /\ s \in ControlOver => pc[Ctl] = "over"
  /\ s \in WakesOver => wake = None
  /\ s \in StartsOver => \A a \in Agents : pc[a] = "over"
  /\ s \in ListOver => \A a \in Agents : agents[a] = 0
  /\ s = "down" => \A h \in Handlers : inFlight[h] = None
  /\ cut' \in [Tasks -> BOOLEAN]
  /\ s \in BeforeStarts => pc[Main] \in BeforeStarts /\ \A a \in Agents : cut'[a] => cut[a]
  /\ \A a \in Agents : cut'[a] => cut[a] \/ ~hurt[a]
  /\ UNCHANGED <<configuration, agents, starting, instances, on, hurt, change,
                 commands, wake, limit>>

LEMMA MainKeeps ==
  ASSUME IInv, NEW s \in MainSteps, MainGoes(s)
  PROVE  IInv'
<1> USE DEF configuration, commands, instances
<1>0. pc \in [Tasks -> Pcs] /\ hurt \in [Tasks -> BOOLEAN] /\ s \notin StopSteps
  BY DEF IInv, TypeOK, Pcs, MainSteps, StopSteps
<1>1. /\ pc' = [pc EXCEPT ![Main] = s] /\ pc'[Main] = s
      /\ \A t \in Tasks : t # Main => pc'[t] = pc[t]
      /\ \A a \in Agents : pc'[a] = pc[a]
      /\ pc'[Ctl] = pc[Ctl]
  BY <1>0, Constants DEF MainGoes, Goes
<1>2. TypeOK'
  <2>1. pc' \in [Tasks -> Pcs]
    BY <1>0, <1>1 DEF Pcs
  <2>2. QED
    BY <2>1 DEF MainGoes, IInv, TypeOK, Pcs
<1>3. StageInv'
  BY <1>1 DEF MainGoes, IInv, StageInv
<1>4. HurtInv'
  <2>1. HurtInv /\ UNCHANGED <<hurt, on, agents>>
    BY DEF IInv, MainGoes
  <2>2. \A i \in Instances : pc'[i[1]] = pc[i[1]]
    BY <1>1, Pairs
  <2>3. hurt[Main] => s = "cut off" /\ on[Main] \in Instances /\ agents[on[Main][1]] = on[Main][2]
    BY <2>1 DEF HurtInv, MainGoes
  <2>4. \A a \in Agents : cut'[a] \/ hurt[a] => s \notin BeforeStarts
    BY <2>1 DEF HurtInv, MainGoes
  <2>5. \A a \in Agents : ~(cut'[a] /\ hurt[a])
    BY <2>1 DEF HurtInv, MainGoes
  <2>6. QED
    BY <1>1, <2>1, <2>2, <2>3, <2>4, <2>5 DEF HurtInv
<1>5. StartInv'
  <2>1. SUFFICES ASSUME NEW a \in Agents PROVE StartOf(a)'
    BY DEF StartInv
  <2>2. StartOf(a) /\ pc'[a] = pc[a]
    BY <1>1 DEF IInv, StartInv
  <2>3. UNCHANGED <<cfg, written, on, wake, inFlight, agents, life, live, hurt>>
    BY DEF MainGoes
  <2>4. QED
    BY <2>2, <2>3 DEF StartOf
<1>6. ChangeInv'
  <2>1. change # None => change[2] \in Agents
    BY DEF IInv, TypeOK
  <2>2. QED
    BY <1>1, <2>1 DEF MainGoes, IInv, ChangeInv, Listed
<1>7. StopInv'
  <2>1. StopOfBy(Ctl) /\ pc'[Ctl] = pc[Ctl] /\ pc'[Main] \notin StopSteps
    BY <1>0, <1>1, Constants DEF IInv, StopInv
  <2>2. UNCHANGED <<on, inFlight, agents, life, live, hurt>>
    BY DEF MainGoes
  <2>3. StopOfBy(Ctl)' /\ StopOfBy(Main)'
    BY <2>1, <2>2 DEF StopOfBy, Carrying
  <2>4. QED
    BY <2>3, Constants DEF StopInv
<1>8. ListInv'
  <2>1. pc[Main] \in {"agents", "cut off"} \cup StopSteps => s \in {"agents", "cut off"}
    BY DEF MainGoes
  <2>2. QED
    BY <1>1, <2>1 DEF MainGoes, IInv, ListInv, ListedRight, Listed
<1>9. LifeInv'
  <2>1. SUFFICES ASSUME NEW i \in Instances PROVE LifeOf(i)'
    BY DEF LifeInv
  <2>2. LifeOf(i)
    BY DEF IInv, LifeInv
  <2>3. CutShort(i)' <=> CutShort(i)
    BY DEF CutShort, MainGoes
  <2>4. \A t \in Tasks : t # Main => (StoppingOf(t, i)' <=> StoppingOf(t, i))
    BY <1>1 DEF StoppingOf, MainGoes
  <2>5. StoppingOf(Main, i) => live[i] \subseteq {"worker"} \/ CutShort(i)
    <3>1. SUFFICES ASSUME on[Main] = i, pc[Main] = "stopped", ~hurt[Main]
                   PROVE live[i] \subseteq {"worker"}
      BY Constants DEF StoppingOf, MainGoes, CutShort
    <3>2. StopOfBy(Main) /\ "stopped" \in StopSteps
      BY Constants DEF IInv, StopInv, StopSteps
    <3>3. QED
      BY <3>1, <3>2, AheadIs DEF StopOfBy
  <2>6. QED
    BY <2>2, <2>3, <2>4, <2>5 DEF LifeOf, MainGoes
<1>10. QED
  BY <1>2, <1>3, <1>4, <1>5, <1>6, <1>7, <1>8, <1>9 DEF IInv

LEMMA ReadyKeeps ==
  ASSUME IInv, NodeReady
  PROVE  IInv'
<1> USE DEF configuration, commands, instances
<1>0. pc \in [Tasks -> Pcs] /\ hurt \in [Tasks -> BOOLEAN] /\ cut \in [Tasks -> BOOLEAN]
  BY DEF IInv, TypeOK, Pcs
<1>1. /\ pc[Main] = "boot" /\ pc'[Main] = "up" /\ pc'[Ctl] = "poll"
      /\ \A a \in Agents : pc[a] = "over" /\ pc'[a] = "over"
      /\ pc' \in [Tasks -> Pcs]
      /\ \A t \in Tasks : pc'[t] \notin StopSteps
  BY <1>0, Constants DEF NodeReady, Pcs, MainSteps, StopSteps
<1>2. UNCHANGED <<configuration, agents, starting, instances, on, cut, hurt, change,
                  commands, wake, limit>>
  BY DEF NodeReady
<1>3. TypeOK'
  BY <1>1, <1>2 DEF IInv, TypeOK, Pcs
<1>4. StageInv'
  <2>1. \A a \in starting' : cfg'[a] # 0
    BY <1>2 DEF IInv, StageInv
  <2>2. QED
    BY <1>1, <2>1, Constants
       DEF StageInv, MainSteps, ControlOver, WakesOver, StartsOver, ListOver, StopSteps
<1>5. pc[Ctl] = "over" /\ ~hurt[Ctl] /\ \A t \in Tasks : pc[t] \notin StopSteps
  <2>1. pc[Ctl] = "over" /\ ~hurt[Ctl]
    BY <1>1 DEF IInv, StageInv
  <2>2. QED
    BY <1>1, <2>1, Constants DEF StopSteps
<1>6. HurtInv'
  <2>1. HurtInv
    BY DEF IInv
  <2>2. ~hurt[Main] /\ \A a \in Agents : ~hurt[a] /\ ~cut[a]
    BY <1>1, <2>1 DEF HurtInv, StopSteps, BeforeStarts
  <2>3. QED
    BY <1>1, <1>2, <1>5, <2>2 DEF HurtInv
<1>7. StartInv'
  BY <1>1 DEF StartInv, StartOf, Ours, StartSteps, Walking
<1>8. ChangeInv'
  <2>1. change = None
    BY <1>5, Constants DEF IInv, ChangeInv
  <2>2. QED
    BY <1>1, <1>2, <2>1, Constants DEF ChangeInv
<1>9. StopInv'
  BY <1>1, Constants DEF StopInv, StopOfBy
<1>10. ListInv'
  BY <1>1, <1>2, <1>5, Constants DEF IInv, ListInv, ListedRight, Listed, Walking, Coming
<1>11. LifeInv'
  <2>1. SUFFICES ASSUME NEW i \in Instances PROVE LifeOf(i)'
    BY DEF LifeInv
  <2>2. LifeOf(i) /\ \A t \in Tasks : ~StoppingOf(t, i)
    BY <1>5 DEF IInv, LifeInv, StoppingOf
  <2>3. CutShort(i)' <=> CutShort(i)
    BY <1>2 DEF CutShort
  <2>4. QED
    BY <1>2, <2>2, <2>3 DEF LifeOf
<1>12. QED
  BY <1>3, <1>4, <1>6, <1>7, <1>8, <1>9, <1>10, <1>11 DEF IInv

(* The node has stopped every agent on its list *)
LEMMA AgentsStoppedKeeps ==
  ASSUME IInv, AgentsStopped
  PROVE  IInv'
<1> USE DEF configuration, commands, instances
<1>0. pc \in [Tasks -> Pcs] /\ hurt \in [Tasks -> BOOLEAN] /\ cut \in [Tasks -> BOOLEAN]
  BY DEF IInv, TypeOK, Pcs
<1>1. /\ pc[Main] = "agents" /\ pc'[Main] = "server"
      /\ \A t \in Tasks : t # Main => pc'[t] = pc[t]
      /\ pc' \in [Tasks -> Pcs]
      /\ \A a \in Agents : agents'[a] = 0
      /\ ToStop = {}
  BY <1>0, Constants DEF AgentsStopped, Goes, Pcs, MainSteps
<1>2. UNCHANGED <<configuration, starting, instances, on, cut, hurt, change,
                  commands, wake, limit>>
  BY DEF AgentsStopped
<1>3. pc[Ctl] = "over" /\ wake = None /\ \A a \in Agents : pc[a] = "over"
  BY <1>1 DEF IInv, StageInv, ControlOver, WakesOver, StartsOver
<1>4. pc'[Ctl] = "over" /\ \A a \in Agents : pc'[a] = "over"
  BY <1>1, <1>3, Constants
<1>5. \A t \in Tasks : pc[t] \notin StopSteps /\ pc'[t] \notin StopSteps
  BY <1>1, <1>3, <1>4, Constants DEF StopSteps
<1>6. TypeOK'
  <2>1. agents' \in [Agents -> 0 .. MaxWritten]
    BY Constants DEF AgentsStopped
  <2>2. QED
    BY <1>1, <1>2, <2>1 DEF IInv, TypeOK, Pcs
<1>7. StageInv'
  <2>1. \A a \in starting' : cfg'[a] # 0
    BY <1>2 DEF IInv, StageInv
  <2>2. QED
    BY <1>1, <1>2, <1>3, <1>4, <2>1, Constants
       DEF StageInv, MainSteps, ControlOver, WakesOver, StartsOver, ListOver, StopSteps
<1>8. HurtInv'
  <2>1. HurtInv
    BY DEF IInv
  <2>2. ~hurt[Main]
    BY <1>1, <2>1 DEF HurtInv, StopSteps
  <2>3. hurt[Ctl] => on[Ctl] \in Instances /\ on[Ctl][1] \in Agents
    BY <1>3, <2>1, Pairs DEF HurtInv
  <2>4. QED
    BY <1>1, <1>2, <1>4, <2>1, <2>2, <2>3 DEF HurtInv, BeforeStarts
<1>9. StartInv'
  BY <1>4 DEF StartInv, StartOf, Ours, StartSteps, Walking
<1>10. ChangeInv'
  <2>1. change = None
    BY <1>5, Constants DEF IInv, ChangeInv
  <2>2. QED
    BY <1>2, <1>5, <2>1, Constants DEF ChangeInv
<1>11. StopInv'
  BY <1>5, Constants DEF StopInv, StopOfBy
<1>12. ListInv'
  BY <1>1 DEF ListInv, ListedRight
<1>13. LifeInv'
  <2>1. SUFFICES ASSUME NEW i \in Instances PROVE LifeOf(i)'
    BY DEF LifeInv
  <2>2. LifeOf(i) /\ \A t \in Tasks : ~StoppingOf(t, i)
    BY <1>5 DEF IInv, LifeInv, StoppingOf
  <2>3. CutShort(i)' <=> CutShort(i)
    BY <1>2 DEF CutShort
  <2>4. life[i] \notin {"init", "idle"}
    <3>1. SUFFICES ASSUME life[i] \in {"init", "idle"} PROVE FALSE
      OBVIOUS
    <3>2. agents[i[1]] = i[2] /\ i[1] \in Agents /\ i[2] # 0 /\ i = <<i[1], i[2]>>
      BY <2>2, <3>1, Pairs, Constants DEF LifeOf
    <3>3. i[1] \in ToStop
      BY <3>1, <3>2 DEF ToStop, Listed
    <3>4. QED
      BY <1>1, <3>3
  <2>5. QED
    BY <1>2, <2>2, <2>3, <2>4 DEF LifeOf
<1>14. QED
  BY <1>6, <1>7, <1>8, <1>9, <1>10, <1>11, <1>12, <1>13 DEF IInv

LEMMA NodeGoes ==
  ASSUME IInv,
         \/ ControlStopped \/ RemindersStopped \/ StartsStopped \/ NextAgentStopped
         \/ NodeDown \/ NodeCutOff \/ StopNode
  PROVE  IInv'
<1> USE DEF configuration, commands, instances
<1>1. /\ cut \in [Tasks -> BOOLEAN] /\ StageInv
      /\ hurt[Main] => pc[Main] \in StopSteps \cup {"cut off"}
      /\ pc[Main] \in BeforeStarts => \A a \in Agents : ~hurt[a]
  BY DEF IInv, TypeOK, HurtInv
<1> USE DEF ControlOver, WakesOver, StartsOver, ListOver, BeforeStarts
<1>2. CASE ControlStopped
  <2>1. MainGoes("reminders")
    BY <1>1, <1>2 DEF ControlStopped, MainGoes, StopSteps
  <2>2. QED
    BY <2>1, MainKeeps DEF MainSteps
<1>3. CASE RemindersStopped
  <2>1. cut' \in [Tasks -> BOOLEAN] /\ Goes(Main, "starts")
    BY <1>1, <1>3 DEF RemindersStopped
  <2>2. MainGoes("starts")
    BY <1>1, <1>3, <2>1 DEF RemindersStopped, MainGoes, StopSteps, StageInv
  <2>3. QED
    BY <2>2, MainKeeps DEF MainSteps
<1>4. CASE StartsStopped
  <2>1. MainGoes("agents")
    BY <1>1, <1>4 DEF StartsStopped, MainGoes, StopSteps, StageInv
  <2>2. QED
    BY <2>1, MainKeeps DEF MainSteps
<1>5. CASE NextAgentStopped
  <2>1. hurt[Main] => MainGoes("cut off")
    BY <1>1, <1>5 DEF NextAgentStopped, MainGoes, StopSteps, StageInv
  <2>2. ~hurt[Main] => MainGoes("agents")
    BY <1>1, <1>5 DEF NextAgentStopped, MainGoes, StopSteps, StageInv
  <2>3. QED
    BY <2>1, <2>2, MainKeeps DEF MainSteps
<1>6. CASE NodeDown
  <2>1. MainGoes("down")
    BY <1>1, <1>6 DEF NodeDown, MainGoes, StopSteps, StageInv
  <2>2. QED
    BY <2>1, MainKeeps DEF MainSteps
<1>7. CASE NodeCutOff
  <2>1. MainGoes("cut off")
    BY <1>1, <1>7 DEF NodeCutOff, MainGoes, StopSteps, StageInv
  <2>2. QED
    BY <2>1, MainKeeps DEF MainSteps
<1>8. CASE StopNode
  <2>1. cut' \in [Tasks -> BOOLEAN] /\ \A a \in Agents : cut'[a] = cut[a]
    BY <1>1, <1>8, Constants DEF StopNode
  <2>2. MainGoes("control")
    BY <1>1, <1>8, <2>1 DEF StopNode, MainGoes, StopSteps, StageInv
  <2>3. QED
    BY <2>2, MainKeeps DEF MainSteps
<1>9. QED
  BY <1>2, <1>3, <1>4, <1>5, <1>6, <1>7, <1>8

(* Nothing but a cancellation of the node's task changes *)
LEMMA OnlyMainIsCut ==
  ASSUME IInv,
         UNCHANGED <<cfg, written, gone, agents, starting, life, live, pc, on, hurt, change,
                     inFlight, told, wake>>,
         cut' \in [Tasks -> BOOLEAN], \A a \in Agents : cut'[a] = cut[a], limit' \in BOOLEAN
  PROVE  IInv'
<1>1. TypeOK'
  BY DEF IInv, TypeOK
<1>2. StageInv' /\ HurtInv'
  BY DEF IInv, StageInv, HurtInv
<1>3. StartInv'
  BY DEF IInv, StartInv, StartOf
<1>4. ChangeInv' /\ ListInv'
  BY DEF IInv, ChangeInv, ListInv, ListedRight, Listed
<1>5. StopInv'
  BY DEF IInv, StopInv, StopOfBy, Carrying
<1>6. LifeInv'
  BY DEF IInv, LifeInv, LifeOf, StoppingOf, CutShort
<1>7. QED
  BY <1>1, <1>2, <1>3, <1>4, <1>5, <1>6 DEF IInv

LEMMA LimitKeeps ==
  ASSUME IInv, LimitPasses \/ UNCHANGED vars
  PROVE  IInv'
<1>1. cut \in [Tasks -> BOOLEAN] /\ limit \in BOOLEAN
  BY DEF IInv, TypeOK
<1>2. CASE LimitPasses
  <2>1. cut' \in [Tasks -> BOOLEAN] /\ (\A a \in Agents : cut'[a] = cut[a]) /\ limit' \in BOOLEAN
    BY <1>1, <1>2, Constants DEF LimitPasses
  <2>2. QED
    BY <1>2, <2>1, OnlyMainIsCut DEF LimitPasses, configuration, instances, commands
<1>3. CASE UNCHANGED vars
  BY <1>1, <1>3, OnlyMainIsCut DEF vars
<1>4. QED
  BY <1>2, <1>3

(* An instance on the list *)
LEMMA ListedIs ==
  ASSUME IInv, NEW a \in Agents, agents[a] # 0
  PROVE  /\ Listed(a) \in Instances /\ Listed(a)[1] = a /\ Listed(a)[2] = agents[a]
         /\ Listed(a) = <<a, agents[a]>> /\ agents[a] \in Versions
<1>1. agents[a] \in Versions
  BY Constants DEF IInv, TypeOK
<1>2. QED
  BY <1>1, Pairs DEF Listed

LEMMA StopNextKeeps ==
  ASSUME IInv, NEW a \in Agents, StopNextAgent(a)
  PROVE  IInv'
<1> USE DEF configuration, commands, instances
<1>0. /\ pc \in [Tasks -> Pcs] /\ hurt \in [Tasks -> BOOLEAN] /\ on \in [Tasks -> Instances \cup {None}]
      /\ life \in [Instances -> {"none", "init", "idle", "terminated"}]
      /\ live \in [Instances -> SUBSET Parts]
  BY DEF IInv, TypeOK, Pcs
<1>1. PICK i \in Instances : /\ i = Listed(a) /\ i[1] = a /\ i[2] = agents[a] /\ agents[a] # 0
                             /\ life[i] # "terminated"
  BY ListedIs DEF StopNextAgent, ToStop
<1>2. PICK s \in {"channel", "drain"} :
        /\ pc' = [pc EXCEPT ![Main] = s]
        /\ s = "channel" => Carrying(i) = {}
  BY <1>1 DEF StopNextAgent, StopOf, Goes
<1>3. /\ pc[Main] = "agents" /\ pc'[Main] = s
      /\ \A t \in Tasks : t # Main => pc'[t] = pc[t] /\ on'[t] = on[t]
      /\ on'[Main] = i /\ life'[i] = "terminated"
      /\ \A j \in Instances : j # i => life'[j] = life[j]
      /\ on' \in [Tasks -> Instances \cup {None}]
      /\ life' \in [Instances -> {"none", "init", "idle", "terminated"}]
      /\ s \in StopSteps
  BY <1>0, <1>1, <1>2, Constants DEF StopNextAgent, StopOf, Terminate, StopSteps
<1>4. UNCHANGED <<configuration, agents, starting, live, cut, hurt, change, commands, wake, limit>>
  BY DEF StopNextAgent
<1>5. /\ pc[Ctl] = "over" /\ wake = None
      /\ \A b \in Agents : pc[b] = "over" /\ pc'[b] = "over" /\ on'[b] = on[b]
      /\ pc'[Ctl] = "over" /\ on'[Ctl] = on[Ctl] /\ ~hurt[Main]
  <2>1. pc[Ctl] = "over" /\ wake = None /\ \A b \in Agents : pc[b] = "over"
    BY <1>3 DEF IInv, StageInv, ControlOver, WakesOver, StartsOver
  <2>2. ~hurt[Main]
    BY <1>3 DEF IInv, HurtInv, StopSteps
  <2>3. QED
    BY <1>3, <2>1, <2>2, Constants
<1>6. TypeOK'
  <2>1. pc' \in [Tasks -> Pcs]
    BY <1>0, <1>2, <1>3, Steps
  <2>2. QED
    BY <1>3, <1>4, <2>1 DEF IInv, TypeOK, Pcs
<1>7. StageInv'
  BY <1>3, <1>4, <1>5, Steps DEF IInv, StageInv
<1>8. HurtInv'
  <2>1. HurtInv
    BY DEF IInv
  <2>2. hurt[Ctl] => on[Ctl][1] \in Agents
    BY <1>5, <2>1, Pairs DEF HurtInv
  <2>3. pc'[Main] \notin BeforeStarts
    BY <1>3, Steps
  <2>4. QED
    BY <1>4, <1>5, <2>1, <2>2, <2>3 DEF HurtInv
<1>9. StartInv'
  BY <1>5 DEF StartInv, StartOf, Ours, StartSteps, Walking
<1>10. ChangeInv'
  <2>1. change = None
    BY <1>5 DEF IInv, ChangeInv, StopSteps
  <2>2. QED
    BY <1>4, <1>5, <2>1 DEF ChangeInv, StopSteps
<1>11. StopInv'
  <2>1. StopOfBy(Ctl)'
    BY <1>5 DEF StopOfBy, StopSteps
  <2>2. StopOfBy(Main)'
    <3>1. live'[i] \subseteq Ahead(s)
      BY <1>0, <1>2, <1>4, AheadIs
    <3>2. Carrying(i)' = Carrying(i)
      BY <1>4 DEF Carrying
    <3>3. on'[Main] = i /\ agents'[i[1]] = i[2] /\ life'[i] = "terminated" /\ pc'[Main] = s
      BY <1>1, <1>3, <1>4
    <3>4. s \notin {"drain", "gather"} => {h \in Handlers : inFlight'[h] = i} = {}
      BY <1>2, <1>4 DEF Carrying
    <3>5. QED
      BY <3>1, <3>3, <3>4 DEF StopOfBy, Carrying
  <2>3. QED
    BY <2>1, <2>2, Constants DEF StopInv
<1>12. ListInv'
  <2>1. SUFFICES ASSUME NEW b \in Agents, agents[b] # 0 PROVE ListedRight(b)'
    BY <1>4 DEF ListInv, ListedRight
  <2>2. ListedRight(b) /\ Listed(b) \in Instances /\ Listed(b)' = Listed(b)
    BY <1>4, <2>1, ListedIs DEF IInv, ListInv, Listed
  <2>3. life'[Listed(b)] = life[Listed(b)] \/ life'[Listed(b)] = "terminated"
    BY <1>3, <2>2
  <2>4. agents'[b] = agents[b] /\ cfg'[b] = cfg[b] /\ change' = change /\ pc'[b] = pc[b]
        /\ pc'[Main] \in StopSteps
    BY <1>3, <1>4, <1>5
  <2>5. /\ agents[b] = cfg[b] \/ (change # None /\ change[2] = b)
        /\ life[Listed(b)] # "none"
        /\ life[Listed(b)] = "init" => pc[b] \in Coming
    BY <2>1, <2>2 DEF ListedRight
  <2>6. /\ life'[Listed(b)] # "none"
        /\ life'[Listed(b)] = "init" => pc'[b] \in Coming
    BY <2>3, <2>4, <2>5
  <2>7. QED
    BY <2>2, <2>4, <2>5, <2>6 DEF ListedRight
<1>13. LifeInv'
  <2>1. SUFFICES ASSUME NEW j \in Instances PROVE LifeOf(j)'
    BY DEF LifeInv
  <2>2. LifeOf(j)
    BY DEF IInv, LifeInv
  <2>3. CASE j = i
    <3>1. StoppingOf(Main, j)'
      BY <1>3, <2>3 DEF StoppingOf
    <3>2. life[i] # "none"
      BY <1>1 DEF IInv, ListInv, ListedRight
    <3>3. ~(j[2] > written')
      BY <1>4, <2>2, <2>3, <3>2 DEF LifeOf
    <3>4. QED
      BY <1>3, <2>3, <3>1, <3>3, Constants DEF LifeOf
  <2>4. CASE j # i
    <3>1. ~StoppingOf(Main, j) /\ \A t \in Tasks : t # Main => (StoppingOf(t, j)' <=> StoppingOf(t, j))
      BY <1>3 DEF StoppingOf, StopSteps
    <3>2. CutShort(j) => CutShort(j)'
      BY <1>4, <1>5, Constants DEF CutShort
    <3>3. life'[j] = life[j]
      BY <1>3, <2>4
    <3>4. QED
      BY <1>4, <2>2, <3>1, <3>2, <3>3 DEF LifeOf
  <2>5. QED
    BY <2>3, <2>4
<1>14. QED
  BY <1>6, <1>7, <1>8, <1>9, <1>10, <1>11, <1>12, <1>13 DEF IInv

-----------------------------------------------------------------------------
(* What goes on meanwhile: commands, reminders, messages *)

(* Nobody is starting or stopping an instance that is up *)
LEMMA IdleIsFree ==
  ASSUME IInv, NEW i \in Instances, life[i] = "idle"
  PROVE  /\ \A a \in Agents : pc[a] \in Ours => on[a] # i
         /\ \A t \in Stoppers : pc[t] \in StopSteps => on[t] # i
<1>1. ASSUME NEW a \in Agents, pc[a] \in Ours PROVE life[on[a]] # "idle"
  <2>1. StartOf(a)
    BY DEF IInv, StartInv
  <2>2. pc[a] = "load" \/ pc[a] \in Coming \/ pc[a] \in Walking
    BY <1>1, Steps DEF Ours
  <2>3. QED
    BY <1>1, <2>1, <2>2 DEF StartOf
<1>2. ASSUME NEW t \in Stoppers, pc[t] \in StopSteps PROVE life[on[t]] # "idle"
  BY <1>2 DEF IInv, StopInv, StopOfBy
<1>3. QED
  BY <1>1, <1>2

TrafficMoves ==
  /\ UNCHANGED <<configuration, agents, starting, life, tasks, change, limit>>
  /\ inFlight' \in [Handlers -> Instances \cup {None}]
  /\ told' \subseteq Handlers
  /\ wake' \in Instances \cup {None}
  /\ live' \in [Instances -> SUBSET Parts]
  /\ \A h \in Handlers, i \in Instances : inFlight'[h] = i => inFlight[h] = i \/ life[i] = "idle"
  /\ pc[Main] = "down" => inFlight' = inFlight
  /\ \A i \in Instances : wake' = i => wake = i \/ (life[i] = "idle" /\ pc[Main] \notin WakesOver)
  /\ \A i \in Instances :
       \/ live'[i] = live[i]
       \/ live'[i] = live[i] \cup {"worker"} /\ (wake = i \/ life[i] = "idle")
       \/ live'[i] = live[i] \cup {"session"} /\ {"worker", "runtime"} \subseteq live[i]

LEMMA TrafficKeeps ==
  ASSUME IInv, TrafficMoves
  PROVE  IInv'
<1> USE DEF configuration, tasks
<1>1. UNCHANGED <<cfg, written, gone, agents, starting, life, pc, on, cut, hurt, change, limit>>
  BY DEF TrafficMoves
<1>2. TypeOK'
  BY <1>1 DEF TrafficMoves, IInv, TypeOK
<1>3. StageInv'
  <2>1. StageInv
    BY DEF IInv
  <2>2. pc[Main] \in WakesOver => wake' = None
    BY <2>1, Pairs DEF TrafficMoves, StageInv
  <2>3. pc[Main] = "down" => inFlight' = inFlight
    BY DEF TrafficMoves
  <2>4. QED
    BY <1>1, <2>1, <2>2, <2>3 DEF StageInv
<1>4. HurtInv'
  BY <1>1 DEF IInv, HurtInv
<1>5. StartInv'
  <2>1. SUFFICES ASSUME NEW a \in Agents, pc[a] \in Ours PROVE StartOf(a)'
    BY <1>1 DEF StartInv, StartOf
  <2>2. PICK i \in Instances : on[a] = i
    BY <2>1, StartHas
  <2>3. StartOf(a)
    BY DEF IInv, StartInv
  <2>4. /\ life[i] # "idle" /\ wake # i /\ \A h \in Handlers : inFlight[h] # i
        /\ live[i] \subseteq {"runtime"}
    <3>1. life[i] # "idle"
      BY <2>1, <2>2, IdleIsFree
    <3>2. life[i] = "none" => live[i] = {}
      BY DEF IInv, LifeInv, LifeOf
    <3>3. QED
      BY <2>1, <2>2, <2>3, <3>1, <3>2 DEF StartOf
  <2>5. wake' # i /\ (\A h \in Handlers : inFlight'[h] # i) /\ live'[i] = live[i]
    BY <2>4 DEF TrafficMoves
  <2>6. QED
    BY <1>1, <2>1, <2>2, <2>3, <2>5 DEF StartOf
<1>6. ChangeInv' /\ ListInv'
  BY <1>1 DEF IInv, ChangeInv, ListInv, ListedRight, Listed
<1>7. StopInv'
  <2>1. SUFFICES ASSUME NEW t \in Stoppers, pc[t] \in StopSteps PROVE StopOfBy(t)'
    BY <1>1 DEF StopInv, StopOfBy
  <2>2. StopOfBy(t)
    BY DEF IInv, StopInv
  <2>3. PICK i \in Instances : on[t] = i
    BY <2>1, <2>2 DEF StopOfBy
  <2>4. life[i] # "idle"
    BY <2>1, <2>3, IdleIsFree
  <2>5. \A h \in Handlers : inFlight'[h] = i => inFlight[h] = i
    BY <2>4 DEF TrafficMoves
  <2>6. "runtime" \in Ahead(pc[t]) => "session" \in Ahead(pc[t])
    BY DEF Ahead, Parts
  <2>7. live[i] \subseteq Ahead(pc[t]) \cup {"worker"} => live'[i] \subseteq Ahead(pc[t]) \cup {"worker"}
    BY <2>6 DEF TrafficMoves
  <2>8. Carrying(i) = {} => {h \in Handlers : inFlight'[h] = i} = {}
    BY <2>5 DEF Carrying
  <2>9. QED
    BY <1>1, <2>1, <2>2, <2>3, <2>7, <2>8 DEF StopOfBy, Carrying
<1>8. LifeInv'
  <2>1. SUFFICES ASSUME NEW i \in Instances PROVE LifeOf(i)'
    BY DEF LifeInv
  <2>2. LifeOf(i)
    BY DEF IInv, LifeInv
  <2>3. /\ (\E t \in Tasks : StoppingOf(t, i)) => \E t \in Tasks : StoppingOf(t, i)'
        /\ CutShort(i) => CutShort(i)'
    BY <1>1 DEF StoppingOf, CutShort
  <2>4. life[i] \in {"none", "init"} => wake' # i /\ \A h \in Handlers : inFlight'[h] # i
    BY <2>2 DEF TrafficMoves, LifeOf
  <2>5. life[i] = "none" => live'[i] = {}
    BY <2>2 DEF TrafficMoves, LifeOf
  <2>6. live[i] \subseteq {"worker"} => live'[i] \subseteq {"worker"}
    BY DEF TrafficMoves
  <2>7. QED
    BY <1>1, <2>2, <2>3, <2>4, <2>5, <2>6 DEF LifeOf
<1>9. QED
  BY <1>2, <1>3, <1>4, <1>5, <1>6, <1>7, <1>8 DEF IInv

LEMMA TrafficIs ==
  ASSUME IInv, Traffic
  PROVE  TrafficMoves
<1> USE DEF configuration, instances, commands
<1>1. /\ inFlight \in [Handlers -> Instances \cup {None}] /\ told \subseteq Handlers
      /\ wake \in Instances \cup {None} /\ live \in [Instances -> SUBSET Parts]
  BY DEF IInv, TypeOK
<1>2. ASSUME NEW h \in Handlers, NEW a \in Agents, Dispatch(h, a) PROVE TrafficMoves
  <2>1. Listed(a) \in Instances /\ life[Listed(a)] = "idle" /\ pc[Main] = "up"
    BY <1>2, ListedIs DEF Dispatch, Up, Accepting
  <2>2. inFlight' = [inFlight EXCEPT ![h] = Listed(a)]
    BY <1>2 DEF Dispatch
  <2>3. /\ inFlight' \in [Handlers -> Instances \cup {None}]
        /\ \A g \in Handlers, i \in Instances : inFlight'[g] = i => inFlight[g] = i \/ life[i] = "idle"
    BY <1>1, <2>1, <2>2
  <2>4. QED
    BY <1>1, <1>2, <2>1, <2>3 DEF Dispatch, TrafficMoves
<1>3. ASSUME NEW h \in Handlers, CommandEnds(h) PROVE TrafficMoves
  <2>1. inFlight' = [inFlight EXCEPT ![h] = None] /\ pc[Main] # "down"
    BY <1>3 DEF CommandEnds, Running
  <2>2. /\ inFlight' \in [Handlers -> Instances \cup {None}]
        /\ \A g \in Handlers, i \in Instances : inFlight'[g] = i => inFlight[g] = i
    BY <1>1, <2>1, Pairs
  <2>3. QED
    BY <1>1, <1>3, <2>1, <2>2 DEF CommandEnds, TrafficMoves
<1>4. ASSUME NEW a \in Agents, Wake(a) PROVE TrafficMoves
  <2>1. Listed(a) \in Instances /\ life[Listed(a)] = "idle" /\ pc[Main] \notin WakesOver
    BY <1>4, ListedIs DEF Wake, Up, WakesOver, ControlOver, StopSteps
  <2>2. QED
    BY <1>1, <1>4, <2>1 DEF Wake, TrafficMoves
<1>5. ASSUME WakeLands PROVE TrafficMoves
  <2>1. PICK i \in Instances : wake = i
    BY <1>1, <1>5 DEF WakeLands
  <2>2. live' = [live EXCEPT ![i] = live[i] \cup {"worker"}]
    BY <1>5, <2>1 DEF WakeLands
  <2>3. live' \in [Instances -> SUBSET Parts]
    BY <1>1, <2>2 DEF Parts
  <2>4. \A j \in Instances : \/ live'[j] = live[j]
                             \/ live'[j] = live[j] \cup {"worker"} /\ wake = j
    BY <1>1, <2>1, <2>2
  <2>5. QED
    BY <1>1, <1>5, <2>3, <2>4, Pairs DEF WakeLands, TrafficMoves
<1>6. ASSUME NEW i \in Instances, Receive(i) PROVE TrafficMoves
  <2>1. live' = [live EXCEPT ![i] = live[i] \cup {"worker"}] /\ life[i] = "idle"
    BY <1>6 DEF Receive
  <2>2. live' \in [Instances -> SUBSET Parts]
    BY <1>1, <2>1 DEF Parts
  <2>3. \A j \in Instances : \/ live'[j] = live[j]
                             \/ live'[j] = live[j] \cup {"worker"} /\ life[j] = "idle"
    BY <1>1, <2>1
  <2>4. QED
    BY <1>1, <1>6, <2>2, <2>3 DEF Receive, TrafficMoves
<1>7. ASSUME NEW i \in Instances, Converse(i) PROVE TrafficMoves
  <2>1. live' = [live EXCEPT ![i] = live[i] \cup {"session"}] /\ {"worker", "runtime"} \subseteq live[i]
    BY <1>7 DEF Converse
  <2>2. live' \in [Instances -> SUBSET Parts]
    BY <1>1, <2>1 DEF Parts
  <2>3. \A j \in Instances : \/ live'[j] = live[j]
                             \/ live'[j] = live[j] \cup {"session"} /\ {"worker", "runtime"} \subseteq live[j]
    BY <1>1, <2>1
  <2>4. QED
    BY <1>1, <1>7, <2>2, <2>3 DEF Converse, TrafficMoves
<1>8. QED
  BY <1>2, <1>3, <1>4, <1>5, <1>6, <1>7 DEF Traffic

-----------------------------------------------------------------------------
(* The task that starts an agent *)

(* A step of it goes to s and touches its own instance only *)
StartMoves(a, s) ==
  /\ Running /\ pc[a] \in Ours \cup {"tell"}
  /\ pc' = [pc EXCEPT ![a] = s] /\ s \in Ours \cup {"tell", "over"}
  /\ starting' = starting \/ (starting' = starting \ {a} /\ s = "over")
  /\ \A u \in Tasks : u # a => cut'[u] = cut[u] /\ hurt'[u] = hurt[u]
  /\ cut'[a] \/ hurt'[a] => cut[a] \/ hurt[a]
  /\ ~ (cut'[a] /\ hurt'[a])
  /\ cut' \in [Tasks -> BOOLEAN] /\ hurt' \in [Tasks -> BOOLEAN]
  /\ agents' \in [Agents -> 0 .. MaxWritten] /\ \A b \in Agents : b # a => agents'[b] = agents[b]
  /\ life' \in [Instances -> {"none", "init", "idle", "terminated"}]
  /\ live' \in [Instances -> SUBSET Parts]
  /\ \A i \in Instances : i # on[a] => life'[i] = life[i] /\ live'[i] = live[i]
  /\ pc[a] = "tell" => UNCHANGED <<agents, life, live>>
  /\ UNCHANGED <<configuration, on, change, commands, wake, limit>>

LEMMA StartFrame ==
  ASSUME IInv, NEW a \in Agents, NEW s, StartMoves(a, s)
  PROVE  /\ TypeOK' /\ StageInv' /\ HurtInv' /\ ChangeInv' /\ StopInv'
         /\ \A b \in Agents : b # a => StartOf(b)' /\ ListedRight(b)'
         /\ \A i \in Instances : i # on[a] \/ pc[a] = "tell" => LifeOf(i)'
<1> USE DEF configuration, commands
<1>0. /\ pc \in [Tasks -> Pcs] /\ a \in Tasks /\ a # Main /\ a # Ctl
      /\ Ctl \in Tasks /\ Main \in Tasks /\ Agents \subseteq Tasks
  BY Constants DEF IInv, TypeOK, Pcs
<1>1. /\ pc'[a] = s /\ (\A u \in Tasks : u # a => pc'[u] = pc[u]) /\ pc[a] # "over"
      /\ pc'[Ctl] = pc[Ctl] /\ pc'[Main] = pc[Main]
      /\ \A u \in Tasks : u # a => cut'[u] = cut[u] /\ hurt'[u] = hurt[u]
      /\ hurt'[Ctl] = hurt[Ctl] /\ hurt'[Main] = hurt[Main]
  BY <1>0 DEF StartMoves, Ours, StartSteps, Walking
<1>2. UNCHANGED <<cfg, written, gone, on, change, inFlight, told, wake, limit>>
  BY DEF StartMoves
<1>3. pc[Main] \notin StartsOver /\ ~hurt[Main] /\ pc[Main] \notin {"down", "cut off"}
      /\ pc[Main] \notin StopSteps
  <2>1. pc[Main] \notin StartsOver /\ pc[Main] \notin {"down", "cut off"}
    BY <1>1 DEF IInv, StageInv, StartMoves, Running
  <2>2. QED
    BY <2>1, Steps DEF IInv, HurtInv
<1>4. /\ agents' \in [Agents -> 0 .. MaxWritten] /\ \A b \in Agents : b # a => agents'[b] = agents[b]
      /\ life' \in [Instances -> {"none", "init", "idle", "terminated"}]
      /\ live' \in [Instances -> SUBSET Parts]
      /\ \A i \in Instances : i # on[a] => life'[i] = life[i] /\ live'[i] = live[i]
      /\ pc[a] = "tell" => UNCHANGED <<agents, life, live>>
  BY DEF StartMoves
<1>5. pc[a] \in Ours => on[a] \in Instances /\ on[a][1] = a /\ on[a][2] = cfg[a] /\ on[a] = <<a, cfg[a]>>
  BY StartHas
<1>6. \A i \in Instances : i[1] # a => life'[i] = life[i] /\ live'[i] = live[i]
                                        /\ agents'[i[1]] = agents[i[1]]
  <2>1. CASE pc[a] = "tell"
    BY <1>4, <2>1
  <2>2. CASE pc[a] \in Ours
    BY <1>4, <1>5, <2>2, Pairs
  <2>3. QED
    BY <2>1, <2>2 DEF StartMoves
<1>7. TypeOK'
  <2>1. pc' \in [Tasks -> Pcs]
    BY <1>0, Steps DEF StartMoves, Pcs
  <2>2. starting' \subseteq Agents /\ cut' \in [Tasks -> BOOLEAN] /\ hurt' \in [Tasks -> BOOLEAN]
    BY DEF StartMoves, IInv, TypeOK
  <2>3. QED
    BY <1>2, <1>4, <2>1, <2>2 DEF IInv, TypeOK, Pcs
<1>8. StageInv'
  <2>1. StageInv
    BY DEF IInv
  <2>2. \A b \in Agents : pc'[b] \in Ours \cup {"tell", "over"}
    BY <1>0, <1>1, <2>1 DEF StageInv, StartMoves
  <2>3. pc[Main] # "boot" => \A b \in Agents : pc'[b] # "over" => b \in starting'
    BY <1>0, <1>1, <2>1 DEF StageInv, StartMoves
  <2>4. pc[Main] \notin ListOver
    BY <1>3 DEF StartsOver, WakesOver, ControlOver, ListOver
  <2>5. \A b \in starting' : cfg'[b] # 0
    BY <1>2, <2>1 DEF StageInv, StartMoves
  <2>6. QED
    BY <1>1, <1>2, <1>3, <2>1, <2>2, <2>3, <2>4, <2>5 DEF StageInv
<1>9. HurtInv'
  <2>1. HurtInv
    BY DEF IInv
  <2>2. pc[Ctl] = "over" /\ hurt[Ctl] => agents'[on[Ctl][1]] = 0 /\ pc'[on[Ctl][1]] = "over"
    <3>1. SUFFICES ASSUME pc[Ctl] = "over", hurt[Ctl]
                   PROVE agents'[on[Ctl][1]] = 0 /\ pc'[on[Ctl][1]] = "over"
      OBVIOUS
    <3>2. PICK b \in Agents : b = on[Ctl][1]
      BY <2>1, <3>1, Pairs DEF HurtInv
    <3>3. agents[b] = 0 /\ pc[b] = "over"
      BY <2>1, <3>1, <3>2 DEF HurtInv
    <3>4. b # a
      BY <1>1, <3>3
    <3>5. QED
      BY <1>0, <1>1, <1>4, <3>2, <3>3, <3>4
  <2>3. \A b \in Agents : /\ cut'[b] \/ hurt'[b] => cut[b] \/ hurt[b]
                          /\ ~ (cut'[b] /\ hurt'[b])
    <3>1. \A b \in Agents : b # a => cut'[b] = cut[b] /\ hurt'[b] = hurt[b]
      BY <1>0, <1>1
    <3>2. (cut'[a] \/ hurt'[a] => cut[a] \/ hurt[a]) /\ ~ (cut'[a] /\ hurt'[a])
      BY DEF StartMoves
    <3>3. QED
      BY <2>1, <3>1, <3>2 DEF HurtInv
  <2>4. QED
    BY <1>1, <1>2, <1>3, <2>1, <2>2, <2>3 DEF HurtInv
<1>10. change # None => /\ change[2] \in Agents /\ change[2] # a
                        /\ pc'[change[2]] = pc[change[2]] /\ agents'[change[2]] = agents[change[2]]
                        /\ \A n \in Versions : life'[<<change[2], n>>] = life[<<change[2], n>>]
  <2>1. change # None => change[2] \in Agents /\ pc[change[2]] = "over"
    BY DEF IInv, TypeOK, ChangeInv
  <2>2. QED
    BY <1>0, <1>1, <1>4, <1>6, <2>1, Pairs
<1>11. ChangeInv'
  <2>1. CASE change = None
    BY <1>1, <1>2, <2>1 DEF IInv, ChangeInv
  <2>2. CASE change # None
    <3>1. cfg[change[2]] # 0 => cfg[change[2]] \in Versions
      BY <1>10, <2>2, Constants DEF IInv, TypeOK
    <3>2. QED
      BY <1>1, <1>2, <1>10, <2>2, <3>1 DEF IInv, ChangeInv, Listed
  <2>3. QED
    BY <2>1, <2>2
<1>12. StopInv'
  <2>1. StopOfBy(Main)'
    BY <1>1, <1>3 DEF StopOfBy
  <2>2. ASSUME pc[Ctl] \in StopSteps PROVE StopOfBy(Ctl)'
    <3>1. change # None /\ agents[change[2]] # 0 /\ on[Ctl] = Listed(change[2])
      BY <2>2 DEF IInv, ChangeInv
    <3>2. PICK i \in Instances : i = on[Ctl] /\ i[1] = change[2]
      BY <1>10, <3>1, ListedIs
    <3>3. life'[i] = life[i] /\ live'[i] = live[i] /\ agents'[i[1]] = agents[i[1]]
      BY <1>6, <1>10, <3>1, <3>2
    <3>4. StopOfBy(Ctl)
      BY Constants DEF IInv, StopInv
    <3>5. QED
      BY <1>1, <1>2, <2>2, <3>2, <3>3, <3>4 DEF StopOfBy, Carrying
  <2>3. pc[Ctl] \notin StopSteps => StopOfBy(Ctl)'
    BY <1>1 DEF StopOfBy
  <2>4. QED
    BY <2>1, <2>2, <2>3, Constants DEF StopInv
<1>13. ASSUME NEW b \in Agents, b # a PROVE StartOf(b)' /\ ListedRight(b)'
  <2>1. pc'[b] = pc[b] /\ hurt'[b] = hurt[b] /\ agents'[b] = agents[b]
    BY <1>0, <1>1, <1>4, <1>13
  <2>2. StartOf(b)'
    <3>1. SUFFICES ASSUME pc[b] \in Ours PROVE StartOf(b)'
      BY <2>1 DEF StartOf
    <3>2. PICK i \in Instances : on[b] = i /\ i[1] = b
      BY <3>1, StartHas
    <3>3. life'[i] = life[i] /\ live'[i] = live[i] /\ StartOf(b)
      BY <1>6, <1>13, <3>2 DEF IInv, StartInv
    <3>4. QED
      BY <1>2, <2>1, <3>1, <3>2, <3>3 DEF StartOf
  <2>3. ListedRight(b)'
    <3>1. SUFFICES ASSUME agents[b] # 0 PROVE ListedRight(b)'
      BY <2>1 DEF ListedRight
    <3>2. PICK i \in Instances : Listed(b) = i /\ i[1] = b
      BY <3>1, ListedIs
    <3>3. life'[i] = life[i] /\ ListedRight(b) /\ Listed(b)' = i
      BY <1>6, <1>13, <2>1, <3>2 DEF IInv, ListInv, Listed
    <3>4. QED
      BY <1>1, <1>2, <2>1, <3>1, <3>2, <3>3 DEF ListedRight
  <2>4. QED
    BY <2>2, <2>3
<1>14. ASSUME NEW i \in Instances, i # on[a] \/ pc[a] = "tell" PROVE LifeOf(i)'
  <2>1. LifeOf(i) /\ life'[i] = life[i] /\ live'[i] = live[i]
    BY <1>4, <1>14 DEF IInv, LifeInv
  <2>2. ~StoppingOf(a, i)
    <3>1. "tell" \notin StopSteps
      BY Steps
    <3>2. QED
      BY <1>14, <3>1 DEF StoppingOf
  <2>3. \A t \in Tasks : t # a => (StoppingOf(t, i)' <=> StoppingOf(t, i))
    BY <1>1, <1>2 DEF StoppingOf
  <2>4. CutShort(i)' <=> CutShort(i)
    BY <1>1, <1>2, Constants DEF CutShort
  <2>5. life[i] \in {"init", "idle"} => agents'[i[1]] = i[2]
    <3>1. SUFFICES ASSUME life[i] \in {"init", "idle"}, pc[a] # "tell", i[1] = a PROVE FALSE
      BY <1>4, <1>6, <2>1 DEF LifeOf
    <3>2. agents[a] = i[2] /\ i[2] \in Versions /\ i = <<a, i[2]>>
      BY <2>1, <3>1, Pairs DEF LifeOf
    <3>3. agents[a] = 0 \/ agents[a] = cfg[a]
      BY <3>1 DEF IInv, StartInv, StartOf, StartMoves
    <3>4. i = on[a]
      <4>1. pc[a] \in Ours
        BY <3>1 DEF StartMoves
      <4>2. i[2] # 0
        BY <3>2, Constants
      <4>3. QED
        BY <1>5, <3>2, <3>3, <4>1, <4>2
    <3>5. QED
      BY <1>14, <3>1, <3>4
  <2>6. QED
    BY <1>2, <2>1, <2>2, <2>3, <2>4, <2>5 DEF LifeOf
<1>15. QED
  BY <1>7, <1>8, <1>9, <1>11, <1>12, <1>13, <1>14

LEMMA StartEnds ==
  ASSUME IInv, NEW a \in Agents, NEW s, StartMoves(a, s),
         s \notin Ours \/ StartOf(a)',
         ListedRight(a)',
         \A i \in Instances : on[a] = i => pc[a] = "tell" \/ LifeOf(i)'
  PROVE  IInv'
<1>1. /\ TypeOK' /\ StageInv' /\ HurtInv' /\ ChangeInv' /\ StopInv'
      /\ \A b \in Agents : b # a => StartOf(b)' /\ ListedRight(b)'
      /\ \A i \in Instances : i # on[a] \/ pc[a] = "tell" => LifeOf(i)'
  BY StartFrame
<1>2. pc'[a] = s
  BY Constants DEF StartMoves, IInv, TypeOK
<1>3. s \notin Ours => StartOf(a)'
  BY <1>2 DEF StartOf
<1>4. StartInv' /\ ListInv' /\ LifeInv'
  BY <1>1, <1>3 DEF StartInv, ListInv, LifeInv
<1>5. QED
  BY <1>1, <1>4 DEF IInv

LEMMA StartStepKeeps ==
  ASSUME IInv, Running, NEW a \in Agents, StartStep(a)
  PROVE  IInv'
<1> USE DEF configuration, instances, commands
<1>0. /\ pc \in [Tasks -> Pcs] /\ hurt \in [Tasks -> BOOLEAN] /\ cut \in [Tasks -> BOOLEAN]
      /\ life \in [Instances -> {"none", "init", "idle", "terminated"}]
      /\ live \in [Instances -> SUBSET Parts]
      /\ agents \in [Agents -> 0 .. MaxWritten]
      /\ a \in Tasks
  BY Constants DEF IInv, TypeOK, Pcs
<1>1. ~(cut[a] /\ hurt[a]) /\ StartOf(a) /\ ListedRight(a)
  BY DEF IInv, HurtInv, StartInv, ListInv
<1>2. pc[a] \in StartSteps \cup {"stopped"} => pc[a] \in Ours
  BY DEF Ours, Walking
<1>3. pc[a] \in Ours => on[a] \in Instances /\ on[a][1] = a /\ on[a][2] = cfg[a]
                        /\ cfg[a] \in Versions /\ LifeOf(on[a])
  BY StartHas DEF IInv, LifeInv
<1>4. \A s : Goes(a, s) => pc' = [pc EXCEPT ![a] = s] /\ pc'[a] = s
                           /\ \A t \in Tasks : t # a => pc'[t] = pc[t]
  BY <1>0 DEF Goes
<1>5. {"tell", "over"} \cap Ours = {}
  BY DEF Ours, StartSteps, Walking
<1>6. StartSettles(a) \/ StartOver(a) =>
        \E s \in {"tell", "over"} :
          /\ Goes(a, s)
          /\ starting' = starting \/ (starting' = starting \ {a} /\ s = "over")
  BY DEF StartSettles, StartOver
<1>7. cfg[a] \in Versions => cfg[a] # 0
  BY Constants
<1>a. CASE Loaded(a)
  <2>1. pc[a] = "load" /\ Goes(a, "prepare") /\ pc[a] \in Ours
    BY <1>2, <1>a DEF Loaded, StartSteps
  <2>2. PICK i \in Instances : i = on[a] /\ i[1] = a /\ i[2] = cfg[a] /\ LifeOf(i)
    BY <1>3, <2>1
  <2>3. /\ agents' = [agents EXCEPT ![a] = i[2]] /\ life' = [life EXCEPT ![i] = "init"]
        /\ UNCHANGED <<configuration, starting, live, on, cut, hurt, change, commands, wake, limit>>
    BY <1>a, <2>2 DEF Loaded
  <2>4. /\ agents' \in [Agents -> 0 .. MaxWritten] /\ agents'[a] = cfg[a]
        /\ \A b \in Agents : b # a => agents'[b] = agents[b]
        /\ life' \in [Instances -> {"none", "init", "idle", "terminated"}] /\ life'[i] = "init"
        /\ \A j \in Instances : j # i => life'[j] = life[j]
    BY <1>0, <1>3, <2>1, <2>2, <2>3, Constants
  <2>5. StartMoves(a, "prepare")
    BY <1>0, <1>1, <2>1, <2>2, <2>3, <2>4 DEF StartMoves, Goes, Ours, StartSteps
  <2>6. life[i] = "none" /\ live[i] = {} /\ wake # i /\ \A h \in Handlers : inFlight[h] # i
    BY <1>1, <2>1, <2>2 DEF StartOf, LifeOf
  <2>7. StartOf(a)'
    BY <1>1, <1>4, <2>1, <2>2, <2>3, <2>4, <2>6 DEF StartOf, Walking
  <2>8. ListedRight(a)'
    <3>1. Listed(a)' = i
      BY <2>2, <2>4, Pairs DEF Listed
    <3>2. pc'[a] \in Coming
      BY <1>4, <2>1 DEF Coming
    <3>3. QED
      BY <2>3, <2>4, <3>1, <3>2 DEF ListedRight
  <2>9. LifeOf(i)'
    BY <1>1, <2>1, <2>2, <2>3, <2>4, <2>6, Constants DEF LifeOf, StartOf, IInv, TypeOK
  <2>10. QED
    BY <2>2, <2>5, <2>7, <2>8, <2>9, StartEnds
<1>b. CASE LoadFails(a) \/ CutBeforeTheStart(a)
  <2>1. pc[a] = "load" /\ pc[a] \in Ours
    BY <1>2, <1>b DEF LoadFails, CutBeforeTheStart, StartSteps
  <2>2. PICK s \in {"tell", "over"} :
          /\ Goes(a, s)
          /\ starting' = starting \/ (starting' = starting \ {a} /\ s = "over")
    BY <1>6, <1>b DEF LoadFails, CutBeforeTheStart
  <2>3. /\ UNCHANGED <<configuration, agents, instances, on, hurt, change, commands, wake, limit>>
        /\ cut' = cut \/ cut' = [cut EXCEPT ![a] = FALSE]
    BY <1>b DEF LoadFails, CutBeforeTheStart
  <2>4. StartMoves(a, s)
    BY <1>0, <1>1, <2>1, <2>2, <2>3 DEF StartMoves, Goes
  <2>5. agents[a] = 0 /\ ListedRight(a)'
    BY <1>1, <2>1, <2>3 DEF StartOf, ListedRight
  <2>6. ASSUME NEW i \in Instances, on[a] = i PROVE LifeOf(i)'
    <3>1. LifeOf(i) /\ life[i] = "none"
      BY <1>1, <1>3, <2>1, <2>6 DEF StartOf
    <3>2. QED
      BY <2>3, <3>1 DEF LifeOf
  <2>7. QED
    BY <1>5, <2>2, <2>4, <2>5, <2>6, StartEnds
<1>c. CASE Prepared(a)
  <2>1. pc[a] = "prepare" /\ Goes(a, "runtime up") /\ pc[a] \in Ours
    BY <1>2, <1>c DEF Prepared, StartSteps
  <2>2. UNCHANGED <<configuration, agents, starting, instances, on, cut, hurt, change,
                    commands, wake, limit>>
    BY <1>c DEF Prepared
  <2>3. StartMoves(a, "runtime up")
    BY <1>0, <1>1, <2>1, <2>2 DEF StartMoves, Goes, Ours, StartSteps
  <2>4. StartOf(a)'
    <3>1. /\ cfg[a] # 0 /\ cfg[a] <= written /\ on[a] = <<a, cfg[a]>> /\ agents[a] = cfg[a]
          /\ wake # on[a] /\ (\A h \in Handlers : inFlight[h] # on[a])
          /\ live[on[a]] = {} /\ life[on[a]] = "init"
      BY <1>1, <2>1 DEF StartOf, Coming
    <3>2. pc'[a] = "runtime up"
      BY <1>4, <2>1
    <3>3. pc'[a] \notin Walking
      BY <3>2 DEF Walking
    <3>4. QED
      BY <2>2, <3>1, <3>2, <3>3 DEF StartOf
  <2>5. ListedRight(a)'
    <3>1. pc'[a] \in Coming
      BY <1>4, <2>1 DEF Coming
    <3>2. life[Listed(a)] # "terminated"
      BY <1>1, <2>1, StartHas DEF StartOf, Coming, Ours, StartSteps
    <3>3. QED
      BY <1>1, <2>2, <3>1, <3>2 DEF ListedRight, Listed
  <2>6. ASSUME NEW i \in Instances, on[a] = i PROVE LifeOf(i)'
    <3>1. LifeOf(i) /\ life[i] = "init"
      BY <1>1, <1>3, <2>1, <2>6 DEF StartOf, Coming
    <3>2. QED
      BY <2>2, <3>1 DEF LifeOf
  <2>7. QED
    BY <2>3, <2>4, <2>5, <2>6, StartEnds
<1>d. CASE RuntimeUp(a)
  <2>1. pc[a] = "runtime up" /\ Goes(a, "channel up") /\ pc[a] \in Ours
    BY <1>2, <1>d DEF RuntimeUp, StartSteps
  <2>2. PICK i \in Instances : i = on[a] /\ LifeOf(i)
    BY <1>3, <2>1
  <2>3. /\ UNCHANGED <<configuration, agents, starting, life, on, cut, hurt, change,
                       commands, wake, limit>>
        /\ live' = [live EXCEPT ![i] = live[i] \cup {"runtime"}]
    BY <1>d, <2>2 DEF RuntimeUp
  <2>4. /\ life[i] = "init" /\ live[i] = {} /\ i = Listed(a) /\ agents[a] = cfg[a]
    BY <1>1, <2>1, <2>2, StartHas DEF StartOf, Coming, Ours, StartSteps
  <2>5. /\ live' \in [Instances -> SUBSET Parts] /\ live'[i] = {"runtime"}
        /\ \A j \in Instances : j # i => live'[j] = live[j]
    BY <1>0, <2>3, <2>4 DEF Parts
  <2>6. StartMoves(a, "channel up")
    BY <1>0, <1>1, <2>1, <2>2, <2>3, <2>5 DEF StartMoves, Goes, Ours, StartSteps
  <2>7. StartOf(a)'
    <3>1. /\ cfg[a] # 0 /\ cfg[a] <= written /\ on[a] = <<a, cfg[a]>> /\ agents[a] = cfg[a]
          /\ wake # on[a] /\ (\A h \in Handlers : inFlight[h] # on[a])
      BY <1>1, <2>1 DEF StartOf
    <3>2. pc'[a] = "channel up"
      BY <1>4, <2>1
    <3>3. pc'[a] \notin Walking
      BY <3>2 DEF Walking
    <3>4. QED
      BY <2>2, <2>3, <2>4, <2>5, <3>1, <3>2, <3>3 DEF StartOf
  <2>8. ListedRight(a)'
    <3>1. pc'[a] \in Coming
      BY <1>4, <2>1 DEF Coming
    <3>2. QED
      BY <1>1, <2>3, <2>4, <3>1 DEF ListedRight, Listed
  <2>9. LifeOf(i)'
    BY <2>2, <2>3, <2>4 DEF LifeOf
  <2>10. QED
    BY <2>2, <2>6, <2>7, <2>8, <2>9, StartEnds
<1>e. CASE ChannelUp(a)
  <2>1. pc[a] = "channel up" /\ pc[a] \in Ours
    BY <1>2, <1>e DEF ChannelUp, StartSteps
  <2>2. PICK i \in Instances : i = on[a] /\ LifeOf(i)
    BY <1>3, <2>1
  <2>4. /\ life[i] = "init" /\ i = Listed(a) /\ agents[a] = cfg[a]
    BY <1>1, <2>1, <2>2, StartHas DEF StartOf, Coming, Ours, StartSteps
  <2>3. /\ UNCHANGED <<configuration, agents, on, cut, hurt, change, commands, wake, limit>>
        /\ live' = [live EXCEPT ![i] = live[i] \cup {"channel", "receive"}]
        /\ life' = [life EXCEPT ![i] = "idle"]
        /\ StartSettles(a)
    BY <1>e, <2>2, <2>4 DEF ChannelUp
  <2>5. /\ live' \in [Instances -> SUBSET Parts]
        /\ life' \in [Instances -> {"none", "init", "idle", "terminated"}] /\ life'[i] = "idle"
        /\ \A j \in Instances : j # i => live'[j] = live[j] /\ life'[j] = life[j]
    BY <1>0, <2>3 DEF Parts
  <2>6. PICK s \in {"tell", "over"} :
          /\ Goes(a, s)
          /\ starting' = starting \/ (starting' = starting \ {a} /\ s = "over")
    BY <1>6, <2>3
  <2>7. StartMoves(a, s)
    BY <1>0, <1>1, <2>1, <2>2, <2>3, <2>5, <2>6 DEF StartMoves, Goes
  <2>8. ListedRight(a)'
    BY <2>3, <2>4, <2>5 DEF ListedRight, Listed
  <2>9. LifeOf(i)'
    BY <2>2, <2>3, <2>4, <2>5 DEF LifeOf
  <2>10. QED
    BY <1>5, <2>2, <2>6, <2>7, <2>8, <2>9, StartEnds
<1>f. CASE StartFails(a)
  <2>1. pc[a] \in {"prepare", "runtime up", "channel up"} /\ pc[a] \in Ours /\ pc[a] \in Coming
    BY <1>2, <1>f DEF StartFails, StartSteps, Coming
  <2>2. PICK i \in Instances : i = on[a] /\ LifeOf(i)
    BY <1>3, <2>1
  <2>3. /\ life[i] = "init" /\ i = Listed(a) /\ agents[a] = cfg[a]
        /\ live[i] \subseteq {"runtime"} /\ (pc[a] = "prepare" => live[i] = {})
    BY <1>1, <2>1, <2>2, StartHas DEF StartOf
  <2>4. /\ UNCHANGED <<configuration, agents, starting, live, on, change, commands, wake, limit>>
        /\ cut' \in [Tasks -> BOOLEAN] /\ hurt' \in [Tasks -> BOOLEAN]
        /\ ~cut'[a] /\ hurt'[a] = cut[a]
        /\ \A t \in Tasks : t # a => cut'[t] = cut[t] /\ hurt'[t] = hurt[t]
    BY <1>0, <1>f DEF StartFails
  <2>5. PICK s \in {"channel", "undo"} :
          /\ Goes(a, s)
          /\ s = "channel" => pc[a] = "prepare" /\ life' = [life EXCEPT ![i] = "terminated"]
          /\ s = "undo" => life' = life
    BY <1>f, <2>2 DEF StartFails, Terminate
  <2>6. /\ life' \in [Instances -> {"none", "init", "idle", "terminated"}]
        /\ s = "channel" => life'[i] = "terminated"
        /\ s = "undo" => life'[i] = "init"
        /\ \A j \in Instances : j # i => life'[j] = life[j]
    BY <1>0, <2>3, <2>5
  <2>7. s \in Ours /\ (s = "channel" => s \in Walking /\ s \in StopSteps) /\ (s = "undo" => s \in Coming)
    BY DEF Ours, Walking, Coming, StartSteps, StopSteps
  <2>8. StartMoves(a, s)
    BY <1>0, <1>1, <2>1, <2>2, <2>4, <2>5, <2>6, <2>7 DEF StartMoves, Goes
  <2>9. StartOf(a)'
    BY <1>1, <1>4, <2>1, <2>2, <2>3, <2>4, <2>5, <2>6 DEF StartOf, Coming, Walking
  <2>10. ListedRight(a)'
    <3>1. Listed(a)' = i /\ agents'[a] = cfg'[a]
      BY <2>3, <2>4 DEF Listed
    <3>2. pc'[a] = s
      BY <1>4, <2>5
    <3>3. QED
      BY <2>5, <2>6, <2>7, <3>1, <3>2 DEF ListedRight
  <2>11. LifeOf(i)'
    <3>1. i[1] = a /\ i[2] = cfg[a] /\ cfg[a] <= written
      BY <1>1, <1>3, <2>1, <2>2 DEF StartOf
    <3>2. s = "channel" => StoppingOf(a, i)'
      BY <1>4, <2>2, <2>4, <2>5, <2>7 DEF StoppingOf
    <3>3. ~(i[2] > written)
      BY <2>2, <2>3 DEF LifeOf
    <3>4. QED
      BY <1>0, <2>2, <2>3, <2>4, <2>5, <2>6, <3>1, <3>2, <3>3 DEF LifeOf
  <2>12. QED
    BY <2>2, <2>8, <2>9, <2>10, <2>11, StartEnds
<1>g. CASE Undone(a)
  <2>1. pc[a] = "undo" /\ pc[a] \in Ours /\ pc[a] \in Coming /\ Goes(a, "channel")
    BY <1>2, <1>g DEF Undone, StartSteps, Coming
  <2>2. PICK i \in Instances : i = on[a] /\ LifeOf(i)
    BY <1>3, <2>1
  <2>3. /\ life[i] = "init" /\ i = Listed(a) /\ agents[a] = cfg[a] /\ live[i] \subseteq {"runtime"}
    BY <1>1, <2>1, <2>2, StartHas DEF StartOf
  <2>4. /\ UNCHANGED <<configuration, agents, starting, on, change, commands, wake, limit>>
        /\ cut' \in [Tasks -> BOOLEAN] /\ hurt' \in [Tasks -> BOOLEAN]
        /\ ~cut'[a] /\ hurt'[a] = (hurt[a] \/ cut[a])
        /\ \A t \in Tasks : t # a => cut'[t] = cut[t] /\ hurt'[t] = hurt[t]
    <3>1. hurt' = [hurt EXCEPT ![a] = hurt[a] \/ cut[a]]
      BY <1>g DEF Undone
    <3>2. hurt' \in [Tasks -> BOOLEAN]
      BY <1>0, <3>1
    <3>3. QED
      BY <1>0, <1>g, <3>1, <3>2 DEF Undone
  <2>5. /\ life' = [life EXCEPT ![i] = "terminated"]
        /\ live' = [live EXCEPT ![i] = live[i] \ (IF cut[a] THEN {} ELSE {"runtime"})]
    BY <1>g, <2>2 DEF Undone, Terminate
  <2>6. /\ life' \in [Instances -> {"none", "init", "idle", "terminated"}]
        /\ live' \in [Instances -> SUBSET Parts]
        /\ life'[i] = "terminated" /\ live'[i] \subseteq {"runtime"} /\ (live'[i] # {} => hurt'[a])
        /\ \A j \in Instances : j # i => life'[j] = life[j] /\ live'[j] = live[j]
    BY <1>0, <2>3, <2>4, <2>5
  <2>7. {"channel"} \subseteq Ours \cap Walking \cap StopSteps
    BY DEF Ours, Walking, StopSteps
  <2>8. StartMoves(a, "channel")
    BY <1>0, <1>1, <2>1, <2>2, <2>4, <2>6, <2>7 DEF StartMoves, Goes
  <2>9. StartOf(a)'
    <3>1. /\ cfg[a] # 0 /\ cfg[a] <= written /\ on[a] = <<a, cfg[a]>>
          /\ wake # on[a] /\ (\A h \in Handlers : inFlight[h] # on[a])
      BY <1>1, <2>1 DEF StartOf
    <3>2. pc'[a] = "channel"
      BY <1>4, <2>1
    <3>3. pc'[a] \notin Coming
      BY <3>2 DEF Coming
    <3>4. QED
      BY <2>2, <2>3, <2>4, <2>6, <3>1, <3>2, <3>3 DEF StartOf
  <2>10. ListedRight(a)'
    <3>1. Listed(a)' = i /\ agents'[a] = cfg'[a]
      BY <2>3, <2>4 DEF Listed
    <3>2. pc'[a] \in Walking
      BY <1>4, <2>1, <2>7
    <3>3. QED
      BY <2>6, <3>1, <3>2 DEF ListedRight
  <2>11. LifeOf(i)'
    <3>1. StoppingOf(a, i)'
      BY <1>4, <2>1, <2>2, <2>4, <2>7 DEF StoppingOf
    <3>2. ~(i[2] > written)
      BY <2>2, <2>3 DEF LifeOf
    <3>3. QED
      BY <1>0, <2>4, <2>6, <3>1, <3>2 DEF LifeOf
  <2>12. QED
    BY <2>2, <2>8, <2>9, <2>10, <2>11, StartEnds
<1>h. CASE StartGivenUp(a)
  <2>1. pc[a] = "stopped" /\ pc[a] \in Ours /\ pc[a] \in Walking
    BY <1>2, <1>h DEF StartGivenUp, Walking
  <2>2. PICK i \in Instances : i = on[a] /\ LifeOf(i)
    BY <1>3, <2>1
  <2>3. /\ life[i] = "terminated" /\ live[i] = {}
    BY <1>1, <2>1, <2>2 DEF StartOf
  <2>4. PICK s \in {"tell", "over"} :
          /\ Goes(a, s)
          /\ starting' = starting \/ (starting' = starting \ {a} /\ s = "over")
    BY <1>6, <1>h DEF StartGivenUp
  <2>5. /\ UNCHANGED <<configuration, instances, on, cut, hurt, change, commands, wake, limit>>
        /\ agents' \in [Agents -> 0 .. MaxWritten] /\ agents'[a] = 0
        /\ \A b \in Agents : b # a => agents'[b] = agents[b]
    BY <1>0, <1>h, Constants DEF StartGivenUp, Unlist
  <2>6. StartMoves(a, s)
    BY <1>0, <1>1, <2>1, <2>4, <2>5 DEF StartMoves, Goes
  <2>7. ListedRight(a)'
    BY <2>5 DEF ListedRight
  <2>8. LifeOf(i)'
    BY <2>2, <2>3, <2>5 DEF LifeOf
  <2>9. QED
    BY <1>5, <2>2, <2>4, <2>6, <2>7, <2>8, StartEnds
<1>i. CASE StartTold(a)
  <2>1. pc[a] = "tell" /\ Goes(a, "over") /\ starting' = starting \ {a}
        /\ UNCHANGED <<configuration, agents, instances, on, hurt, change, commands, wake, limit>>
        /\ cut' = [cut EXCEPT ![a] = FALSE]
    BY <1>i DEF StartTold, StartOver
  <2>2. StartMoves(a, "over")
    BY <1>0, <1>1, <2>1 DEF StartMoves, Goes
  <2>3. ListedRight(a)'
    <3>1. pc[a] \notin Coming \cup Walking /\ pc'[Main] = pc[Main]
      BY <1>4, <2>1, Constants DEF Coming, Walking
    <3>2. QED
      BY <1>1, <2>1, <3>1 DEF ListedRight, Listed
  <2>4. QED
    BY <1>5, <2>1, <2>2, <2>3, StartEnds
<1>j. QED
  BY <1>a, <1>b, <1>c, <1>d, <1>e, <1>f, <1>g, <1>h, <1>i DEF StartStep

-----------------------------------------------------------------------------
(* The control's task *)

LEMMA ControlWhere ==
  ASSUME IInv, Running, pc[Ctl] # "over"
  PROVE  /\ pc[Main] \in {"up", "control"} /\ pc[Main] \notin StopSteps
         /\ ~hurt[Main] /\ \A b \in Agents : ~hurt[b] /\ ~cut[b]
         /\ \A b \in Agents : pc[b] # "over" => b \in starting
         /\ \A b \in Agents : pc[b] \in Ours \cup {"tell", "over"}
<1>1. pc[Main] \in {"up", "control"}
  BY DEF IInv, StageInv, Running, MainSteps, ControlOver
<1>2. pc[Main] \notin StopSteps \cup {"cut off"} /\ pc[Main] \in BeforeStarts
  BY <1>1 DEF StopSteps, BeforeStarts
<1>3. QED
  BY <1>1, <1>2 DEF IInv, HurtInv, StageInv

(* It goes on, or ends; of an agent a, the one it stopped or struck from the
   configuration, nothing is left on the list *)
ControlGoes(a, s) ==
  /\ Running /\ pc[Ctl] \in {"poll", "tell", "stopped"} /\ Goes(Ctl, s)
  /\ pc[Ctl] = "stopped" => change # None /\ change[2] = a /\ agents'[a] = 0
  /\ cfg' \in [Agents -> 0 .. MaxWritten] /\ \A b \in Agents : b # a => cfg'[b] = cfg[b]
  /\ agents' \in [Agents -> 0 .. MaxWritten] /\ \A b \in Agents : b # a => agents'[b] = agents[b]
  /\ a \in Agents => \/ cfg'[a] = cfg[a]
                     \/ agents'[a] = 0 /\ pc[a] = "over" /\ a \notin starting
  /\ a \in Agents => \/ agents'[a] = agents[a]
                     \/ pc[Ctl] = "stopped"
  /\ hurt[Ctl] => s = "over"
  /\ change' = None
  /\ gone' \subseteq Agents
  /\ cut' \in [Tasks -> BOOLEAN] /\ \A b \in Agents : cut'[b] = cut[b]
  /\ UNCHANGED <<written, starting, instances, on, hurt, commands, wake, limit>>

(* The stop in the middle of a change is over *)
LEMMA ControlStopIs ==
  ASSUME IInv, pc[Ctl] \in StopSteps
  PROVE  /\ change # None /\ change[2] \in Agents
         /\ on[Ctl] \in Instances /\ on[Ctl] = Listed(change[2]) /\ on[Ctl][1] = change[2]
         /\ on[Ctl][2] = agents[change[2]] /\ agents[change[2]] # 0
         /\ pc[change[2]] = "over" /\ life[on[Ctl]] = "terminated"
         /\ pc[Ctl] = "stopped" /\ ~hurt[Ctl] => live[on[Ctl]] \subseteq {"worker"}
<1>1. /\ change # None /\ agents[change[2]] # 0 /\ on[Ctl] = Listed(change[2])
      /\ pc[change[2]] = "over"
  BY DEF IInv, ChangeInv
<1>2. change[2] \in Agents
  BY <1>1 DEF IInv, TypeOK
<1>3. StopOfBy(Ctl)
  BY Constants DEF IInv, StopInv
<1>4. QED
  BY <1>1, <1>2, <1>3, ListedIs, AheadIs DEF StopOfBy

(* Instances not up and not coming up stay so as the control's task leaves its stop *)
LEMMA LifeAfterControl ==
  ASSUME IInv, NEW i \in Instances,
         pc[Ctl] \notin StopSteps \/ (pc[Ctl] = "stopped" /\ agents'[change[2]] = 0),
         pc'[Ctl] \notin StopSteps, hurt'[Ctl] = hurt[Ctl],
         \A b \in Agents : agents'[b] = agents[b] \/ (pc[Ctl] = "stopped" /\ b = change[2]),
         \A t \in Tasks : t # Ctl /\ pc[t] \in StopSteps => pc'[t] = pc[t] /\ on'[t] = on[t],
         \A t \in Stoppers : hurt'[t] = hurt[t] /\ on'[t] = on[t],
         written' \in Versions, written <= written',
         UNCHANGED <<life, live, inFlight, wake>>
  PROVE  LifeOf(i)'
<1>1. LifeOf(i) /\ i[1] \in Agents /\ i[2] \in Versions /\ i = <<i[1], i[2]>> /\ written \in Versions
  BY Pairs DEF IInv, LifeInv, TypeOK
<1>2. i[2] > written' => life[i] = "none"
  BY <1>1, Constants DEF LifeOf
<1>3. life[i] \in {"init", "idle"} => agents'[i[1]] = i[2]
  <2>1. SUFFICES ASSUME life[i] \in {"init", "idle"}, pc[Ctl] = "stopped", i[1] = change[2]
                 PROVE FALSE
    BY <1>1 DEF LifeOf
  <2>2. life[on[Ctl]] = "terminated" /\ on[Ctl] = Listed(change[2])
    BY <2>1, ControlStopIs DEF StopSteps
  <2>3. i = Listed(change[2])
    BY <1>1, <2>1 DEF LifeOf, Listed
  <2>4. QED
    BY <2>1, <2>2, <2>3
<1>4. CutShort(i) => CutShort(i)'
  BY DEF CutShort
<1>5. \A t \in Tasks : t # Ctl => (StoppingOf(t, i) => StoppingOf(t, i)')
  BY DEF StoppingOf
<1>6. StoppingOf(Ctl, i) => live[i] \subseteq {"worker"} \/ CutShort(i)
  BY ControlStopIs, Constants DEF StoppingOf, CutShort
<1>7. QED
  BY <1>1, <1>2, <1>3, <1>4, <1>5, <1>6 DEF LifeOf

LEMMA ControlGoesOn ==
  ASSUME IInv, NEW a, NEW s \in {"poll", "tell", "over"}, ControlGoes(a, s)
  PROVE  IInv'
<1> USE DEF instances, commands
<1>0. /\ pc \in [Tasks -> Pcs] /\ Ctl \in Tasks /\ Main \in Tasks /\ Ctl # Main
      /\ Agents \subseteq Tasks /\ Ctl \notin Agents
  BY Constants DEF IInv, TypeOK, Pcs
<1>1. /\ pc'[Ctl] = s /\ (\A t \in Tasks : t # Ctl => pc'[t] = pc[t]) /\ pc[Ctl] # "over"
      /\ pc' = [pc EXCEPT ![Ctl] = s]
      /\ pc'[Main] = pc[Main] /\ \A b \in Agents : pc'[b] = pc[b]
  BY <1>0 DEF ControlGoes, Goes
<1>2. UNCHANGED <<written, starting, life, live, on, hurt, inFlight, told, wake, limit>>
      /\ change' = None
  BY DEF ControlGoes
<1>3. /\ pc[Main] \in {"up", "control"} /\ pc[Main] \notin StopSteps
      /\ ~hurt[Main] /\ \A b \in Agents : ~hurt[b] /\ ~cut[b] /\ ~cut'[b]
      /\ \A b \in Agents : pc[b] # "over" => b \in starting
      /\ \A b \in Agents : pc[b] \in Ours \cup {"tell", "over"}
  BY <1>1, ControlWhere DEF ControlGoes
<1>4. s \notin StopSteps /\ {"poll", "tell", "over"} \subseteq Pcs
  BY DEF StopSteps, Pcs
<1>a. change = None <=> pc[Ctl] # "stopped"
  BY DEF IInv, ChangeInv, StopSteps, ControlGoes
<1>5. TypeOK'
  <2>1. pc' \in [Tasks -> Pcs]
    BY <1>0, <1>1, <1>4
  <2>2. /\ cfg' \in [Agents -> 0 .. MaxWritten] /\ gone' \subseteq Agents
        /\ agents' \in [Agents -> 0 .. MaxWritten] /\ cut' \in [Tasks -> BOOLEAN]
    BY DEF ControlGoes
  <2>3. QED
    BY <1>2, <2>1, <2>2 DEF IInv, TypeOK, Pcs
<1>6. StageInv'
  <2>1. pc[Main] \notin ControlOver \cup WakesOver \cup StartsOver \cup ListOver \cup {"boot", "down"}
    BY <1>3 DEF ControlOver, WakesOver, StartsOver, ListOver, StopSteps
  <2>2. \A b \in starting' : cfg'[b] # 0
    <3>1. starting \subseteq Agents /\ \A b \in starting : cfg[b] # 0
      BY DEF IInv, TypeOK, StageInv
    <3>2. QED
      BY <1>2, <3>1 DEF ControlGoes
  <2>3. QED
    BY <1>1, <1>2, <1>3, <2>1, <2>2 DEF StageInv, MainSteps
<1>7. HurtInv'
  <2>1. hurt[Ctl] => pc[Ctl] = "stopped" /\ s = "over"
    BY DEF IInv, HurtInv, ControlGoes
  <2>2. hurt[Ctl] => /\ on[Ctl] \in Instances /\ agents'[on[Ctl][1]] = 0
                     /\ pc'[on[Ctl][1]] = "over"
    BY <1>1, <2>1, ControlStopIs DEF ControlGoes, StopSteps
  <2>3. QED
    BY <1>1, <1>2, <1>3, <2>1, <2>2 DEF HurtInv
<1>8. \A b \in Agents : pc[b] \in Ours => /\ cfg'[b] = cfg[b] /\ agents'[b] = agents[b]
  <2>1. "over" \notin Ours
    BY DEF Ours, StartSteps, Walking
  <2>2. pc[Ctl] = "stopped" /\ a \in Agents => pc[a] = "over"
    BY ControlStopIs DEF ControlGoes, StopSteps
  <2>3. QED
    BY <2>1, <2>2 DEF ControlGoes
<1>9. StartInv'
  <2>1. SUFFICES ASSUME NEW b \in Agents, pc[b] \in Ours PROVE StartOf(b)'
    BY <1>1 DEF StartInv, StartOf
  <2>2. StartOf(b) /\ cfg'[b] = cfg[b] /\ agents'[b] = agents[b]
    BY <1>8, <2>1 DEF IInv, StartInv
  <2>3. QED
    BY <1>1, <1>2, <2>1, <2>2 DEF StartOf
<1>10. ChangeInv'
  BY <1>1, <1>2, <1>4 DEF ChangeInv
<1>11. StopInv'
  BY <1>1, <1>3, <1>4, Constants DEF StopInv, StopOfBy
<1>12. ListInv'
  <2>1. SUFFICES ASSUME NEW b \in Agents, agents'[b] # 0 PROVE ListedRight(b)'
    BY DEF ListInv, ListedRight
  <2>2. agents'[b] = agents[b] /\ cfg'[b] = cfg[b] /\ (change # None => change[2] # b)
    BY <1>a, <2>1 DEF ControlGoes
  <2>3. ListedRight(b)
    BY DEF IInv, ListInv
  <2>4. /\ agents[b] = cfg[b]
        /\ life[Listed(b)] # "none"
        /\ life[Listed(b)] = "init" => pc[b] \in Coming
        /\ life[Listed(b)] = "terminated" => pc[b] \in Walking
    BY <1>3, <2>1, <2>2, <2>3 DEF ListedRight
  <2>5. QED
    BY <1>1, <1>2, <2>2, <2>4 DEF ListedRight, Listed
<1>13. LifeInv'
  <2>1. ASSUME NEW i \in Instances PROVE LifeOf(i)'
    <3>1. pc[Ctl] \notin StopSteps \/ (pc[Ctl] = "stopped" /\ agents'[change[2]] = 0)
      BY DEF ControlGoes, StopSteps
    <3>2. \A b \in Agents : agents'[b] = agents[b] \/ (pc[Ctl] = "stopped" /\ b = change[2])
      BY DEF ControlGoes
    <3>3. written' \in Versions /\ written <= written'
      BY <1>2, Constants DEF IInv, TypeOK
    <3>4. QED
      BY <1>1, <1>2, <1>4, <3>1, <3>2, <3>3, LifeAfterControl
  <2>2. QED
    BY <2>1 DEF LifeInv
<1>14. QED
  BY <1>5, <1>6, <1>7, <1>9, <1>10, <1>11, <1>12, <1>13 DEF IInv

(* The configuration of a is the n-th that was written; nothing of it was started yet *)
NewConfiguration(a, n) ==
  /\ n \in Versions /\ life[<<a, n>>] = "none"
  /\ cfg' \in [Agents -> 0 .. MaxWritten] /\ cfg'[a] = n
  /\ \A b \in Agents : b # a => cfg'[b] = cfg[b]
  /\ written' \in Versions /\ written <= written' /\ n <= written'

(* The start of an agent is left to a task of its own *)
LEMMA BringUpKeeps ==
  ASSUME IInv, Running, NEW a \in Agents, NEW n, BringUp(a, n), NewConfiguration(a, n),
         \/ pc[Ctl] = "poll" /\ agents[a] = 0 /\ a \notin starting
         \/ pc[Ctl] = "stopped" /\ ~hurt[Ctl] /\ change[2] = a,
         agents' = [agents EXCEPT ![a] = 0],
         change' = None,
         UNCHANGED <<gone, instances, cut, commands, wake, limit>>
  PROVE  IInv'
<1> USE DEF instances, commands
<1>0. /\ pc \in [Tasks -> Pcs] /\ hurt \in [Tasks -> BOOLEAN] /\ on \in [Tasks -> Instances \cup {None}]
      /\ agents \in [Agents -> 0 .. MaxWritten]
      /\ Ctl \in Tasks /\ Main \in Tasks /\ Ctl # Main
      /\ Agents \subseteq Tasks /\ Ctl \notin Agents /\ Main \notin Agents
  BY Constants DEF IInv, TypeOK, Pcs
<1>1. /\ pc[Main] \in {"up", "control"} /\ pc[Main] \notin StopSteps
      /\ ~hurt[Main] /\ \A b \in Agents : ~hurt[b] /\ ~cut[b]
      /\ \A b \in Agents : pc[b] # "over" => b \in starting
      /\ \A b \in Agents : pc[b] \in Ours \cup {"tell", "over"}
  BY ControlWhere
<1>2. pc[a] = "over" /\ ~hurt[Ctl]
  <2>1. CASE pc[Ctl] = "poll"
    BY <1>1, <2>1 DEF IInv, HurtInv
  <2>2. CASE pc[Ctl] = "stopped" /\ ~hurt[Ctl] /\ change[2] = a
    BY <2>2, ControlStopIs DEF StopSteps
  <2>3. QED
    BY <2>1, <2>2
<1>3. /\ pc' \in [Tasks -> Pcs] /\ pc'[a] = "load" /\ pc'[Ctl] = "tell" /\ pc'[Main] = pc[Main]
      /\ \A b \in Agents : b # a => pc'[b] = pc[b]
      /\ \A t \in Tasks : t # Ctl /\ t # a => pc'[t] = pc[t]
  BY <1>0 DEF BringUp, Pcs, StartSteps
<1>4. /\ on' \in [Tasks -> Instances \cup {None}] /\ on'[a] = <<a, n>> /\ <<a, n>> \in Instances
      /\ \A t \in Tasks : t # a => on'[t] = on[t]
  BY <1>0, Pairs DEF BringUp, NewConfiguration
<1>5. /\ hurt' \in [Tasks -> BOOLEAN] /\ ~hurt'[a]
      /\ \A t \in Tasks : t # a => hurt'[t] = hurt[t]
      /\ starting' = starting \cup {a}
  BY <1>0 DEF BringUp
<1>6. /\ agents' \in [Agents -> 0 .. MaxWritten] /\ agents'[a] = 0
      /\ \A b \in Agents : b # a => agents'[b] = agents[b]
  BY <1>0, Constants
<1>a. change # None => change[2] = a
  BY DEF IInv, ChangeInv, StopSteps
<1>7. TypeOK'
  BY <1>3, <1>4, <1>5, <1>6 DEF IInv, TypeOK, Pcs, NewConfiguration
<1>8. StageInv'
  <2>1. pc[Main] \notin ControlOver \cup WakesOver \cup StartsOver \cup ListOver \cup {"boot", "down"}
    BY <1>1 DEF ControlOver, WakesOver, StartsOver, ListOver, StopSteps
  <2>2. \A b \in Agents : pc'[b] \in Ours \cup {"tell", "over"} /\ (pc'[b] # "over" => b \in starting')
    BY <1>1, <1>3, <1>5 DEF Ours, StartSteps
  <2>3. \A b \in starting' : cfg'[b] # 0
    <3>1. starting \subseteq Agents /\ \A b \in starting : cfg[b] # 0
      BY DEF IInv, TypeOK, StageInv
    <3>2. QED
      BY <1>5, <3>1, Constants DEF NewConfiguration
  <2>4. QED
    BY <1>1, <1>3, <2>1, <2>2, <2>3 DEF StageInv, MainSteps
<1>9. HurtInv'
  <2>1. /\ \A b \in Agents : ~hurt'[b] /\ ~cut'[b]
        /\ ~hurt'[Main] /\ ~hurt'[Ctl] /\ pc'[Ctl] = "tell"
    BY <1>0, <1>1, <1>2, <1>3, <1>5
  <2>2. QED
    BY <2>1 DEF HurtInv
<1>10. StartInv'
  <2>1. StartOf(a)'
    <3>1. life[<<a, n>>] = "none" /\ wake # <<a, n>> /\ \A h \in Handlers : inFlight[h] # <<a, n>>
      BY <1>4 DEF NewConfiguration, IInv, LifeInv, LifeOf
    <3>2. cfg'[a] = n /\ n # 0 /\ n <= written'
      BY Constants DEF NewConfiguration
    <3>3. "load" \notin Coming \cup Walking
      BY DEF Coming, Walking
    <3>4. QED
      BY <1>3, <1>4, <1>6, <3>1, <3>2, <3>3 DEF StartOf
  <2>2. ASSUME NEW b \in Agents, b # a, pc[b] \in Ours PROVE StartOf(b)'
    <3>1. /\ StartOf(b) /\ cfg'[b] = cfg[b] /\ agents'[b] = agents[b] /\ pc'[b] = pc[b]
          /\ on'[b] = on[b] /\ hurt'[b] = hurt[b]
      BY <1>0, <1>3, <1>4, <1>5, <1>6, <2>2 DEF IInv, StartInv, NewConfiguration
    <3>2. cfg[b] <= written'
      <4>1. cfg[b] <= written /\ cfg[b] \in Nat /\ written \in Nat /\ written' \in Nat
        <5>1. cfg[b] <= written
          BY <2>2, <3>1 DEF StartOf
        <5>2. cfg \in [Agents -> 0 .. MaxWritten] /\ written \in Versions /\ written' \in Versions
          BY DEF IInv, TypeOK, NewConfiguration
        <5>3. QED
          BY <5>1, <5>2, Constants
      <4>2. QED
        BY <4>1 DEF NewConfiguration
    <3>3. QED
      BY <2>2, <3>1, <3>2 DEF StartOf
  <2>3. ASSUME NEW b \in Agents, b # a, pc[b] \notin Ours PROVE StartOf(b)'
    BY <1>3, <2>3 DEF StartOf
  <2>4. QED
    BY <2>1, <2>2, <2>3 DEF StartInv
<1>11. ChangeInv'
  BY <1>3 DEF ChangeInv, StopSteps
<1>12. StopInv'
  <2>1. "tell" \notin StopSteps
    BY DEF StopSteps
  <2>2. QED
    BY <1>1, <1>3, <2>1, Constants DEF StopInv, StopOfBy
<1>13. ListInv'
  <2>1. SUFFICES ASSUME NEW b \in Agents, b # a, agents[b] # 0 PROVE ListedRight(b)'
    BY <1>6 DEF ListInv, ListedRight
  <2>2. /\ agents'[b] = agents[b] /\ cfg'[b] = cfg[b] /\ pc'[b] = pc[b]
        /\ (change # None => change[2] # b)
    BY <1>3, <1>6, <1>a, <2>1 DEF NewConfiguration
  <2>3. /\ agents[b] = cfg[b]
        /\ life[Listed(b)] # "none"
        /\ life[Listed(b)] = "init" => pc[b] \in Coming
        /\ life[Listed(b)] = "terminated" => pc[b] \in Walking
    BY <1>1, <2>1, <2>2 DEF IInv, ListInv, ListedRight
  <2>4. QED
    BY <2>2, <2>3 DEF ListedRight, Listed
<1>14. LifeInv'
  <2>1. ASSUME NEW i \in Instances PROVE LifeOf(i)'
    <3>1. CASE pc[Ctl] = "stopped"
      <4>1. agents'[change[2]] = 0 /\ change[2] = a
        BY <1>6, <3>1
      <4>2. \A b \in Agents : agents'[b] = agents[b] \/ (pc[Ctl] = "stopped" /\ b = change[2])
        BY <1>6, <3>1, <4>1
      <4>3. \A t \in Tasks : t # Ctl /\ pc[t] \in StopSteps => pc'[t] = pc[t] /\ on'[t] = on[t]
        BY <1>2, <1>3, <1>4 DEF StopSteps
      <4>4. \A t \in Stoppers : hurt'[t] = hurt[t] /\ on'[t] = on[t]
        BY <1>0, <1>4, <1>5, Constants
      <4>5. hurt'[Ctl] = hurt[Ctl] /\ pc'[Ctl] \notin StopSteps
        BY <1>0, <1>3, <1>5 DEF StopSteps
      <4>6. QED
        BY <3>1, <4>1, <4>2, <4>3, <4>4, <4>5, LifeAfterControl DEF NewConfiguration
    <3>2. CASE pc[Ctl] = "poll" /\ agents[a] = 0
      <4>2. \A b \in Agents : agents'[b] = agents[b]
        BY <1>6, <3>2
      <4>3. \A t \in Tasks : t # Ctl /\ pc[t] \in StopSteps => pc'[t] = pc[t] /\ on'[t] = on[t]
        BY <1>2, <1>3, <1>4 DEF StopSteps
      <4>4. \A t \in Stoppers : hurt'[t] = hurt[t] /\ on'[t] = on[t]
        BY <1>0, <1>4, <1>5, Constants
      <4>5. hurt'[Ctl] = hurt[Ctl] /\ pc'[Ctl] \notin StopSteps /\ pc[Ctl] \notin StopSteps
        BY <1>0, <1>3, <1>5, <3>2 DEF StopSteps
      <4>6. QED
        BY <4>2, <4>3, <4>4, <4>5, LifeAfterControl DEF NewConfiguration
    <3>3. QED
      BY <3>1, <3>2
  <2>2. QED
    BY <2>1 DEF LifeInv
<1>15. QED
  BY <1>7, <1>8, <1>9, <1>10, <1>11, <1>12, <1>13, <1>14 DEF IInv

(* A change stops the agent it is about, which is up *)
LEMMA ChangeStops ==
  ASSUME IInv, Running, NEW a \in Agents, NEW k \in {"update", "remove"}, pc[Ctl] = "poll",
         agents[a] # 0, life[Listed(a)] = "idle", a \notin starting,
         StopOf(Ctl, Listed(a)), change' = <<k, a>>,
         IF k = "update" THEN NewConfiguration(a, written + 1)
         ELSE written' = written /\ cfg' = [cfg EXCEPT ![a] = 0],
         gone' \subseteq Agents,
         UNCHANGED <<agents, starting, live, cut, hurt, commands, wake, limit>>
  PROVE  IInv'
<1> USE DEF commands
<1>0. /\ pc \in [Tasks -> Pcs] /\ on \in [Tasks -> Instances \cup {None}]
      /\ life \in [Instances -> {"none", "init", "idle", "terminated"}]
      /\ live \in [Instances -> SUBSET Parts]
      /\ cfg \in [Agents -> 0 .. MaxWritten] /\ written \in Versions
      /\ Ctl \in Tasks /\ Main \in Tasks /\ Ctl # Main
      /\ Agents \subseteq Tasks /\ Ctl \notin Agents /\ Main \notin Agents
  BY Constants DEF IInv, TypeOK, Pcs
<1>1. /\ pc[Main] \in {"up", "control"} /\ pc[Main] \notin StopSteps
      /\ ~hurt[Main] /\ \A b \in Agents : ~hurt[b] /\ ~cut[b]
      /\ \A b \in Agents : pc[b] # "over" => b \in starting
      /\ \A b \in Agents : pc[b] \in Ours \cup {"tell", "over"}
  BY ControlWhere
<1>2. pc[a] = "over" /\ ~hurt[Ctl] /\ change = None /\ pc[Ctl] \notin StopSteps
  BY <1>1 DEF IInv, HurtInv, ChangeInv, StopSteps
<1>3. PICK i \in Instances : i = Listed(a) /\ i[1] = a /\ i[2] = agents[a] /\ i = <<a, agents[a]>>
  BY ListedIs
<1>4. PICK s \in {"channel", "drain"} :
        /\ pc' = [pc EXCEPT ![Ctl] = s]
        /\ s = "channel" => Carrying(i) = {}
  BY <1>3 DEF StopOf, Goes
<1>5. /\ pc'[Ctl] = s /\ pc'[Main] = pc[Main] /\ s \in StopSteps
      /\ \A t \in Tasks : t # Ctl => pc'[t] = pc[t] /\ on'[t] = on[t]
      /\ \A b \in Agents : pc'[b] = pc[b] /\ on'[b] = on[b]
      /\ pc' \in [Tasks -> Pcs]
      /\ on'[Ctl] = i /\ life'[i] = "terminated"
      /\ \A j \in Instances : j # i => life'[j] = life[j]
      /\ on' \in [Tasks -> Instances \cup {None}]
      /\ life' \in [Instances -> {"none", "init", "idle", "terminated"}]
  BY <1>0, <1>3, <1>4 DEF StopOf, Terminate, StopSteps, Pcs
<1>6. /\ cfg' \in [Agents -> 0 .. MaxWritten] /\ \A b \in Agents : b # a => cfg'[b] = cfg[b]
      /\ written' \in Versions /\ written <= written'
  BY <1>0, Constants DEF NewConfiguration
<1>7. TypeOK'
  <2>1. change' \in ({"update", "remove"} \X Agents) \cup {None}
    OBVIOUS
  <2>2. QED
    BY <1>5, <1>6, <2>1 DEF IInv, TypeOK, Pcs
<1>8. StageInv'
  <2>1. pc[Main] \notin ControlOver \cup WakesOver \cup StartsOver \cup ListOver \cup {"boot", "down"}
    BY <1>1 DEF ControlOver, WakesOver, StartsOver, ListOver, StopSteps
  <2>2. \A b \in starting' : cfg'[b] # 0
    <3>1. starting \subseteq Agents /\ \A b \in starting : cfg[b] # 0
      BY DEF IInv, TypeOK, StageInv
    <3>2. QED
      BY <1>6, <3>1
  <2>3. QED
    BY <1>1, <1>5, <2>1, <2>2 DEF StageInv, MainSteps
<1>9. HurtInv'
  BY <1>1, <1>2, <1>5 DEF HurtInv
<1>10. StartInv'
  <2>1. SUFFICES ASSUME NEW b \in Agents, pc[b] \in Ours PROVE StartOf(b)'
    BY <1>5 DEF StartInv, StartOf
  <2>2. PICK j \in Instances : on[b] = j /\ j[1] = b
    BY <2>1, StartHas
  <2>3. b # a
    BY <1>2, <2>1 DEF Ours, StartSteps, Walking
  <2>4. life'[j] = life[j] /\ cfg'[b] = cfg[b] /\ StartOf(b)
    BY <1>3, <1>5, <1>6, <2>2, <2>3 DEF IInv, StartInv
  <2>5. cfg[b] <= written'
    <3>1. cfg[b] <= written /\ cfg[b] \in Nat /\ written \in Nat /\ written' \in Nat
      <4>1. cfg[b] <= written
        BY <2>1, <2>4 DEF StartOf
      <4>2. QED
        BY <1>0, <1>6, <4>1, Constants
    <3>2. QED
      BY <1>6, <3>1
  <2>6. QED
    <3>1. pc'[b] = pc[b] /\ on'[b] = on[b] /\ hurt'[b] = hurt[b] /\ live'[j] = live[j]
      BY <1>5
    <3>2. QED
      BY <2>1, <2>2, <2>4, <2>5, <3>1 DEF StartOf
<1>11. ChangeInv'
  <2>1. change' # None /\ change'[2] = a /\ change'[1] = k
    BY DEF None
  <2>2. Listed(a)' = i
    BY <1>3 DEF Listed
  <2>3. k = "update" => /\ cfg'[a] # 0 /\ cfg'[a] <= written'
                        /\ life'[<<a, cfg'[a]>>] = "none"
    <3>1. SUFFICES ASSUME k = "update"
                   PROVE cfg'[a] # 0 /\ cfg'[a] <= written' /\ life'[<<a, cfg'[a]>>] = "none"
      OBVIOUS
    <3>2. /\ cfg'[a] \in Versions /\ cfg'[a] <= written' /\ life[<<a, cfg'[a]>>] = "none"
      BY <3>1 DEF NewConfiguration
    <3>3. PICK j \in Instances : j = <<a, cfg'[a]>>
      BY <3>2, Pairs
    <3>4. j # i
      BY <1>3, <3>2, <3>3
    <3>5. QED
      BY <1>5, <3>2, <3>3, <3>4, Constants
  <2>4. QED
    BY <1>2, <1>3, <1>5, <2>1, <2>2, <2>3 DEF ChangeInv
<1>12. StopInv'
  <2>1. StopOfBy(Main)'
    BY <1>1, <1>5 DEF StopOfBy
  <2>2. StopOfBy(Ctl)'
    <3>1. live'[i] \subseteq Ahead(s)
      BY <1>0, <1>4, AheadIs
    <3>2. on'[Ctl] = i /\ agents'[i[1]] = i[2] /\ life'[i] = "terminated" /\ pc'[Ctl] = s
      BY <1>3, <1>5
    <3>3. s \notin {"drain", "gather"} => {h \in Handlers : inFlight'[h] = i} = {}
      BY <1>4 DEF Carrying
    <3>4. QED
      BY <3>1, <3>2, <3>3 DEF StopOfBy, Carrying
  <2>3. QED
    BY <2>1, <2>2, Constants DEF StopInv
<1>13. ListInv'
  <2>0. change' # None /\ change'[2] = a
    BY DEF None
  <2>1. ListedRight(a)'
    <3>1. Listed(a)' = i
      BY <1>3 DEF Listed
    <3>2. QED
      BY <1>5, <2>0, <3>1 DEF ListedRight
  <2>2. ASSUME NEW b \in Agents, b # a, agents[b] # 0 PROVE ListedRight(b)'
    <3>1. PICK j \in Instances : j = Listed(b) /\ j[1] = b
      BY <2>2, ListedIs
    <3>2. life'[j] = life[j] /\ cfg'[b] = cfg[b] /\ Listed(b)' = j /\ j = Listed(b)
      BY <1>3, <1>5, <1>6, <2>2, <3>1 DEF Listed
    <3>3. ListedRight(b)
      BY DEF IInv, ListInv
    <3>4. /\ agents[b] = cfg[b]
          /\ life[j] # "none"
          /\ life[j] = "init" => pc[b] \in Coming
          /\ life[j] = "terminated" => pc[b] \in Walking
      BY <1>1, <1>2, <2>2, <3>2, <3>3 DEF ListedRight
    <3>5. QED
      BY <1>5, <3>2, <3>4 DEF ListedRight
  <2>3. QED
    BY <2>1, <2>2 DEF ListInv, ListedRight
<1>14. LifeInv'
  <2>1. SUFFICES ASSUME NEW j \in Instances PROVE LifeOf(j)'
    BY DEF LifeInv
  <2>2. LifeOf(j) /\ j[2] \in Versions
    BY Pairs DEF IInv, LifeInv
  <2>3. j[2] > written' => j[2] > written
    BY <1>0, <1>6, <2>2, Constants
  <2>4. CASE j = i
    <3>1. StoppingOf(Ctl, j)'
      BY <1>5, <2>4 DEF StoppingOf
    <3>2. ~(j[2] > written')
      BY <1>3, <2>2, <2>3, <2>4 DEF LifeOf
    <3>3. QED
      BY <1>0, <1>5, <2>4, <3>1, <3>2 DEF LifeOf
  <2>5. CASE j # i
    <3>1. ~StoppingOf(Ctl, j) /\ \A t \in Tasks : t # Ctl => (StoppingOf(t, j)' <=> StoppingOf(t, j))
      BY <1>2, <1>5 DEF StoppingOf
    <3>2. CutShort(j) => CutShort(j)'
      BY <1>1, <1>2, Constants DEF CutShort
    <3>3. life'[j] = life[j]
      BY <1>5, <2>5
    <3>4. QED
      BY <2>2, <2>3, <3>1, <3>2, <3>3 DEF LifeOf
  <2>6. QED
    BY <2>4, <2>5
<1>15. QED
  BY <1>7, <1>8, <1>9, <1>10, <1>11, <1>12, <1>13, <1>14 DEF IInv

LEMMA ChangeKeeps ==
  ASSUME IInv, Running, NEW a \in Agents, Change(a)
  PROVE  IInv'
<1> USE DEF configuration, instances, commands
<1>0. /\ cfg \in [Agents -> 0 .. MaxWritten] /\ agents \in [Agents -> 0 .. MaxWritten]
      /\ written \in Versions /\ gone \subseteq Agents /\ cut \in [Tasks -> BOOLEAN]
      /\ pc[Ctl] = "poll"
  BY DEF IInv, TypeOK, Change, AddAgent, UpdateAgent, RemoveAgent, Asked
<1>1. ListedRight(a) /\ change = None /\ ~hurt[Ctl]
  BY <1>0 DEF IInv, ListInv, ChangeInv, HurtInv, StopSteps
<1>2. pc[a] # "over" => a \in starting
  BY <1>0, ControlWhere
<1>3. agents[a] = 0 => agents = [agents EXCEPT ![a] = 0]
  BY <1>0
<1>4. ASSUME written < MaxWritten, written' = written + 1, Write(a, written + 1)
      PROVE  NewConfiguration(a, written + 1)
  <2>1. written + 1 \in Versions /\ written + 1 \in 0 .. MaxWritten
    BY <1>0, <1>4, Constants
  <2>2. PICK i \in Instances : i = <<a, written + 1>> /\ i[2] = written + 1
    BY <2>1, Pairs
  <2>3. life[i] = "none"
    <3>1. LifeOf(i) /\ i[2] > written
      BY <1>0, <2>2, Constants DEF IInv, LifeInv
    <3>2. QED
      BY <3>1 DEF LifeOf
  <2>4. cfg' = [cfg EXCEPT ![a] = written + 1]
    BY <1>4 DEF Write
  <2>5. QED
    BY <1>0, <1>4, <2>1, <2>2, <2>3, <2>4, Constants DEF NewConfiguration
<1>5. CASE AddAgent(a)
  <2>1. agents[a] = 0
    BY <1>1, <1>5 DEF AddAgent, ListedRight
  <2>2. a \notin starting
    BY <1>5 DEF AddAgent, IInv, StageInv
  <2>3. NewConfiguration(a, written + 1)
    BY <1>4, <1>5 DEF AddAgent
  <2>4. QED
    BY <1>0, <1>1, <1>3, <1>5, <2>1, <2>2, <2>3, BringUpKeeps DEF AddAgent
<1>6. CASE UpdateAgent(a)
  <2>1. NewConfiguration(a, written + 1)
    BY <1>4, <1>6 DEF UpdateAgent
  <2>2. CASE agents[a] = 0
    BY <1>0, <1>1, <1>3, <1>6, <2>1, <2>2, BringUpKeeps DEF UpdateAgent, Settled
  <2>3. CASE agents[a] # 0
    BY <1>0, <1>6, <2>1, <2>3, ChangeStops DEF UpdateAgent, Settled, Up
  <2>4. QED
    BY <2>2, <2>3
<1>7. CASE RemoveAgent(a)
  <2>1. gone' \subseteq Agents /\ cfg' = [cfg EXCEPT ![a] = 0] /\ a \notin starting
    BY <1>0, <1>7 DEF RemoveAgent, Settled, Write
  <2>2. CASE agents[a] = 0
    <3>1. cfg' \in [Agents -> 0 .. MaxWritten] /\ \A b \in Agents : b # a => cfg'[b] = cfg[b]
      BY <1>0, <2>1, Constants
    <3>2. pc[a] = "over"
      BY <1>2, <2>1
    <3>3. ControlGoes(a, "tell")
      BY <1>0, <1>1, <1>7, <2>1, <2>2, <3>1, <3>2 DEF RemoveAgent, ControlGoes
    <3>4. QED
      BY <3>3, ControlGoesOn
  <2>3. CASE agents[a] # 0
    <3>1. /\ life[Listed(a)] = "idle" /\ StopOf(Ctl, Listed(a)) /\ change' = <<"remove", a>>
          /\ written' = written
          /\ UNCHANGED <<agents, starting, live, cut, hurt, commands, wake, limit>>
      BY <1>7, <2>3 DEF RemoveAgent, Settled, Up
    <3>2. "remove" \in {"update", "remove"} /\ "remove" # "update"
      OBVIOUS
    <3>3. QED
      BY <1>0, <2>1, <2>3, <3>1, <3>2, ChangeStops
  <2>4. QED
    BY <2>2, <2>3
<1>8. QED
  BY <1>5, <1>6, <1>7 DEF Change

LEMMA ControlKeeps ==
  ASSUME IInv, Running, ControlStep
  PROVE  IInv'
<1> USE DEF configuration, instances, commands
<1>0. /\ cfg \in [Agents -> 0 .. MaxWritten] /\ agents \in [Agents -> 0 .. MaxWritten]
      /\ written \in Versions /\ gone \subseteq Agents /\ cut \in [Tasks -> BOOLEAN]
      /\ change \in ({"update", "remove"} \X Agents) \cup {None}
  BY DEF IInv, TypeOK
<1>1. pc[Ctl] \in {"poll", "tell"} => ~hurt[Ctl] /\ change = None
  BY DEF IInv, HurtInv, ChangeInv, StopSteps
<1>2. CASE ChangeStopped
  <2>1. PICK a \in Agents : /\ change # None /\ change[2] = a /\ pc[a] = "over" /\ agents[a] # 0
                            /\ pc[Ctl] = "stopped" /\ change[1] \in {"update", "remove"}
    <3>1. pc[Ctl] = "stopped" /\ pc[Ctl] \in StopSteps
      BY <1>2 DEF ChangeStopped, StopSteps
    <3>2. change # None /\ change[2] \in Agents /\ pc[change[2]] = "over" /\ agents[change[2]] # 0
      BY <3>1, ControlStopIs
    <3>3. change[1] \in {"update", "remove"}
      BY <1>0, <3>2
    <3>4. QED
      BY <3>1, <3>2, <3>3
  <2>2. /\ agents' = [agents EXCEPT ![a] = 0] /\ change' = None
        /\ UNCHANGED <<configuration, instances, cut, commands, wake, limit>>
    BY <1>2, <2>1 DEF ChangeStopped, Unlist
  <2>3. /\ agents' \in [Agents -> 0 .. MaxWritten] /\ agents'[a] = 0
        /\ \A b \in Agents : b # a => agents'[b] = agents[b]
    BY <1>0, <2>2, Constants
  <2>4. CASE hurt[Ctl]
    <3>1. Goes(Ctl, "over") /\ UNCHANGED <<starting, on, hurt>>
      BY <1>2, <2>4 DEF ChangeStopped
    <3>2. ControlGoes(a, "over")
      BY <1>0, <2>1, <2>2, <2>3, <3>1 DEF ControlGoes
    <3>3. QED
      BY <3>2, ControlGoesOn
  <2>5. CASE ~hurt[Ctl] /\ change[1] = "update"
    <3>1. BringUp(a, cfg[a])
      BY <1>2, <2>1, <2>5 DEF ChangeStopped
    <3>2. cfg[a] # 0 /\ cfg[a] <= written /\ life[<<a, cfg[a]>>] = "none"
      BY <2>1, <2>5 DEF IInv, ChangeInv
    <3>3. NewConfiguration(a, cfg[a])
      BY <1>0, <2>2, <3>2, Constants DEF NewConfiguration
    <3>4. QED
      BY <2>1, <2>2, <2>5, <3>1, <3>3, BringUpKeeps
  <2>6. CASE ~hurt[Ctl] /\ change[1] = "remove"
    <3>1. Goes(Ctl, "tell") /\ UNCHANGED <<starting, on, hurt>>
      BY <1>2, <2>1, <2>6 DEF ChangeStopped
    <3>2. ControlGoes(a, "tell")
      BY <1>0, <2>1, <2>2, <2>3, <2>6, <3>1 DEF ControlGoes
    <3>3. QED
      BY <3>2, ControlGoesOn
  <2>7. QED
    BY <2>1, <2>4, <2>5, <2>6
<1>3. CASE ChangeTold
  <2>1. ControlGoes(None, "poll")
    BY <1>0, <1>1, <1>3 DEF ChangeTold, ControlGoes
  <2>2. QED
    BY <2>1, ControlGoesOn
<1>4. CASE ControlCut
  <2>1. cut' \in [Tasks -> BOOLEAN] /\ \A b \in Agents : cut'[b] = cut[b]
    BY <1>0, <1>4, Constants DEF ControlCut
  <2>2. ControlGoes(None, "over")
    BY <1>0, <1>1, <1>4, <2>1 DEF ControlCut, ControlGoes
  <2>3. QED
    BY <2>2, ControlGoesOn
<1>5. QED
  BY <1>2, <1>3, <1>4 DEF ControlStep

-----------------------------------------------------------------------------
LEMMA StepInv == IInv /\ [Next]_vars => IInv'
<1> SUFFICES ASSUME IInv, [Next]_vars PROVE IInv'
  OBVIOUS
<1>1. ASSUME NEW t \in Tasks, StopStep(t) PROVE IInv'
  BY <1>1, StopStepKeeps
<1>2. ASSUME Running, NEW a \in Agents, StartStep(a) PROVE IInv'
  BY <1>2, StartStepKeeps
<1>3. ASSUME Running, NEW a \in Agents, Change(a) PROVE IInv'
  BY <1>3, ChangeKeeps
<1>4. ASSUME Running, ControlStep PROVE IInv'
  BY <1>4, ControlKeeps
<1>5. ASSUME NodeStep PROVE IInv'
  BY <1>5, ReadyKeeps, NodeGoes, StopNextKeeps, AgentsStoppedKeeps DEF NodeStep
<1>6. ASSUME StopNode PROVE IInv'
  BY <1>6, NodeGoes
<1>7. ASSUME LimitPasses \/ UNCHANGED vars PROVE IInv'
  BY <1>7, LimitKeeps
<1>8. ASSUME Traffic PROVE IInv'
  BY <1>8, TrafficIs, TrafficKeeps
<1>9. QED
  BY <1>1, <1>2, <1>3, <1>4, <1>5, <1>6, <1>7, <1>8 DEF Next

(* Who has the channel of an instance that was not let go *)
LEMMA ChannelHeld ==
  ASSUME IInv, NEW i \in Instances, "channel" \in live[i]
  PROVE  \/ agents[i[1]] = i[2]
         \/ i = on[Ctl] /\ agents[i[1]] = 0
<1>1. LifeOf(i) /\ life[i] \in {"none", "init", "idle", "terminated"}
  BY DEF IInv, LifeInv, TypeOK
<1>2. CASE life[i] # "terminated"
  BY <1>1, <1>2 DEF LifeOf
<1>3. ASSUME NEW t \in Tasks, StoppingOf(t, i) PROVE agents[i[1]] = i[2]
  <2>1. CASE t \in Agents
    <3>1. pc[t] \in Ours /\ pc[t] # "load"
      BY <1>3, <2>1, Steps DEF StoppingOf, IInv, StageInv
    <3>2. QED
      BY <1>3, <2>1, <3>1, StartHas DEF StoppingOf
  <2>2. CASE t \in Stoppers
    BY <1>3, <2>2 DEF StoppingOf, IInv, StopInv, StopOfBy
  <2>3. QED
    BY <2>1, <2>2, Constants
<1>4. ASSUME NEW t \in Stoppers, on[t] = i, hurt[t]
      PROVE  agents[i[1]] = i[2] \/ (i = on[Ctl] /\ agents[i[1]] = 0)
  <2>1. CASE t = Main
    BY <1>4, <2>1 DEF IInv, HurtInv
  <2>2. CASE t = Ctl
    <3>1. pc[Ctl] \in StopSteps \/ pc[Ctl] = "over"
      BY <1>4, <2>2 DEF IInv, HurtInv, StageInv
    <3>2. pc[Ctl] \in StopSteps => StoppingOf(Ctl, i)
      BY <1>4, <2>2 DEF StoppingOf
    <3>3. pc[Ctl] = "over" => agents[i[1]] = 0
      BY <1>4, <2>2 DEF IInv, HurtInv
    <3>4. QED
      BY <1>3, <1>4, <2>2, <3>1, <3>2, <3>3, Constants
  <2>3. QED
    BY <2>1, <2>2, Constants
<1>5. QED
  BY <1>1, <1>2, <1>3, <1>4 DEF LifeOf, CutShort

LEMMA InvSeen == IInv => NothingRunsUnseen
<1> SUFFICES ASSUME IInv PROVE NothingRunsUnseen
  OBVIOUS
<1>1. ASSUME NEW i \in Instances, live[i] # {}
      PROVE  \/ agents[i[1]] = i[2]
             \/ \E t \in Tasks : StoppingOf(t, i)
             \/ CutShort(i)
             \/ live[i] = {"worker"}
  <2>1. LifeOf(i) /\ life[i] \in {"none", "init", "idle", "terminated"}
    BY DEF IInv, LifeInv, TypeOK
  <2>2. live[i] \subseteq {"worker"} => live[i] = {"worker"}
    BY <1>1
  <2>3. QED
    BY <1>1, <2>1, <2>2 DEF LifeOf
<1>2. ASSUME NEW i \in Instances, NEW j \in Instances, i[1] = j[1], i # j,
             "channel" \in live[i], "channel" \in live[j]
      PROVE  FALSE
  <2>1. /\ i[2] # 0 /\ j[2] # 0 /\ i[2] # j[2]
    <3>1. i[2] \in Versions /\ j[2] \in Versions /\ i = <<i[1], i[2]>> /\ j = <<j[1], j[2]>>
      BY Pairs
    <3>2. i[2] # j[2]
      BY <1>2, <3>1
    <3>3. QED
      BY <3>1, <3>2, Constants
  <2>2. /\ agents[i[1]] = i[2] \/ (i = on[Ctl] /\ agents[i[1]] = 0)
        /\ agents[j[1]] = j[2] \/ (j = on[Ctl] /\ agents[j[1]] = 0)
    BY <1>2, ChannelHeld
  <2>3. QED
    BY <1>2, <2>1, <2>2
<1>3. QED
  BY <1>1, <1>2 DEF NothingRunsUnseen

LEMMA InvConfigured == IInv => RunsWhatIsConfigured
<1> SUFFICES ASSUME IInv, Accepting, NEW a \in Agents, a \notin starting,
                    change = None \/ change[2] # a, agents[a] # 0
             PROVE  Up(a) /\ agents[a] = cfg[a]
  BY DEF RunsWhatIsConfigured, IInv
<1>1. pc[Main] = "up" /\ pc[a] = "over"
  BY DEF Accepting, IInv, StageInv
<1>2. /\ agents[a] = cfg[a] /\ life[Listed(a)] \notin {"none", "init", "terminated"}
  BY <1>1 DEF IInv, ListInv, ListedRight, Coming, Walking, StopSteps
<1>3. life[Listed(a)] \in {"none", "init", "idle", "terminated"}
  BY ListedIs DEF IInv, TypeOK
<1>4. QED
  BY <1>2, <1>3 DEF Up

LEMMA InvOrder == IInv => GoesDownInOrder
<1> SUFFICES ASSUME IInv PROVE GoesDownInOrder
  OBVIOUS
<1>1. ASSUME NEW t \in Stoppers, NEW a \in Agents, StoppingOf(t, on[t]), StartingOf(a, on[t])
      PROVE  FALSE
  <2>1. life[on[t]] = "terminated"
    BY <1>1 DEF StoppingOf, IInv, StopInv, StopOfBy
  <2>2. pc[a] \in Ours /\ on[a] = on[t] /\ (pc[a] = "load" \/ pc[a] \in Coming)
    BY <1>1, Steps DEF StartingOf, Ours
  <2>3. life[on[a]] \in {"none", "init"}
    BY <2>2 DEF IInv, StartInv, StartOf
  <2>4. QED
    BY <2>1, <2>2, <2>3
<1>2. ASSUME NEW h \in Handlers, NEW t \in Tasks, StoppingOf(t, inFlight[h]),
             pc[t] \notin {"drain", "gather"}, ~hurt[t]
      PROVE  FALSE
  <2>1. CASE t \in Stoppers
    <3>1. Carrying(on[t]) = {} /\ on[t] = inFlight[h]
      BY <1>2, <2>1 DEF StoppingOf, IInv, StopInv, StopOfBy
    <3>2. QED
      BY <3>1 DEF Carrying
  <2>2. CASE t \in Agents
    <3>1. pc[t] \in Ours
      BY <1>2, <2>2, Steps DEF StoppingOf, IInv, StageInv
    <3>2. QED
      BY <1>2, <2>2, <3>1 DEF StoppingOf, IInv, StartInv, StartOf
  <2>3. QED
    BY <2>1, <2>2, Constants
<1>3. ASSUME pc[Main] = "down"
      PROVE  /\ \A h \in Handlers : inFlight[h] = None
             /\ wake = None
             /\ \A t \in Tasks \ {Main} : pc[t] = "over"
             /\ \A i \in Instances : live[i] \subseteq {"worker"} \/ CutShort(i)
  <2>1. /\ \A h \in Handlers : inFlight[h] = None
        /\ wake = None /\ pc[Ctl] = "over"
        /\ \A a \in Agents : pc[a] = "over" /\ agents[a] = 0
    BY <1>3 DEF IInv, StageInv, ControlOver, WakesOver, StartsOver, ListOver
  <2>2. \A t \in Tasks \ {Main} : pc[t] = "over"
    BY <2>1, Constants
  <2>3. \A t \in Tasks : pc[t] \notin StopSteps
    BY <1>3, <2>2 DEF StopSteps
  <2>4. ASSUME NEW i \in Instances PROVE live[i] \subseteq {"worker"} \/ CutShort(i)
    <3>1. LifeOf(i) /\ life[i] \in {"none", "init", "idle", "terminated"}
      BY DEF IInv, LifeInv, TypeOK
    <3>2. agents[i[1]] # i[2]
      BY <2>1, Pairs, Constants
    <3>3. \A t \in Tasks : ~StoppingOf(t, i)
      BY <2>3 DEF StoppingOf
    <3>4. QED
      BY <3>1, <3>2, <3>3 DEF LifeOf
  <2>5. QED
    BY <2>1, <2>2, <2>4
<1>4. QED
  BY <1>1, <1>2, <1>3 DEF GoesDownInOrder

-----------------------------------------------------------------------------
LEMMA Invariant == Spec => []IInv
<1>1. Init => IInv
  BY InitInv
<1>2. IInv /\ [Next]_vars => IInv'
  BY StepInv
<1>3. QED
  BY <1>1, <1>2, PTL DEF Spec

(***************************************************************************)
(* However many agents a node has, however often its configuration is      *)
(* written, and wherever a start, a stop or the node's own task is         *)
(* cancelled: what runs is listed, being started or stopped, was left by a *)
(* cancelled stop, or is a late wake's worker; and of the instances of one *)
(* agent at most one has its channel up.                                   *)
(***************************************************************************)
THEOREM NothingIsLost == Spec => []NothingRunsUnseen
<1>1. IInv => NothingRunsUnseen
  BY InvSeen
<1>2. QED
  BY Invariant, <1>1, PTL

(***************************************************************************)
(* While requests are taken, an agent that is not being started or changed *)
(* runs from the configuration in force, or does not run at all.           *)
(***************************************************************************)
THEOREM ConfigurationRuns == Spec => []RunsWhatIsConfigured
<1>1. IInv => RunsWhatIsConfigured
  BY InvConfigured
<1>2. QED
  BY Invariant, <1>1, PTL

(***************************************************************************)
(* A node goes down in order: no stop meets a start of the same instance,  *)
(* no channel is taken down under a command unless the drain was           *)
(* cancelled, and once the storage is closed nothing is left that uses it. *)
(***************************************************************************)
THEOREM NodeGoesDown == Spec => []GoesDownInOrder
<1>1. IInv => GoesDownInOrder
  BY InvOrder
<1>2. QED
  BY Invariant, <1>1, PTL

-----------------------------------------------------------------------------
(***************************************************************************)
(* FleetControl, for any number of askers, requests and                    *)
(* restarts.  The invariants are inductive in three layers: what the       *)
(* server keeps, what the node runs, and, given that a restarted server's  *)
(* clock is past the ids it gave out, how the ids of both sides compare.   *)
(***************************************************************************)

(* What the server keeps: whatever it hands out or lets someone wait for    *)
(* was asked, under an id it has given out.                                 *)
Numbered ==
    /\ \A id \in Ids : asks[id].request # Nothing => id <= lastId
    /\ \A id \in table : asks[id].request # Nothing
    /\ \A a \in Askers : asker[a] <= lastId

ServerInv == Numbered /\ NothingKept /\ NoAskerStranded

(* What the node runs: the batch lies past the offset, one update per id,   *)
(* and what was run is behind the offset or is the next of the batch.       *)
Past == \A u \in todo : u.id > offset
OneEach == \A u, v \in todo : u.id = v.id => u = v
RunSoFar ==
    /\ ran => \E u \in todo : IsNext(u)
    /\ \A u \in todo : ran /\ IsNext(u) => runs[u.id] > 0
    /\ \A id \in Ids : runs[id] > 0 =>
          id <= offset \/ (ran /\ \E u \in todo : IsNext(u) /\ u.id = id)

NodeInv == Past /\ OneEach /\ RunSoFar /\ RunOnce

(* How the two compare: an id of an earlier life of the server is behind    *)
(* its clock, an update of this life still fits what was asked, and the     *)
(* batch leaves out nothing that it goes past.                              *)
Given(id) == id <= lastId \/ id < clock
Fits(u) == asks[u.id].request = u.request \/ (asks[u.id].request = Nothing /\ u.id < clock)
NoneSkipped ==
    \A id \in table : \A u \in todo :
        id > offset /\ id <= u.id => \E v \in todo : v.id = id

AcrossInv ==
    /\ Given(offset)
    /\ \A u \in todo \cup outbox : Given(u.id) /\ Fits(u)
    /\ NoneSkipped
    /\ RightAnswer
    /\ AheadOfOffset

ControlIInv == ControlTypeOK /\ ServerInv /\ NodeInv /\ AcrossInv

-----------------------------------------------------------------------------
(* Types *)

LEMMA TypeInit == ControlInit => ControlTypeOK
<1> SUFFICES ASSUME ControlInit PROVE ControlTypeOK
    OBVIOUS
<1>1. NoAsk \in AskedRecord
    BY DEF NoAsk, AskedRecord
<1>2. asks \in [Ids -> AskedRecord]
    BY <1>1 DEF ControlInit
<1>3. inflight \in [Requests -> Ids \cup {Nothing}] /\ asker \in [Askers -> Ids \cup {Nothing}]
    BY DEF ControlInit
<1>4. runs \in [Ids -> Nat]
    BY DEF ControlInit
<1>5. clock \in 1 .. MaxClock /\ lastId \in 0 .. MaxId /\ offset \in 0 .. MaxId
      /\ serverStops \in 0 .. MaxServerStops /\ nodeStops \in 0 .. MaxNodeStops
    BY BoundsAssumption DEF ControlInit
<1> QED
    BY <1>2, <1>3, <1>4, <1>5 DEF ControlInit, ControlTypeOK

LEMMA TypeStep == ControlTypeOK /\ ServerInv /\ [ControlNext]_controlVars => ControlTypeOK'
<1> SUFFICES ASSUME ControlTypeOK, ServerInv, [ControlNext]_controlVars PROVE ControlTypeOK'
    OBVIOUS
<1> USE BoundsAssumption, RequestsAssumption DEF ControlTypeOK, Ids, AskedRecord, Nothing, Update
<1>1. CASE Elapse
    BY <1>1 DEF Elapse, server, node, stops
<1>2. ASSUME NEW a \in Askers, NEW r \in Requests, Join(a, r) PROVE ControlTypeOK'
    <2>1. inflight[r] \in Ids
        BY <1>2 DEF Join
    <2>2. \A x \in AskedRecord : [x EXCEPT !.waiters = @ \cup {a}] \in AskedRecord
        OBVIOUS
    <2>3. asks' \in [Ids -> AskedRecord]
        BY <1>2, <2>1, <2>2 DEF Join
    <2> QED BY <1>2, <2>1, <2>3 DEF Join, node, stops
<1>3. ASSUME NEW a \in Askers, NEW r \in Requests, Ask(a, r) PROVE ControlTypeOK'
    BY <1>3 DEF Ask, NextId, node, stops
<1>4. ASSUME NEW a \in Askers, GiveUp(a) PROVE ControlTypeOK'
    <2> DEFINE id == asker[a]
    <2>1. id \in Ids
        BY <1>4 DEF GiveUp
    <2>2. \A x \in AskedRecord : [x EXCEPT !.waiters = @ \ {a}] \in AskedRecord
        OBVIOUS
    <2>3. asks' \in [Ids -> AskedRecord]
        BY <1>4, <2>1, <2>2 DEF GiveUp, Leaves
    <2>4. table' \subseteq Ids /\ inflight' \in [Requests -> Ids \cup {Nothing}]
        BY <1>4 DEF GiveUp, Forget
    <2>5. asker' \in [Askers -> Ids \cup {Nothing}]
        BY <1>4 DEF GiveUp
    <2> QED BY <1>4, <2>3, <2>4, <2>5 DEF GiveUp, node, stops
<1>5. ASSUME NEW a \in Askers, TakeAnswer(a) PROVE ControlTypeOK'
    <2> DEFINE id == asker[a]
    <2>1. id \in Ids
        BY <1>5 DEF TakeAnswer
    <2>2. \A x \in AskedRecord : [x EXCEPT !.waiters = @ \ {a}] \in AskedRecord
        OBVIOUS
    <2>3. asks' \in [Ids -> AskedRecord]
        BY <1>5, <2>1, <2>2 DEF TakeAnswer, Leaves
    <2>4. asker' \in [Askers -> Ids \cup {Nothing}]
        BY <1>5 DEF TakeAnswer
    <2> QED BY <1>5, <2>3, <2>4 DEF TakeAnswer, node, stops
<1>6. ASSUME NEW id \in Ids, ForgetAnswered(id) PROVE ControlTypeOK'
    BY <1>6 DEF ForgetAnswered, Forget, node, stops
<1>7. CASE ServerRestart
    BY <1>7 DEF ServerRestart, NoAsk, node
<1>8. CASE Poll
    <2>1. \A i \in Pending(offset) : i \in Ids /\ asks[i].request \in Requests
        BY DEF Pending, ServerInv, Numbered
    <2>2. todo' \subseteq Update
        BY <1>8, <2>1 DEF Poll
    <2> QED BY <1>8, <2>2 DEF Poll, server, stops
<1>9. ASSUME NEW u \in todo, Run(u) PROVE ControlTypeOK'
    BY <1>9 DEF Run, IsNext, server, stops
<1>10. ASSUME NEW u \in todo, Answer(u) PROVE ControlTypeOK'
    <2>1. u \in Update
        OBVIOUS
    <2>2. outbox' \subseteq Update /\ todo' \subseteq Update
        BY <1>10, <2>1 DEF Answer
    <2>3. offset' \in 0 .. MaxId
        BY <1>10, <2>1 DEF Answer, OffsetAfter
    <2> QED BY <1>10, <2>2, <2>3 DEF Answer, server, stops
<1>11. ASSUME NEW u \in outbox, Report(u) PROVE ControlTypeOK'
    <2>1. u.id \in Ids /\ u.request \in Requests
        BY <1>11
    <2>2. \A x \in AskedRecord : [x EXCEPT !.answer = u.request] \in AskedRecord
        BY <2>1
    <2>3. asks' \in [Ids -> AskedRecord]
        BY <1>11, <2>1, <2>2 DEF Report
    <2> QED BY <1>11, <2>3 DEF Report, stops
<1>12. ASSUME NEW u \in outbox, Lose(u) PROVE ControlTypeOK'
    BY <1>12 DEF Lose, server, stops
<1>13. CASE NodeRestart
    <2>1. runs' \in [Ids -> Nat]
        BY <1>13 DEF NodeRestart
    <2>2. offset' \in 0 .. MaxId /\ nodeStops' \in 0 .. MaxNodeStops
        BY <1>13 DEF NodeRestart
    <2> QED BY <1>13, <2>1, <2>2 DEF NodeRestart, server
<1>14. CASE UNCHANGED controlVars
    BY <1>14 DEF controlVars, server, node, stops
<1> QED
    BY <1>1, <1>2, <1>3, <1>4, <1>5, <1>6, <1>7, <1>8, <1>9, <1>10, <1>11, <1>12,
       <1>13, <1>14 DEF ControlNext, Node

-----------------------------------------------------------------------------
(* What the server keeps *)

LEMMA ServerInit == ControlInit => ServerInv
BY DEF ControlInit, ServerInv, Numbered, NothingKept, NoAskerStranded, NoAsk, Nothing, Ids

(* An id is new: past all that were given out, and not behind the clock *)
LEMMA NewId ==
    ASSUME ControlTypeOK
    PROVE  NextId(lastId) \in Nat /\ NextId(lastId) > lastId /\ NextId(lastId) >= clock
BY BoundsAssumption DEF ControlTypeOK, NextId

LEMMA ServerStep == ControlTypeOK /\ ControlTypeOK' /\ ServerInv /\ [ControlNext]_controlVars => ServerInv'
<1> SUFFICES ASSUME ControlTypeOK, ControlTypeOK', ServerInv, [ControlNext]_controlVars PROVE ServerInv'
    OBVIOUS
<1> USE RequestsAssumption
    DEF ControlTypeOK, ServerInv, Numbered, NothingKept, NoAskerStranded, Ids, AskedRecord, Nothing
<1>1. CASE Elapse
    BY <1>1 DEF Elapse, server, node, stops
<1>2. ASSUME NEW a \in Askers, NEW r \in Requests, Join(a, r) PROVE ServerInv'
    BY <1>2 DEF Join, node, stops
<1>3. ASSUME NEW a \in Askers, NEW r \in Requests, Ask(a, r) PROVE ServerInv'
    <2> DEFINE id == NextId(lastId)
    <2>1. id \in Ids /\ id > lastId
        BY <1>3, NewId DEF Ask
    <2>2. /\ lastId' = id
          /\ table' = table \cup {id}
          /\ asks' = [asks EXCEPT ![id] = [request |-> r, answer |-> 0, waiters |-> {a}]]
          /\ inflight' = [inflight EXCEPT ![r] = id]
          /\ asker' = [asker EXCEPT ![a] = id]
        BY <1>3 DEF Ask
    <2> HIDE DEF id
    <2>3. asks'[id] = [request |-> r, answer |-> 0, waiters |-> {a}]
          /\ \A i \in Ids \ {id} : asks'[i] = asks[i]
        BY <2>1, <2>2
    <2>9. \A i \in table : i \in Ids /\ i < id
        BY <2>1
    <2>4. Numbered'
        <3>1. ASSUME NEW i \in Ids, asks'[i].request # Nothing PROVE i <= lastId'
            <4>1. CASE i = id
                BY <4>1, <2>1, <2>2
            <4>2. CASE i # id
                <5>1. i \in Ids /\ asks[i].request # Nothing
                    BY <4>2, <3>1, <2>3
                <5>2. i <= lastId
                    BY <5>1
                <5>3. lastId \in Nat /\ id \in Nat /\ i \in Nat
                    BY <2>1
                <5> QED BY <5>2, <5>3, <2>1, <2>2
            <4> QED BY <4>1, <4>2
        <3>2. ASSUME NEW i \in table' PROVE asks'[i].request # Nothing
            <4>1. CASE i = id
                BY <4>1, <2>3
            <4>2. CASE i # id
                <5>1. i \in table /\ i \in Ids
                    BY <4>2, <2>2, <2>9
                <5>2. asks[i].request # Nothing /\ asks'[i] = asks[i]
                    BY <4>2, <5>1, <2>3
                <5> QED BY <5>2
            <4> QED BY <4>1, <4>2
        <3>3. ASSUME NEW b \in Askers PROVE asker'[b] <= lastId'
            BY <2>1, <2>2
        <3> QED BY <3>1, <3>2, <3>3
    <2>5. NothingKept'
        <3>1. ASSUME NEW i \in table' PROVE asks'[i].waiters # {} \/ asks'[i].answer # Nothing
            <4>1. CASE i = id
                BY <4>1, <2>3
            <4>2. CASE i # id
                BY <4>2, <2>2, <2>3, <2>9
            <4> QED BY <4>1, <4>2
        <3>2. ASSUME NEW q \in Requests, inflight'[q] # Nothing
              PROVE  inflight'[q] \in table' /\ asks'[inflight'[q]].request = q
            <4>1. CASE q = r
                BY <4>1, <2>1, <2>2, <2>3
            <4>2. CASE q # r
                BY <4>2, <3>2, <2>1, <2>2, <2>3, <2>9
            <4> QED BY <4>1, <4>2
        <3> QED BY <3>1, <3>2
    <2>6. NoAskerStranded'
        <3> SUFFICES ASSUME NEW b \in Askers, asker'[b] # Nothing
                     PROVE  /\ b \in asks'[asker'[b]].waiters
                            /\ asker'[b] \in table' \/ asks'[asker'[b]].answer # Nothing
            OBVIOUS
        <3>1. CASE b = a
            BY <3>1, <2>2, <2>3
        <3>2. CASE b # a
            <4>1. asker'[b] = asker[b] /\ asker[b] \in Ids /\ asker[b] <= lastId
                BY <3>2, <2>2
            <4>2. asker[b] # id
                BY <4>1, <2>1
            <4>3. asks'[asker[b]] = asks[asker[b]]
                BY <4>1, <4>2, <2>3
            <4> QED BY <4>1, <4>3, <2>2
        <3> QED BY <3>1, <3>2
    <2> QED BY <2>4, <2>5, <2>6
<1>4. ASSUME NEW a \in Askers, GiveUp(a) PROVE ServerInv'
    BY <1>4 DEF GiveUp, Leaves, LastToLeave, Forget, node, stops
<1>5. ASSUME NEW a \in Askers, TakeAnswer(a) PROVE ServerInv'
    BY <1>5 DEF TakeAnswer, Leaves, node, stops
<1>6. ASSUME NEW id \in Ids, ForgetAnswered(id) PROVE ServerInv'
    BY <1>6 DEF ForgetAnswered, Forget, node, stops
<1>7. CASE ServerRestart
    BY <1>7 DEF ServerRestart, NoAsk, node
<1>8. CASE Poll
    BY <1>8 DEF Poll, server, stops
<1>9. ASSUME NEW u \in todo, Run(u) PROVE ServerInv'
    BY <1>9 DEF Run, server, stops
<1>10. ASSUME NEW u \in todo, Answer(u) PROVE ServerInv'
    BY <1>10 DEF Answer, server, stops
<1>11. ASSUME NEW u \in outbox, Report(u) PROVE ServerInv'
    BY <1>11 DEF Report, Answerable, Update, stops
<1>12. ASSUME NEW u \in outbox, Lose(u) PROVE ServerInv'
    BY <1>12 DEF Lose, server, stops
<1>13. CASE NodeRestart
    BY <1>13 DEF NodeRestart, server
<1>14. CASE UNCHANGED controlVars
    BY <1>14 DEF controlVars, server, node, stops
<1> QED
    BY <1>1, <1>2, <1>3, <1>4, <1>5, <1>6, <1>7, <1>8, <1>9, <1>10, <1>11, <1>12,
       <1>13, <1>14 DEF ControlNext, Node

(* Every variable keeps its type, for any number of askers, requests and    *)
(* restarts.                                                                *)
THEOREM TypeCorrect == ControlSpec => []ControlTypeOK
BY TypeInit, TypeStep, ServerInit, ServerStep, PTL DEF ControlSpec

(* Nothing is kept that nobody waits for, and what new askers join is there *)
(* to be handed out, whatever gives up, answers or restarts meanwhile.      *)
THEOREM NothingLeftOver == ControlSpec => []NothingKept
BY TypeInit, TypeStep, ServerInit, ServerStep, PTL DEF ControlSpec, ServerInv

(* No asker waits for a request that has been forgotten under it. *)
THEOREM AskersServed == ControlSpec => []NoAskerStranded
BY TypeInit, TypeStep, ServerInit, ServerStep, PTL DEF ControlSpec, ServerInv

-----------------------------------------------------------------------------
(* What the node runs *)

LEMMA NodeInit == ControlInit => NodeInv
BY DEF ControlInit, NodeInv, Past, OneEach, RunSoFar, RunOnce, Ids

LEMMA PollerStep == ControlTypeOK /\ NodeInv /\ [ControlNext]_controlVars => NodeInv'
<1> SUFFICES ASSUME ControlTypeOK, NodeInv, [ControlNext]_controlVars PROVE NodeInv'
    OBVIOUS
<1> USE DEF ControlTypeOK, NodeInv, Past, OneEach, RunSoFar, RunOnce, IsNext, Ids, Update
<1>1. CASE UNCHANGED <<offset, todo, ran, runs>>
    BY <1>1
<1>2. CASE Poll
    <2>1. ~ ran /\ ran' = ran /\ offset' = offset /\ runs' = runs
        BY <1>2 DEF Poll
    <2>2. todo' = {[id |-> i, request |-> asks[i].request] : i \in Pending(offset)}
        BY <1>2 DEF Poll
    <2>3. \A i \in Pending(offset) : i > offset
        BY DEF Pending
    <2>4. Past' /\ OneEach'
        BY <2>1, <2>2, <2>3
    <2> QED BY <2>1, <2>4
<1>3. ASSUME NEW u \in todo, Run(u) PROVE NodeInv'
    <2>1. offset' = offset /\ todo' = todo /\ ran' = TRUE /\ ran = FALSE
          /\ runs' = [runs EXCEPT ![u.id] = @ + 1]
        BY <1>3 DEF Run
    <2>2. runs[u.id] = 0
        BY <2>1
    <2> QED BY <1>3, <2>1, <2>2 DEF Run
<1>4. ASSUME NEW u \in todo, Answer(u) PROVE NodeInv'
    <2>1. offset' = u.id /\ todo' = todo \ {u} /\ ran' = FALSE /\ ran /\ runs' = runs
        BY <1>4 DEF Answer, OffsetAfter
    <2>2. \A v \in todo \ {u} : v.id > u.id
        BY <1>4 DEF Answer
    <2>3. \A id \in Ids : runs[id] > 0 => id <= u.id
        BY <1>4 DEF Answer
    <2> QED BY <2>1, <2>2, <2>3
<1>5. CASE NodeRestart
    BY <1>5 DEF NodeRestart
<1>6. Elapse \/ ServerRestart \/ UNCHANGED controlVars
      \/ (\E a \in Askers : (\E r \in Requests : Join(a, r) \/ Ask(a, r))
                            \/ GiveUp(a) \/ TakeAnswer(a))
      \/ (\E id \in Ids : ForgetAnswered(id))
      \/ (\E u \in outbox : Report(u) \/ Lose(u))
      => UNCHANGED <<offset, todo, ran, runs>>
    BY DEF Elapse, ServerRestart, controlVars, node, Join, Ask, GiveUp, TakeAnswer,
           ForgetAnswered, Report, Lose
<1> QED
    BY <1>1, <1>2, <1>3, <1>4, <1>5, <1>6 DEF ControlNext, Node

(* No request runs twice in one life of a node, however often its answer is *)
(* lost, its asker gives up or the server restarts.                         *)
THEOREM RunsOnce == ControlSpec => []RunOnce
BY TypeInit, TypeStep, ServerInit, ServerStep, NodeInit, PollerStep, PTL DEF ControlSpec, NodeInv

-----------------------------------------------------------------------------
(* How the two compare *)

(* A poll leaves out nothing older than what it hands over *)
LEMMA PendingLow ==
    ASSUME table \subseteq Ids, NEW after \in Int, NEW i \in Pending(after),
           NEW j \in table, j > after, j <= i
    PROVE  j \in Pending(after)
<1> DEFINE Older(k) == {l \in table : l > after /\ l < k}
<1>1. table \subseteq 1 .. MaxId /\ MaxId \in Int
    BY BoundsAssumption DEF Ids
<1>2. IsFiniteSet(table)
    <2>1. IsFiniteSet(1 .. MaxId)
        BY <1>1, FS_Interval
    <2> QED BY <1>1, <2>1, FS_Subset
<1>3. Older(j) \subseteq Older(i)
    <2>1. i \in Int /\ j \in Int
        BY <1>1 DEF Pending
    <2>2. ASSUME NEW l \in Older(j) PROVE l \in Older(i)
        <3>1. l \in table /\ l \in Int /\ l > after /\ l < j
            BY <1>1
        <3> QED BY <2>1, <3>1
    <2> QED BY <2>2
<1>4. IsFiniteSet(Older(i))
    BY <1>2, FS_Subset
<1>5. Cardinality(Older(j)) <= Cardinality(Older(i))
    BY <1>3, <1>4, FS_Subset
<1>6. Cardinality(Older(j)) \in Nat /\ Cardinality(Older(i)) \in Nat
    BY <1>3, <1>4, FS_Subset, FS_CardinalityType
<1>7. Cardinality(Older(i)) < PollLimit
    BY DEF Pending
<1>8. Cardinality(Older(j)) < PollLimit
    BY <1>5, <1>6, <1>7, BoundsAssumption
<1> QED
    BY <1>8 DEF Pending

LEMMA AcrossInit == ControlInit => AcrossInv
BY DEF ControlInit, AcrossInv, Given, Fits, NoneSkipped, RightAnswer, AheadOfOffset, NoAsk, Ids, Nothing

LEMMA AcrossStep ==
    ClockClimbs /\ ControlTypeOK /\ ControlTypeOK' /\ ServerInv /\ NodeInv /\ AcrossInv /\ [ControlNext]_controlVars
        => AcrossInv'
<1> SUFFICES ASSUME ClockClimbs, ControlTypeOK, ControlTypeOK', ServerInv, NodeInv, AcrossInv, [ControlNext]_controlVars
             PROVE  AcrossInv'
    OBVIOUS
<1> USE RequestsAssumption
    DEF ControlTypeOK, AcrossInv, Given, Fits, NoneSkipped, RightAnswer, AheadOfOffset,
        Ids, AskedRecord, Update, Nothing
<1>1. CASE Elapse
    BY <1>1 DEF Elapse, server, node, stops
<1>2. ASSUME NEW a \in Askers, NEW r \in Requests, Join(a, r) PROVE AcrossInv'
    BY <1>2 DEF Join, node, stops
<1>3. ASSUME NEW a \in Askers, NEW r \in Requests, Ask(a, r) PROVE AcrossInv'
    <2> DEFINE id == NextId(lastId)
    <2>1. id \in Ids /\ id > lastId /\ id >= clock
        BY <1>3, NewId DEF Ask
    <2>2. /\ lastId' = id
          /\ table' = table \cup {id}
          /\ asks' = [asks EXCEPT ![id] = [request |-> r, answer |-> 0, waiters |-> {a}]]
          /\ UNCHANGED <<clock, offset, todo, ran, outbox, runs>>
        BY <1>3 DEF Ask, node
    <2> HIDE DEF id
    <2>3. offset < id
        BY <2>1, SMTT(30)
    <2>4. \A u \in todo \cup outbox : u.id < id
        <3>1. \A u \in todo \cup outbox : u.id \in 1 .. MaxId /\ Given(u.id)
            OBVIOUS
        <3> QED BY <2>1, <3>1, SMTT(30)
    <2>5. asks'[id] = [request |-> r, answer |-> 0, waiters |-> {a}]
          /\ \A i \in Ids \ {id} : asks'[i] = asks[i]
        BY <2>1, <2>2
    <2>6. Given(offset)' /\ \A u \in todo \cup outbox : Given(u.id)' /\ Fits(u)'
        BY <2>1, <2>2, <2>3, <2>4, <2>5
    <2>7. NoneSkipped'
        BY <2>2, <2>4
    <2>8. RightAnswer'
        BY <2>5, SMTT(30)
    <2>9. AheadOfOffset'
        BY <2>1, <2>2, <2>3, <2>5
    <2> QED BY <2>2, <2>6, <2>7, <2>8, <2>9
<1>4. ASSUME NEW a \in Askers, GiveUp(a) PROVE AcrossInv'
    BY <1>4 DEF GiveUp, Leaves, LastToLeave, Forget, node, stops
<1>5. ASSUME NEW a \in Askers, TakeAnswer(a) PROVE AcrossInv'
    BY <1>5 DEF TakeAnswer, Leaves, node, stops
<1>6. ASSUME NEW id \in Ids, ForgetAnswered(id) PROVE AcrossInv'
    BY <1>6 DEF ForgetAnswered, Forget, node, stops
<1>7. CASE ServerRestart
    <2>1. clock' > clock /\ clock' > lastId /\ table' = {} /\ lastId' = 0
          /\ asks' = [i \in Ids |-> NoAsk]
          /\ UNCHANGED <<offset, todo, ran, outbox, runs>>
        BY <1>7 DEF ServerRestart, node
    <2>2. \A i \in Ids : asks'[i].request = 0 /\ asks'[i].answer = 0
        BY <2>1 DEF NoAsk
    <2>3. \A u \in todo \cup outbox : u.id < clock'
        BY <2>1
    <2> QED BY <2>1, <2>2, <2>3
<1>8. CASE Poll
    <2>1. todo' = {[id |-> i, request |-> asks[i].request] : i \in Pending(offset)}
          /\ UNCHANGED <<clock, lastId, asks, table, offset, ran, outbox, runs>>
        BY <1>8 DEF Poll, server
    <2>2. Pending(offset) \subseteq table
        BY DEF Pending
    <2>3. \A u \in todo' : Given(u.id)' /\ Fits(u)'
        BY <2>1, <2>2 DEF ServerInv, Numbered
    <2>4. NoneSkipped'
        <3> SUFFICES ASSUME NEW id \in table, NEW i \in Pending(offset), id > offset, id <= i
                     PROVE  \E v \in todo' : v.id = id
            BY <2>1
        <3>1. offset \in Int /\ table \subseteq Ids
            OBVIOUS
        <3>2. id \in Pending(offset)
            BY <3>1, PendingLow
        <3>3. [id |-> id, request |-> asks[id].request] \in todo'
            BY <2>1, <3>2
        <3> QED BY <3>3
    <2> QED BY <2>1, <2>3, <2>4
<1>9. ASSUME NEW u \in todo, Run(u) PROVE AcrossInv'
    BY <1>9 DEF Run, server, stops
<1>10. ASSUME NEW u \in todo, Answer(u) PROVE AcrossInv'
    <2>1. /\ offset' = u.id /\ u.id > offset
          /\ todo' = todo \ {u}
          /\ outbox' \subseteq outbox \cup {u}
          /\ UNCHANGED <<clock, lastId, asks, table, runs>>
        BY <1>10 DEF Answer, OffsetAfter, server, NodeInv, Past
    <2>2. runs[u.id] > 0 /\ \A v \in todo : u.id <= v.id
        BY <1>10 DEF Answer, NodeInv, RunSoFar, IsNext
    <2>3. NoneSkipped'
        BY <2>1
    <2>4. AheadOfOffset'
        <3> SUFFICES ASSUME NEW id \in table, asks[id].answer = Nothing, id <= u.id
                     PROVE  runs[id] > 0
            BY <2>1
        <3>1. CASE id > offset
            BY <3>1, <2>2, SMTT(30)
        <3>2. CASE id <= offset
            BY <3>2
        <3> QED BY <3>1, <3>2, <2>1
    <2> QED BY <2>1, <2>3, <2>4
<1>11. ASSUME NEW u \in outbox, Report(u) PROVE AcrossInv'
    <2>1. CASE Answerable(u.id)
        <3>1. asks[u.id].request = u.request
            BY <2>1 DEF Answerable, ServerInv, Numbered
        <3> QED BY <1>11, <2>1, <3>1 DEF Report, stops
    <2>2. CASE ~ Answerable(u.id)
        BY <1>11, <2>2 DEF Report, stops
    <2> QED BY <2>1, <2>2
<1>12. ASSUME NEW u \in outbox, Lose(u) PROVE AcrossInv'
    BY <1>12 DEF Lose, server, stops
<1>13. CASE NodeRestart
    BY <1>13 DEF NodeRestart, server
<1>14. CASE UNCHANGED controlVars
    BY <1>14 DEF controlVars, server, node, stops
<1> QED
    BY <1>1, <1>2, <1>3, <1>4, <1>5, <1>6, <1>7, <1>8, <1>9, <1>10, <1>11, <1>12,
       <1>13, <1>14 DEF ControlNext, Node

LEMMA ControlInvariant ==
    ASSUME ClockClimbs
    PROVE  ControlSpec => [](RightAnswer /\ AheadOfOffset)
<1>1. ControlInit => ControlIInv
    BY TypeInit, ServerInit, NodeInit, AcrossInit DEF ControlIInv
<1>2. ControlIInv /\ [ControlNext]_controlVars => ControlIInv'
    BY TypeStep, ServerStep, PollerStep, AcrossStep DEF ControlIInv
<1>3. ControlIInv => RightAnswer /\ AheadOfOffset
    BY DEF ControlIInv, AcrossInv
<1> QED
    BY <1>1, <1>2, <1>3, PTL DEF ControlSpec

(* An answer is given for the request it answers, whatever was asked again, *)
(* lost or restarted while it was on its way, as long as a restarted server *)
(* finds its clock past the ids it has given out.                           *)
THEOREM AnswersFit ==
    ASSUME ClockClimbs
    PROVE  ControlSpec => []RightAnswer
BY ControlInvariant, PTL

(* On the same assumption no request is hidden from the node behind its     *)
(* offset: what waits on the table unanswered is still to be polled, or has *)
(* been run.                                                                *)
THEOREM NothingBehindOffset ==
    ASSUME ClockClimbs
    PROVE  ControlSpec => []AheadOfOffset
BY ControlInvariant, PTL
=============================================================================
