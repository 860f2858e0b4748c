---------------------------- MODULE ConsoleProofs ----------------------------
(***************************************************************************)
(* What the two clients show of a thread, for every instance of it and     *)
(* whatever their users abandon, clear or run again; and that the thread   *)
(* keeps its own guarantees under them.                                    *)
(***************************************************************************)
EXTENDS Console, LoanGraphOutcomeProofs

-----------------------------------------------------------------------------
(* The inductive invariant.                                                *)

\* The app's page holds a run.
OnPage == client = "app" /\ phase # "idle"

\* The update of a node has arrived and its visit is not entered yet.
Late == {"streamed", "linked", "running"}

Latest == LastOf(graph_path)    \* the node that ran last
Newest == LastOf(visited)       \* the node last visited for the first time

Seen == {graph_path[i] : i \in 1..Len(graph_path)}

\* Only the app draws, and it draws what has run; it closes at the end.
Phased ==
    /\ phase \in Drawing => graph_path # << >>
    /\ phase \in Drawing \cup {"closing", "closed", "failing"} => client = "app"
    /\ phase \in {"closing", "closed"} => node = "END"

\* The copy follows the thread in the channels a client shows, until the run
\* is over; the CLI shows nothing before that.
CopyFollows ==
    /\ Underway => \A f \in Verdicts : shadow[f] = state[f]
    /\ client = "cli" /\ Underway => shown = None

\* The app has visited what ran, but for the node whose update it handles.
VisitedRan ==
    OnPage =>
        \A n \in Nodes :
           /\ Contains(visited, n) => n \in Seen
           /\ n \in Seen => \/ Contains(visited, n)
                            \/ n = Latest /\ phase \in Late \cup {"abandoned"}

\* Where a run of the app stands, by what ran before.
Progress ==
    OnPage =>
        /\ node = "supervisor" => graph_path = << >> /\ state.applicant = None
        /\ graph_path # << >> => <<Latest, node>> \in EDGES
        /\ Taken \subseteq EDGES
        /\ "kyc_check" \in Seen => state.applicant # None
        /\ "credit_assessment" \in Seen => state.kyc_result # None
        /\ "offer_draft" \in Seen => node \in {"memory_consolidation", "END"}
        /\ "memory_consolidation" \in Seen => node = "END"

Forward == Nodes \ {"reflector"}

Furthest(nodes, n) ==
    n \in Forward => \A m \in nodes \cap Forward : Position[m] <= Position[n]

\* A reflection sends a run back to the furthest node it has reached or on to
\* the next, never further back.
Advances ==
    OnPage =>
        /\ Furthest(Seen, node)
        /\ graph_path # << >> => Furthest(Seen, Latest)
        /\ visited # << >> =>
              Furthest({n \in Nodes : Contains(visited, n)}, Newest)

\* So the node visited last is the one that ran last or the one before it.
Near ==
    \/ Newest = Latest
    \/ Len(graph_path) > 1 /\ Newest = graph_path[Len(graph_path) - 1]

Close ==
    OnPage /\ phase # "abandoned" /\ visited # << >> =>
        /\ phase \notin Late => Near
        /\ phase \in Late =>
              /\ <<Newest, Latest>> \in Taken \cup ShortCuts
              /\ Contains(visited, Latest) => Near

EdgesTaken == OnPage => edges \subseteq Taken \cup ShortCuts

\* The page lacks the visit of the node that ran last, a new one.
Lagging ==
    /\ graph_path = Append(visited, Latest)
    /\ ~Contains(visited, Latest)
    /\ visited # << >> => <<Newest, Latest>> \in EDGES

\* Until a reflection the app draws the path node by node, each of them new.
StraightPath ==
    OnPage /\ "reflector" \notin Seen =>
        /\ \/ phase \notin Late /\ visited = graph_path /\ edges = Taken
           \/ phase \in {"linked", "running", "abandoned"} /\ Lagging
              /\ edges = Taken
           \/ phase \in {"streamed", "abandoned"} /\ Lagging
              /\ edges = Hops(visited)
        /\ node \in Forward => \A n \in Seen : Position[n] < Position[node]

ConsoleInvariant ==
    /\ TypeOK /\ Safety
    /\ ConsoleTypeOK
    /\ Phased
    /\ CopyFollows /\ VerdictsShown
    /\ VisitedRan /\ StagesShownRan
    /\ Progress /\ Advances
    /\ Close /\ EdgesTaken
    /\ StraightPath

-----------------------------------------------------------------------------
(* Sequences.                                                              *)

LEMMA ContainsAppended ==
    ASSUME NEW S, NEW seq \in Seq(S), NEW x \in S, NEW y
    PROVE  /\ Contains(Append(seq, x), y) <=> Contains(seq, y) \/ y = x
           /\ LastOf(Append(seq, x)) = x /\ Append(seq, x) # << >>
           /\ Append(seq, x) \in Seq(S)
<1>1. /\ Len(Append(seq, x)) = Len(seq) + 1 /\ Len(seq) \in Nat
      /\ \A i \in 1..Len(seq) : Append(seq, x)[i] = seq[i]
      /\ Append(seq, x)[Len(seq) + 1] = x
      /\ Append(seq, x) \in Seq(S)
  OBVIOUS
<1>2. \A i \in 1..(Len(seq) + 1) : i \in 1..Len(seq) \/ i = Len(seq) + 1
  BY <1>1
<1>3. Len(seq) + 1 \in 1..(Len(seq) + 1) /\ 1..Len(seq) \subseteq 1..(Len(seq) + 1)
  BY <1>1
<1>4. Contains(Append(seq, x), y) <=> Contains(seq, y) \/ y = x
  BY <1>1, <1>2, <1>3 DEF Contains
<1> QED  BY <1>1, <1>4 DEF LastOf

\* The nodes that ran are those of the path.
LEMMA SeenIsPath ==
    ASSUME NEW n
    PROVE  n \in Seen <=> Contains(graph_path, n)
BY DEF Seen, Contains

-----------------------------------------------------------------------------
(* The thread under its clients.                                           *)

\* A thread of a fresh id is a thread nothing was submitted on before.
LEMMA StartAppThread ==
    ASSUME TypeOK, NEW a \in Applications, StartApp(a)
    PROVE  /\ TypeOK' /\ Safety'
           /\ node' = "supervisor" /\ graph_path' = << >>
           /\ state'.applicant = None /\ state'.kyc_result = None
           /\ state'.credit_assessment = None /\ state'.offer = None
<1> DEFINE blank == [c \in Channels |-> Blank(c)]
           n == NewState(<<a>>)
<1>1. /\ state' = Merge(blank, n) /\ node' = "supervisor" /\ running' = TRUE
      /\ graph_path' = << >> /\ memory' = memory
      /\ inherited' = [c \in DOMAIN inherited |-> 0]
      /\ used' = [used EXCEPT !.submissions = @ + 1]
      /\ used.submissions < MaxSubmissions
  BY DEF StartApp
<1>2. blank \in States
  BY BlankTyped
<1>3. a \in Message /\ <<a>> \in Seq(Message)
  BY EntryTyped DEF Message
<1>4. TypedUpdate(n)
  BY <1>3, NewStateTyped
<1>5. state' \in States
  BY <1>1, <1>2, <1>4, MergeTyped
<1>6. /\ {"messages", "applicant", "kyc_result", "credit_assessment", "offer"}
            \subseteq DOMAIN n
      /\ n.messages = <<a>> /\ n.applicant = None /\ n.kyc_result = None
      /\ n.credit_assessment = None /\ n.offer = None
      /\ blank.messages = << >>
  BY DEF NewState, Blank, Channels, Appending, LastValue
<1> HIDE DEF n, blank
<1>7. /\ state'.messages = << >> \o <<a>>
      /\ state'.applicant = None /\ state'.kyc_result = None
      /\ state'.credit_assessment = None /\ state'.offer = None
  <2>1. state' = Merge(blank, n)
    BY <1>1
  <2>2. /\ "messages" \in DOMAIN n /\ "applicant" \in DOMAIN n
        /\ "kyc_result" \in DOMAIN n /\ "credit_assessment" \in DOMAIN n
        /\ "offer" \in DOMAIN n
    BY <1>6
  <2>3. /\ state'.messages = blank.messages \o n.messages
        /\ state'.applicant = n.applicant /\ state'.kyc_result = n.kyc_result
        /\ state'.credit_assessment = n.credit_assessment
        /\ state'.offer = n.offer
    BY <2>1, <2>2, MergeChannels
  <2> QED  BY <2>3, <1>6
<1>8. state'.messages # << >> /\ LastOf(state'.messages) = a
  BY <1>3, <1>7 DEF LastOf
<1>9. Safety'
  BY <1>1, <1>7, <1>8 DEF Safety, WorkerPreconditions, ThreadInvariant,
                          PolicyDecides, OfferJustified
<1>10. inherited' \in [messages : Nat, retries : Nat, log : Nat,
                       quarantined : Nat, flags : Nat]
  BY <1>1 DEF TypeOK
<1>11. used' \in [submissions : 0..MaxSubmissions,
                  follow_ups : 0..MaxFollowUps, crashes : 0..MaxCrashes]
  <2>1. /\ used \in [submissions : 0..MaxSubmissions,
                     follow_ups : 0..MaxFollowUps, crashes : 0..MaxCrashes]
        /\ MaxSubmissions \in Nat
    BY TuningAssumption DEF TypeOK
  <2>2. /\ used' = [used EXCEPT !.submissions = used.submissions + 1]
        /\ used.submissions < MaxSubmissions
    BY <1>1
  <2> QED  BY <2>1, <2>2
<1>12. TypeOK'
  BY <1>1, <1>5, <1>10, <1>11 DEF TypeOK, Nodes
<1> QED  BY <1>1, <1>7, <1>9, <1>12

\* Steps of the clients that leave the thread, the path drawn and what was
\* visited as they are; a rerun only stops the thread.
Quiet ==
    \/ MarkCompleted \/ Show \/ StreamEnds \/ Escape
    \/ (\E n \in Drawn : MarkUnreached(n)) \/ MarkEnd \/ Finish \/ Fail \/ Rerun
    \/ UNCHANGED <<vars, consoleVars>>

\* After a step of the CLI or "Clear" the page holds no run.
OffPage == PrintStage \/ FinishCli \/ EscapeCli \/ Interrupt \/ Clear

Draws == Link \/ MarkRunning \/ MarkVisited

LEMMA ClientSteps ==
    ASSUME [ConsoleNext]_<<vars, consoleVars>>
    PROVE  \/ \E a \in Applications : StartApp(a) \/ StartCli(a)
           \/ Receive \/ Draws \/ Quiet \/ OffPage
BY DEF ConsoleNext, Draws, Quiet, OffPage

LEMMA QuietEffect ==
    ASSUME Quiet
    PROVE  /\ UNCHANGED <<state, node, graph_path, client, visited, edges>>
           /\ \/ phase' = phase
              \/ phase # "idle" /\ phase' = "abandoned"
              \/ /\ phase \notin Late \cup {"idle", "abandoned"}
                 /\ phase' \notin Late \cup {"idle", "abandoned"}
BY DEF Quiet, MarkCompleted, Show, StreamEnds, Escape, Crash, MarkUnreached,
       MarkEnd, Finish, Fail, Rerun, Underway, Streaming, Drawing, Late, vars,
       consoleVars

LEMMA OffPageEffect ==
    ASSUME OffPage
    PROVE  ~OnPage'
BY DEF OffPage, PrintStage, FinishCli, EscapeCli, Interrupt, Clear, OnPage,
       Streaming

LEMMA DrawsEffect ==
    ASSUME Draws
    PROVE  /\ UNCHANGED <<vars, client, shadow, shown>>
           /\ phase \in Late /\ phase' \in Drawing
BY DEF Draws, Link, MarkRunning, MarkVisited, Late, Drawing

\* A step of the graph, or one that leaves its thread as it is.
LEMMA ThreadKept ==
    ASSUME TypeOK, Safety, [ConsoleNext]_<<vars, consoleVars>>
    PROVE  TypeOK' /\ Safety'
<1>1. CASE \E a \in Applications : StartApp(a)
  BY <1>1, StartAppThread
<1>2. ASSUME NEW a \in Applications, StartCli(a)
      PROVE  TypeOK' /\ Safety'
  BY <1>2, InputsTyped, SubmitSafe DEF StartCli
<1>3. CASE Receive \/ PrintStage
  <2>1. NodeStep
    BY <1>3 DEF Receive, PrintStage, Streamed
  <2> QED  BY <2>1, NodeStepTyped, SafetyStep DEF Next
<1>4. CASE Escape \/ EscapeCli
  <2>1. Crash
    BY <1>4 DEF Escape, EscapeCli
  <2> QED  BY <2>1, InputsTyped, SafetyStep DEF Next
<1>5. CASE Rerun \/ Interrupt
  <2>1. /\ running' = FALSE /\ UNCHANGED <<state, node, graph_path, inherited, used>>
        /\ memory' \in Consolidated \cup {memory}
    BY <1>5 DEF Rerun, Interrupt
  <2>2. memory' \in Seq(Batches)
    BY <2>1, ConsolidatedTyped DEF TypeOK
  <2> QED  BY <2>1, <2>2 DEF TypeOK, Safety, WorkerPreconditions,
              ThreadInvariant, PolicyDecides, OfferJustified, KycIs
<1>6. CASE UNCHANGED vars
  BY <1>6 DEF vars, TypeOK, Safety, WorkerPreconditions,
              ThreadInvariant, PolicyDecides, OfferJustified, KycIs
<1>7. \/ (\E a \in Applications : StartApp(a) \/ StartCli(a))
      \/ Receive \/ PrintStage \/ Escape \/ EscapeCli \/ Rerun \/ Interrupt
      \/ UNCHANGED vars
  BY DEF ConsoleNext, Link, MarkRunning, MarkVisited, MarkCompleted, Show,
         StreamEnds, MarkUnreached, MarkEnd, Finish, Fail, Clear, FinishCli
<1> QED  BY <1>1, <1>2, <1>3, <1>4, <1>5, <1>6, <1>7

\* A superstep the app waits for.
LEMMA ReceiveEffect ==
    ASSUME TypeOK, Safety, Receive
    PROVE  /\ phase = "streaming" /\ phase' = "streamed"
           /\ client = "app" /\ NodeStep
           /\ node \in Nodes /\ graph_path' = Append(graph_path, node)
           /\ UNCHANGED <<client, shown, status, visited, edges>>
BY StepFrame DEF Receive, Streamed, Streaming

LEMMA PhasesKept ==
    ASSUME TypeOK, Safety, Phased, [ConsoleNext]_<<vars, consoleVars>>
    PROVE  Phased'
<1> USE DEF Phased, Drawing
<1>1. CASE \E a \in Applications : StartApp(a) \/ StartCli(a)
  BY <1>1 DEF StartApp, StartCli
<1>2. CASE Receive
  <2>1. graph_path \in Seq(Nodes)
    BY DEF TypeOK
  <2>2. graph_path' # << >>
    BY <1>2, <2>1, ReceiveEffect, ContainsAppended
  <2> QED  BY <1>2, <2>2, ReceiveEffect
<1>3. CASE Draws
  BY <1>3, DrawsEffect DEF Draws, Link, MarkRunning, MarkVisited, vars
<1>4. CASE Quiet
  <2>1. UNCHANGED <<graph_path, client, node>>
    BY <1>4, QuietEffect
  <2>2. CASE MarkCompleted \/ Show
    BY <2>1, <2>2 DEF MarkCompleted, Show
  <2>3. CASE StreamEnds \/ Escape \/ Rerun
    BY <2>1, <2>3 DEF StreamEnds, Escape, Rerun
  <2>4. CASE (\E n \in Drawn : MarkUnreached(n)) \/ MarkEnd \/ Finish \/ Fail
    BY <2>1, <2>4 DEF MarkUnreached, MarkEnd, Finish, Fail
  <2>5. CASE UNCHANGED <<vars, consoleVars>>
    BY <2>5 DEF vars, consoleVars
  <2> QED  BY <1>4, <2>2, <2>3, <2>4, <2>5 DEF Quiet
<1>5. CASE OffPage
  <2>1. phase' \in {"streaming", "completed", "failed", "abandoned", "idle"}
    BY <1>5 DEF OffPage, PrintStage, FinishCli, EscapeCli, Interrupt, Clear,
                Streaming
  <2> QED  BY <2>1
<1> QED  BY <1>1, <1>2, <1>3, <1>4, <1>5, ClientSteps

-----------------------------------------------------------------------------
(* The copy of the state.                                                  *)

\* Verdicts are channels whose reducer is to replace, as dict.update does.
LEMMA StreamedVerdicts ==
    ASSUME Streamed, NEW f \in Verdicts
    PROVE  /\ DOMAIN shadow' = Channels
           /\ shadow[f] = state[f] => shadow'[f] = state'[f]
<1>1. PICK u : state' = Merge(state, u) /\ shadow' = Updated(shadow, u)
  BY DEF Streamed
<1>2. f \in Channels /\ f \in LastValue /\ f \notin Appending
  BY DEF Verdicts, Channels, LastValue, Appending
<1> QED  BY <1>1, <1>2 DEF Merge, Updated

\* A thread that is opened or reset and the copy of its input agree.
LEMMA StartedVerdicts ==
    ASSUME NEW a, NEW s, NEW f \in Verdicts,
           state' = Merge(s, NewState(<<a>>)),
           shadow' = Updated([c \in Channels |-> Blank(c)], NewState(<<a>>))
    PROVE  DOMAIN shadow' = Channels /\ shadow'[f] = state'[f]
<1>1. f \in Channels /\ f \in LastValue /\ f \notin Appending
  BY DEF Verdicts, Channels, LastValue, Appending
<1>2. DOMAIN NewState(<<a>>) = Channels
  BY DEF NewState
<1> HIDE DEF NewState
<1> QED  BY <1>1, <1>2 DEF Merge, Updated

\* Until the next submission, a profile that is set is never replaced.
LEMMA ApplicantSettles ==
    ASSUME TypeOK, Safety, NodeStep
    PROVE  state'.applicant = state.applicant \/ state.applicant = None
BY NodesSettle DEF Settled

LEMMA CopyKept ==
    ASSUME TypeOK, Safety, Phased, CopyFollows, VerdictsShown,
           [ConsoleNext]_<<vars, consoleVars>>
    PROVE  CopyFollows' /\ VerdictsShown'
<1> USE DEF Underway, Streaming, Drawing
<1>1. CASE \E a \in Applications : StartApp(a) \/ StartCli(a)
  <2>1. PICK a \in Applications : StartApp(a) \/ StartCli(a)
    BY <1>1
  <2>2. shown' = None
    BY <2>1 DEF StartApp, StartCli, ResetRun
  <2>3. \A f \in Verdicts : shadow'[f] = state'[f]
    BY <2>1, StartedVerdicts DEF StartApp, StartCli, Submit, Accept
  <2> QED  BY <2>2, <2>3 DEF CopyFollows, VerdictsShown
<1>2. CASE Receive
  <2>1. /\ phase = "streaming" /\ client = "app" /\ Streamed
        /\ phase' = "streamed" /\ UNCHANGED <<client, shown>>
    BY <1>2 DEF Receive
  <2>2. \A f \in Verdicts : shadow'[f] = state'[f]
    BY <2>1, StreamedVerdicts DEF CopyFollows
  <2>3. state'.applicant = state.applicant \/ state.applicant = None
    BY <2>1, ApplicantSettles DEF Streamed
  <2>4. shown # None => shown.applicant \in {None, state'.applicant}
    BY <2>3 DEF VerdictsShown
  <2> QED  BY <2>1, <2>2, <2>4 DEF CopyFollows, VerdictsShown
<1>3. CASE Draws
  <2>1. UNCHANGED <<state, client, shadow, shown>>
    BY <1>3, DrawsEffect DEF vars
  <2>2. phase \in Drawing /\ phase' \in Drawing
    BY <1>3, DrawsEffect DEF Late
  <2>3. client = "app"
    BY <2>2 DEF Phased
  <2> QED  BY <2>1, <2>2, <2>3 DEF CopyFollows, VerdictsShown
<1>4. CASE Show
  <2>1. /\ phase = "marked" /\ phase' = "streaming" /\ shown' = shadow
        /\ UNCHANGED <<state, client, shadow>>
    BY <1>4 DEF Show, vars
  <2>2. client' = "app"
    BY <2>1 DEF Phased
  <2>3. \A f \in Verdicts : shown'[f] = state'[f]
    BY <2>1 DEF CopyFollows
  <2>4. shown'.applicant = state'.applicant
    BY <2>3 DEF Verdicts
  <2> QED  BY <2>1, <2>2, <2>3, <2>4 DEF CopyFollows, VerdictsShown
<1>5. CASE PrintStage
  <2>1. /\ phase = "streaming" /\ client = "cli" /\ Streamed
        /\ UNCHANGED <<client, phase, shown>>
    BY <1>5 DEF PrintStage
  <2>2. \A f \in Verdicts : shadow'[f] = state'[f]
    BY <2>1, StreamedVerdicts DEF CopyFollows
  <2> QED  BY <2>1, <2>2 DEF CopyFollows, VerdictsShown
<1>6. CASE Finish \/ FinishCli \/ EscapeCli
  <2>1. /\ phase \in {"streaming", "closed"} /\ phase' \in {"completed", "failed"}
        /\ shown' = state \/ shown' = shadow
        /\ UNCHANGED <<state, client, shadow>>
    BY <1>6 DEF Finish, FinishCli, EscapeCli, Crash, vars
  <2>2. \A f \in Verdicts : shown'[f] = state'[f]
    BY <2>1 DEF CopyFollows
  <2>3. shown'.applicant = state'.applicant
    BY <2>2 DEF Verdicts
  <2> QED  BY <2>1, <2>2, <2>3 DEF CopyFollows, VerdictsShown
\* Nothing is entered in what is shown, at the end of a run and after it.
<1>7. CASE MarkCompleted \/ StreamEnds \/ Escape
           \/ (\E n \in Drawn : MarkUnreached(n)) \/ MarkEnd \/ Fail
  <2>1. UNCHANGED <<state, client, shadow, shown>>
    BY <1>7 DEF MarkCompleted, StreamEnds, Escape, Crash, MarkUnreached,
                MarkEnd, Fail, vars
  <2>2. /\ phase \in {"visited", "streaming", "closing", "failing"}
        /\ phase' \in {"marked", "closing", "failing", "closed", "failed"}
        /\ phase = "visited" => phase' = "marked"
    BY <1>7 DEF MarkCompleted, StreamEnds, Escape, MarkUnreached, MarkEnd, Fail
  <2> QED  BY <2>1, <2>2 DEF CopyFollows, VerdictsShown
<1>8. CASE Rerun \/ Interrupt
  <2>1. phase' = "abandoned" /\ UNCHANGED <<state, client, shadow, shown>>
    BY <1>8 DEF Rerun, Interrupt
  <2> QED  BY <2>1 DEF CopyFollows, VerdictsShown
<1>9. CASE Clear
  <2>1. phase' = "idle" /\ shown' = None
    BY <1>9 DEF Clear, ResetRun
  <2> QED  BY <2>1 DEF CopyFollows, VerdictsShown
<1>10. CASE UNCHANGED <<vars, consoleVars>>
  BY <1>10 DEF vars, consoleVars, CopyFollows, VerdictsShown
<1> QED  BY <1>1, <1>2, <1>3, <1>4, <1>5, <1>6, <1>7, <1>8, <1>9, <1>10,
            ClientSteps DEF Quiet, OffPage

-----------------------------------------------------------------------------
(* The page.                                                               *)

LEMMA Redrawn ==
    ASSUME NEW D, NEW S, NEW f \in [D -> S], NEW n, NEW v \in S
    PROVE  [f EXCEPT ![n] = v] \in [D -> S]
OBVIOUS

\* The node whose update the app handles.
LEMMA LatestRan ==
    ASSUME TypeOK, graph_path # << >>
    PROVE  Latest \in Nodes /\ Latest \in Seen /\ Contains(graph_path, Latest)
<1>1. graph_path \in Seq(Nodes) /\ Len(graph_path) \in 1..Len(graph_path)
  BY DEF TypeOK
<1> QED  BY <1>1 DEF Latest, LastOf, Seen, Contains

\* What is entered in the statuses of the nodes.
LEMMA StatusSteps ==
    ASSUME Receive \/ Draws \/ Quiet
    PROVE  \/ UNCHANGED status
           \/ MarkRunning
              /\ status' = [status EXCEPT ![Latest] = "running"]
           \/ MarkCompleted
              /\ status' = [status EXCEPT ![Latest] = "completed"]
           \/ \E n \in Drawn :
                 /\ MarkUnreached(n)
                 /\ status' = [status EXCEPT ![n] = "not_reached"]
           \/ MarkEnd /\ status' = [status EXCEPT !["END"] = "completed"]
<1>1. CASE Receive \/ Link \/ MarkVisited \/ Show \/ StreamEnds \/ Escape
           \/ Finish \/ Fail \/ Rerun \/ UNCHANGED <<vars, consoleVars>>
  BY <1>1 DEF Receive, Link, MarkVisited, Show, StreamEnds, Escape, Finish,
              Fail, Rerun, consoleVars
<1>2. CASE MarkRunning \/ MarkCompleted \/ MarkEnd
  BY <1>2 DEF MarkRunning, MarkCompleted, MarkEnd, Latest, Started
<1>3. CASE \E n \in Drawn : MarkUnreached(n)
  BY <1>3 DEF MarkUnreached, Unreached
<1> QED  BY <1>1, <1>2, <1>3 DEF Draws, Quiet

LEMMA ConsoleTyped ==
    ASSUME TypeOK, TypeOK', Safety, Phased, ConsoleTypeOK,
           [ConsoleNext]_<<vars, consoleVars>>
    PROVE  ConsoleTypeOK'
<1> DEFINE Phases == {"idle", "streaming", "closing", "closed", "failing",
                      "completed", "failed", "abandoned"} \cup Drawing
           Statuses == {"pending", "running", "completed", "not_reached"}
<1>0. /\ client \in {"app", "cli"} /\ phase \in Phases
      /\ DOMAIN shadow = Channels /\ (shown # None => DOMAIN shown = Channels)
      /\ status \in [Drawn -> Statuses]
      /\ visited \in Seq(Nodes) /\ edges \subseteq EDGES
  BY DEF ConsoleTypeOK
<1>1. CASE \E a \in Applications : StartApp(a) \/ StartCli(a)
  <2>1. PICK a \in Applications : StartApp(a) \/ StartCli(a)
    BY <1>1
  <2>2. /\ ResetRun /\ phase' = "streaming" /\ client' \in {"app", "cli"}
        /\ DOMAIN shadow' = Channels
    BY <2>1 DEF StartApp, StartCli, Updated
  <2> QED  BY <2>2 DEF ResetRun, ConsoleTypeOK
<1>2. CASE Clear
  <2>1. /\ ResetRun /\ phase' = "idle" /\ UNCHANGED <<client, shadow>>
    BY <1>2 DEF Clear
  <2> QED  BY <1>0, <2>1 DEF ResetRun, ConsoleTypeOK
<1>3. ASSUME Receive \/ Draws \/ Quiet \/ PrintStage \/ FinishCli
             \/ EscapeCli \/ Interrupt
      PROVE  ConsoleTypeOK'
  <2>1. status' \in [Drawn -> Statuses]
    <3>1. CASE UNCHANGED status
      BY <1>0, <3>1
    <3>2. ASSUME NEW n, NEW s \in Statuses, status' = [status EXCEPT ![n] = s]
          PROVE  status' \in [Drawn -> Statuses]
      <4> HIDE DEF Statuses
      <4> QED  BY <1>0, <3>2, Redrawn
    <3>3. PrintStage \/ FinishCli \/ EscapeCli \/ Interrupt => UNCHANGED status
      BY DEF PrintStage, FinishCli, EscapeCli, Interrupt
    <3> QED  BY <1>3, <3>1, <3>2, <3>3, StatusSteps
  <2>2. phase' \in Phases /\ client' = client
    BY <1>0, <1>3 DEF Receive, Draws, Link, MarkRunning, MarkVisited, Quiet,
         MarkCompleted, Show, StreamEnds, Escape, MarkUnreached, MarkEnd,
         Finish, Fail, Rerun, PrintStage, FinishCli, EscapeCli, Interrupt,
         consoleVars, Drawing
  <2>3. /\ shadow' = shadow \/ DOMAIN shadow' = Channels
        /\ shown' \in {shown, shadow, state}
    <3>1. CASE Receive \/ PrintStage
      BY <3>1 DEF Receive, PrintStage, Streamed, Updated
    <3>2. CASE Draws \/ Quiet \/ FinishCli \/ EscapeCli \/ Interrupt
      BY <3>2 DEF Draws, Link, MarkRunning, MarkVisited, Quiet, MarkCompleted,
         Show, StreamEnds, Escape, MarkUnreached, MarkEnd, Finish, Fail, Rerun,
         FinishCli, EscapeCli, Interrupt, consoleVars
    <3> QED  BY <1>3, <3>1, <3>2
  <2>4. DOMAIN state = Channels
    BY DEF TypeOK, States, Channels, Appending, LastValue
  <2>5. DOMAIN shadow' = Channels /\ (shown' # None => DOMAIN shown' = Channels)
    BY <1>0, <2>3, <2>4
  <2>6. visited' \in Seq(Nodes) /\ edges' \subseteq EDGES
    <3>1. CASE Link
      <4>1. edges' = edges \/ \E e \in EDGES : edges' = edges \cup {e}
        BY <3>1 DEF Link, Linked
      <4>2. visited' = visited
        BY <3>1 DEF Link
      <4> QED  BY <1>0, <4>1, <4>2
    <3>2. CASE MarkVisited
      <4>1. graph_path # << >>
        BY <3>2 DEF MarkVisited, Phased, Drawing
      <4>2. visited' \in {visited, Append(visited, Latest)} /\ edges' = edges
        BY <3>2 DEF MarkVisited, Latest
      <4>3. Append(visited, Latest) \in Seq(Nodes)
        BY <1>0, <4>1, LatestRan
      <4> QED  BY <1>0, <4>2, <4>3
    <3>3. CASE Receive \/ MarkRunning \/ Quiet \/ PrintStage \/ FinishCli
               \/ EscapeCli \/ Interrupt
      <4>1. UNCHANGED <<visited, edges>>
        BY <3>3, QuietEffect DEF Receive, MarkRunning, PrintStage, FinishCli,
                                 EscapeCli, Interrupt
      <4> QED  BY <1>0, <4>1
    <3> QED  BY <1>3, <3>1, <3>2, <3>3 DEF Draws
  <2> QED  BY <1>0, <2>1, <2>2, <2>5, <2>6 DEF ConsoleTypeOK
<1> QED  BY <1>1, <1>2, <1>3, ClientSteps DEF OffPage

\* A run of the app starts with an empty page; one of the CLI is not drawn.
LEMMA StartEffect ==
    ASSUME TypeOK, \E a \in Applications : StartApp(a) \/ StartCli(a)
    PROVE  OnPage' => /\ graph_path' = << >> /\ visited' = << >>
                      /\ edges' = {} /\ node' = "supervisor"
                      /\ state'.applicant = None
                      /\ status' = [n \in Drawn |-> "pending"]
                      /\ phase' = "streaming"
<1>1. ASSUME NEW a \in Applications, StartApp(a)
      PROVE  /\ graph_path' = << >> /\ visited' = << >>
             /\ edges' = {} /\ node' = "supervisor"
             /\ state'.applicant = None
             /\ status' = [n \in Drawn |-> "pending"]
             /\ phase' = "streaming"
  BY <1>1, StartAppThread DEF StartApp, ResetRun
<1>2. ASSUME NEW a \in Applications, StartCli(a)
      PROVE  client' # "app"
  BY <1>2 DEF StartCli
<1> QED  BY <1>1, <1>2 DEF OnPage

LEMMA EmptyPath ==
    ASSUME NEW path, path = << >>
    PROVE  /\ \A n : ~Contains(path, n)
           /\ Hops(path) = {} /\ 1..Len(path) = {}
<1>1. 1..Len(path) = {} /\ 1..(Len(path) - 1) = {}
  OBVIOUS
<1> QED  BY <1>1 DEF Hops, Contains

\* A page that is just opened has seen nothing, a superstep adds its node.
LEMMA SeenStarts ==
    ASSUME graph_path' = << >>
    PROVE  Seen' = {} /\ Taken' = {} /\ ~Contains(graph_path', "reflector")
<1>1. Hops(graph_path') = {} /\ 1..Len(graph_path') = {}
  BY EmptyPath
<1> QED  BY <1>1, EmptyPath DEF Seen, Taken

LEMMA SeenAppended ==
    ASSUME TypeOK, node \in Nodes, graph_path' = Append(graph_path, node)
    PROVE  Seen' = Seen \cup {node} /\ Latest' = node /\ graph_path' # << >>
<1>0. graph_path \in Seq(Nodes)
  BY DEF TypeOK
<1>1. \A n : n \in Seen' <=> Contains(graph_path', n)
  BY DEF Seen, Contains
<1>2. \A n : Contains(graph_path', n) <=> Contains(graph_path, n) \/ n = node
  BY <1>0, ContainsAppended
<1>3. LastOf(graph_path') = node /\ graph_path' # << >>
  BY <1>0, ContainsAppended
<1> QED  BY <1>1, <1>2, <1>3, SeenIsPath DEF Latest

LEMMA SeenStays ==
    ASSUME graph_path' = graph_path
    PROVE  Seen' = Seen /\ Latest' = Latest /\ Taken' = Taken
           /\ ShortCuts' = ShortCuts
BY DEF Seen, Latest, Taken, ShortCuts

\* The nodes the app has visited, once it enters the visit of the latest.
LEMMA VisitEffect ==
    ASSUME TypeOK, ConsoleTypeOK, Phased, MarkVisited
    PROVE  /\ phase = "running" /\ phase' = "visited"
           /\ UNCHANGED <<vars, client, status, edges>>
           /\ Latest \in Nodes /\ Latest \in Seen /\ graph_path # << >>
           /\ visited \in Seq(Nodes)
           /\ \A n : Contains(visited', n) <=> Contains(visited, n) \/ n = Latest
           /\ Contains(visited, Latest) => visited' = visited
           /\ ~Contains(visited, Latest) =>
                 visited' = Append(visited, Latest) /\ Newest' = Latest
<1>1. phase = "running" /\ phase' = "visited"
      /\ UNCHANGED <<vars, client, status, edges>>
      /\ visited' = IF Contains(visited, Latest) THEN visited
                    ELSE Append(visited, Latest)
  BY DEF MarkVisited, Latest
<1>2. graph_path # << >> /\ Latest \in Nodes /\ Latest \in Seen
  BY <1>1, LatestRan DEF Phased, Drawing
<1>3. visited \in Seq(Nodes)
  BY DEF ConsoleTypeOK
<1>4. /\ \A n : Contains(Append(visited, Latest), n) <=>
                   Contains(visited, n) \/ n = Latest
      /\ LastOf(Append(visited, Latest)) = Latest
  BY <1>2, <1>3, ContainsAppended
<1>5. \A n : Contains(visited', n) <=> Contains(visited, n) \/ n = Latest
  BY <1>1, <1>4
<1> QED  BY <1>1, <1>2, <1>3, <1>4, <1>5 DEF Newest

\* The page marks a node visited when its update has arrived, and not before.
LEMMA VisitedKept ==
    ASSUME TypeOK, Safety, ConsoleTypeOK, Phased, VisitedRan,
           [ConsoleNext]_<<vars, consoleVars>>
    PROVE  VisitedRan'
<1>1. CASE \E a \in Applications : StartApp(a) \/ StartCli(a)
  <2>1. OnPage' => graph_path' = << >> /\ visited' = << >>
    BY <1>1, StartEffect
  <2>2. visited' = << >> => \A n : ~Contains(visited', n)
    BY EmptyPath
  <2> QED  BY <2>1, <2>2, SeenStarts DEF VisitedRan
<1>2. CASE Receive
  <2>1. /\ phase = "streaming" /\ phase' = "streamed"
        /\ client = "app" /\ UNCHANGED visited
        /\ node \in Nodes /\ graph_path' = Append(graph_path, node)
    BY <1>2, ReceiveEffect
  <2>2. Seen' = Seen \cup {node} /\ Latest' = node
    BY <2>1, SeenAppended
  <2>3. \A n \in Nodes : Contains(visited, n) <=> n \in Seen
    BY <2>1 DEF VisitedRan, OnPage, Late
  <2> QED  BY <2>1, <2>2, <2>3 DEF VisitedRan, Late
<1>3. CASE Link \/ MarkRunning
  <2>1. /\ UNCHANGED <<vars, client, visited>>
        /\ phase \in Late /\ phase' \in Late
    BY <1>3 DEF Link, MarkRunning, Late
  <2>2. OnPage' => OnPage
    BY <2>1 DEF OnPage, Late
  <2> QED  BY <2>1, <2>2, SeenStays DEF VisitedRan, vars
<1>4. CASE MarkVisited
  <2>1. /\ UNCHANGED <<vars, client>> /\ phase = "running"
        /\ Latest \in Seen
        /\ \A n : Contains(visited', n) <=> Contains(visited, n) \/ n = Latest
    BY <1>4, VisitEffect
  <2>2. OnPage' => OnPage
    BY <2>1 DEF OnPage
  <2> QED  BY <2>1, <2>2, SeenStays DEF VisitedRan, vars
<1>5. CASE Quiet
  <2>1. UNCHANGED <<graph_path, client, visited>>
    BY <1>5, QuietEffect
  <2>2. OnPage' => OnPage /\ (phase \in Late \cup {"abandoned"} =>
                                 phase' \in Late \cup {"abandoned"})
    BY <1>5, QuietEffect DEF OnPage, Late
  <2> QED  BY <2>1, <2>2, SeenStays DEF VisitedRan
<1>6. CASE OffPage
  BY <1>6, OffPageEffect DEF VisitedRan
<1> QED  BY <1>1, <1>2, <1>3, <1>4, <1>5, <1>6, ClientSteps DEF Draws

LEMMA StagesKept ==
    ASSUME TypeOK, Safety, ConsoleTypeOK, Phased, VisitedRan,
           StagesShownRan, [ConsoleNext]_<<vars, consoleVars>>
    PROVE  StagesShownRan'
<1>0. /\ "END" \notin Nodes /\ Nodes \subseteq Drawn /\ "END" \in Drawn
      /\ Drawn = Nodes \cup {"END"} /\ DOMAIN status = Drawn
  BY DEF Nodes, Workers, Drawn, ConsoleTypeOK
<1>1. CASE \E a \in Applications : StartApp(a) \/ StartCli(a)
  <2>1. OnPage' => /\ graph_path' = << >> /\ phase' = "streaming"
                   /\ status' = [n \in Drawn |-> "pending"]
    BY <1>1, StartEffect
  <2>2. graph_path' = << >> => \A n : ~Contains(graph_path', n)
    BY EmptyPath
  <2> QED  BY <1>0, <2>1, <2>2 DEF StagesShownRan, OnPage
<1>2. CASE Receive
  <2>1. /\ phase = "streaming" /\ phase' = "streamed" /\ client = "app"
        /\ graph_path' = Append(graph_path, node) /\ node \in Nodes
        /\ UNCHANGED <<client, status>>
    BY <1>2, ReceiveEffect
  <2>2. /\ \A n : Contains(graph_path', n) <=> Contains(graph_path, n) \/ n = node
        /\ LastOf(graph_path') = node
    <3>1. graph_path \in Seq(Nodes)
      BY DEF TypeOK
    <3> QED  BY <2>1, <3>1, ContainsAppended
  <2>3. /\ status["END"] # "completed"
        /\ \A n \in Nodes : /\ status[n] \in {"running", "completed"} =>
                                  Contains(graph_path, n)
                            /\ Contains(graph_path, n) => status[n] = "completed"
    BY <2>1 DEF StagesShownRan, Drawing
  <2> QED  BY <2>1, <2>2, <2>3 DEF StagesShownRan, Drawing
\* Nothing else lengthens the path; what is left are the statuses.
<1>3. ASSUME Draws \/ Quiet, client = "app", phase # "idle"
      PROVE  StagesShownRan'
  <2>1. /\ UNCHANGED <<graph_path, node, client>>
    BY <1>3, DrawsEffect, QuietEffect DEF vars
  <2>2. /\ \A n \in Nodes :
              /\ status[n] \in {"running", "completed"} => Contains(graph_path, n)
              /\ Contains(graph_path, n) =>
                    \/ status[n] = "completed"
                    \/ phase \in (Drawing \ {"marked"}) \cup {"abandoned"}
                       /\ n = Latest
        /\ status["END"] = "completed" =>
              node = "END" /\ phase \in {"closed", "completed", "abandoned"}
        /\ phase \in {"closed", "completed"} => status["END"] = "completed"
    BY <1>3 DEF StagesShownRan, Latest
  <2> DEFINE Told(st, ph) ==
             /\ \A n \in Nodes :
                   /\ st[n] \in {"running", "completed"} => Contains(graph_path, n)
                   /\ Contains(graph_path, n) =>
                         \/ st[n] = "completed"
                         \/ ph \in (Drawing \ {"marked"}) \cup {"abandoned"}
                            /\ n = Latest
             /\ st["END"] = "completed" =>
                   node = "END" /\ ph \in {"closed", "completed", "abandoned"}
             /\ ph \in {"closed", "completed"} => st["END"] = "completed"
  <2>3. SUFFICES Told(status', phase')
    BY <2>1 DEF StagesShownRan, Latest
  <2>4. CASE UNCHANGED status /\ ~MarkCompleted /\ ~MarkEnd
    <3>1. \/ phase' = phase \/ phase' = "abandoned"
          \/ /\ phase \in Late /\ phase' \in Drawing \ {"marked"}
          \/ phase \in {"streaming", "marked"}
             /\ phase' \in {"closing", "failing", "streaming"}
          \/ phase = "closed" /\ phase' = "completed"
          \/ phase = "failing" /\ phase' = "failed"
      BY <1>3, <2>4 DEF Draws, Link, MarkRunning, MarkVisited, Quiet, Show, StreamEnds,
         Escape, MarkUnreached, Finish, Fail, Rerun, consoleVars,
         Late, Drawing, Streaming
    <3> QED  BY <2>2, <2>4, <3>1 DEF Late, Drawing
  <2>5. CASE MarkRunning /\ status' = [status EXCEPT ![Latest] = "running"]
    <3>1. phase' = "running" /\ phase = "linked"
      BY <2>5 DEF MarkRunning
    <3>2. Latest \in Nodes /\ Contains(graph_path, Latest)
      BY <3>1, LatestRan DEF Phased, Drawing
    <3> QED  BY <1>0, <2>2, <2>5, <3>1, <3>2 DEF Drawing
  <2>6. CASE MarkCompleted
    <3>1. /\ phase' = "marked" /\ phase = "visited"
          /\ status' = [status EXCEPT ![Latest] = "completed"]
      BY <2>6 DEF MarkCompleted, Latest
    <3>2. Latest \in Nodes /\ Contains(graph_path, Latest)
      BY <3>1, LatestRan DEF Phased, Drawing
    <3> QED  BY <1>0, <2>2, <2>6, <3>1, <3>2 DEF Drawing
  <2>7. ASSUME NEW n \in Drawn, MarkUnreached(n),
               status' = [status EXCEPT ![n] = "not_reached"]
        PROVE  Told(status', phase')
    <3>1. /\ phase' = phase /\ phase \in {"closing", "failing"}
          /\ ~Contains(visited, n)
      BY <2>7 DEF MarkUnreached, Unmarked
    <3>2. n \in Nodes => ~Contains(graph_path, n)
      BY <1>3, <3>1, SeenIsPath DEF VisitedRan, OnPage, Late
    <3> QED  BY <1>0, <2>2, <2>7, <3>1, <3>2 DEF Drawing
  <2>8. CASE MarkEnd
    <3>1. /\ phase = "closing" /\ phase' = "closed" /\ node = "END"
          /\ status' = [status EXCEPT !["END"] = "completed"]
      BY <2>8 DEF MarkEnd, Phased
    <3> QED  BY <1>0, <2>2, <2>8, <3>1 DEF Drawing
  <2> HIDE DEF Told
  <2> QED  BY <1>3, <2>4, <2>5, <2>6, <2>7, <2>8, StatusSteps
<1>4. CASE OffPage
  BY <1>4, OffPageEffect DEF StagesShownRan, OnPage
<1>5. (Draws \/ Quiet) /\ OnPage' => OnPage
  BY DrawsEffect, QuietEffect DEF OnPage, Late
<1> QED  BY <1>1, <1>2, <1>3, <1>4, <1>5, ClientSteps DEF StagesShownRan, OnPage

-----------------------------------------------------------------------------
(* The path drawn.                                                         *)

LEMMA HopsAppended ==
    ASSUME NEW path \in Seq(Nodes), NEW n \in Nodes
    PROVE  Hops(Append(path, n)) =
              IF path = << >> THEN {} ELSE Hops(path) \cup {<<LastOf(path), n>>}
<1> DEFINE k == Len(path)
           later == Append(path, n)
           Hop(i) == <<path[i], path[i + 1]>>
           Next2(i) == <<later[i], later[i + 1]>>
<1>1. /\ k \in Nat /\ Len(later) = k + 1
      /\ \A i \in 1..k : later[i] = path[i]
      /\ later[k + 1] = n
      /\ path = << >> <=> k = 0
  OBVIOUS
<1>2. /\ Hops(path) = {Hop(i) : i \in 1..(k - 1)}
      /\ Hops(later) = {Next2(i) : i \in 1..k}
  <2>1. Len(later) - 1 = k
    BY <1>1
  <2> QED  BY <2>1 DEF Hops
<1>3. \A i \in 1..(k - 1) : Next2(i) = Hop(i)
  BY <1>1
<1>4. CASE k = 0
  BY <1>1, <1>2, <1>4
<1>5. CASE k # 0
  <2>1. 1..k = (1..(k - 1)) \cup {k}
    BY <1>1, <1>5
  <2>2. Next2(k) = <<LastOf(path), n>>
    BY <1>1, <1>5 DEF LastOf
  <2> HIDE DEF k, Hop, Next2
  <2>3. Hops(later) = Hops(path) \cup {Next2(k)}
    BY <1>2, <1>3, <2>1
  <2> QED  BY <1>1, <1>5, <2>2, <2>3
<1> QED  BY <1>4, <1>5

\* A superstep adds a step to the path and a short cut over the one before.
LEMMA TakenAppended ==
    ASSUME TypeOK, node \in Nodes, graph_path' = Append(graph_path, node)
    PROVE  /\ Taken' = IF graph_path = << >> THEN {}
                       ELSE Taken \cup {<<Latest, node>>}
           /\ ShortCuts \subseteq ShortCuts'
           /\ Len(graph_path) > 1 =>
                 /\ <<graph_path[Len(graph_path) - 1], node>> \in ShortCuts'
                 /\ <<graph_path[Len(graph_path) - 1], Latest>> \in Taken
           /\ graph_path # << >> =>
                 Len(graph_path') > 1 /\ graph_path'[Len(graph_path') - 1] = Latest
<1> DEFINE k == Len(graph_path)
<1>0. graph_path \in Seq(Nodes)
  BY DEF TypeOK
<1>1. /\ k \in Nat /\ Len(graph_path') = k + 1
      /\ \A i \in 1..k : graph_path'[i] = graph_path[i]
      /\ graph_path'[k + 1] = node
      /\ graph_path = << >> <=> k = 0
  BY <1>0
<1>2. Taken' = IF graph_path = << >> THEN {}
               ELSE Taken \cup {<<Latest, node>>}
  BY <1>0, HopsAppended DEF Taken, Latest
<1>3. \A i \in 1..(k - 2) : /\ i \in 1..(k + 1 - 2)
                            /\ graph_path'[i] = graph_path[i]
                            /\ graph_path'[i + 2] = graph_path[i + 2]
  BY <1>1
<1>4. ShortCuts \subseteq ShortCuts'
  BY <1>1, <1>3 DEF ShortCuts
<1>5. ASSUME k > 1
      PROVE  /\ <<graph_path[k - 1], node>> \in ShortCuts'
             /\ <<graph_path[k - 1], Latest>> \in Taken
  <2>1. /\ k - 1 \in 1..(k + 1 - 2) /\ graph_path'[k - 1] = graph_path[k - 1]
        /\ graph_path'[(k - 1) + 2] = node
    BY <1>1, <1>5
  <2>2. k - 1 \in 1..(k - 1) /\ (k - 1) + 1 = k
    BY <1>1, <1>5
  <2>3. <<graph_path'[k - 1], graph_path'[(k - 1) + 2]>> \in ShortCuts'
    BY <1>1, <2>1 DEF ShortCuts
  <2>4. <<graph_path[k - 1], graph_path[(k - 1) + 1]>> \in Taken
    BY <2>2 DEF Taken, Hops
  <2>5. graph_path[(k - 1) + 1] = Latest
    BY <2>2 DEF Latest, LastOf
  <2> QED  BY <2>1, <2>3, <2>4, <2>5
<1>6. graph_path # << >> =>
         Len(graph_path') > 1 /\ graph_path'[Len(graph_path') - 1] = Latest
  BY <1>1 DEF Latest, LastOf
<1> QED  BY <1>2, <1>4, <1>5, <1>6

\* Every edge between two nodes but the reflector leads further down.
LEMMA EdgesForward ==
    ASSUME NEW m, NEW n, <<m, n>> \in EDGES
    PROVE  /\ m \in Nodes /\ n \in Nodes \cup {"END"}
           /\ m \in Forward /\ n \in Forward => Position[m] < Position[n]
           /\ m = "reflector" =>
                 n \in {"intake", "kyc_check", "credit_assessment", "END"}
<1>1. \/ m = "supervisor" /\ n = "intake"
      \/ m = "intake" /\ n \in {"kyc_check", "reflector"}
      \/ m = "kyc_check"
         /\ n \in {"credit_assessment", "offer_draft", "reflector"}
      \/ m = "credit_assessment" /\ n \in {"offer_draft", "reflector"}
      \/ m = "offer_draft" /\ n = "memory_consolidation"
      \/ m = "memory_consolidation" /\ n = "END"
      \/ m = "reflector"
         /\ n \in {"intake", "kyc_check", "credit_assessment", "END"}
  BY DEF EDGES
<1> QED  BY <1>1 DEF Nodes, Workers, Forward, Position

LEMMA Positions ==
    /\ \A n \in Forward : Position[n] \in Nat
    /\ \A m, n \in Forward : Position[m] = Position[n] => m = n
    /\ Forward \subseteq Nodes /\ "END" \notin Nodes
    /\ Forward = {"supervisor", "intake", "kyc_check", "credit_assessment",
                  "offer_draft", "memory_consolidation"}
BY DEF Forward, Nodes, Workers, Position

\* A run of the app goes on along an edge of the graph.
LEMMA FollowsEdge ==
    ASSUME TypeOK, TypeOK', Safety, NodeStep,
           node = "supervisor" => state.applicant = None
    PROVE  /\ <<node, node'>> \in EDGES
           /\ node = "offer_draft" => node' = "memory_consolidation"
           /\ node = "memory_consolidation" => node' = "END"
           /\ node = "reflector" => node' \in {"END", RetryStage(state)}
           /\ node = "kyc_check" => state.applicant # None
           /\ node = "credit_assessment" => state.kyc_result # None
<1> USE DEF EDGES
<1>1. CASE SupervisorStep
  BY <1>1, SupervisorEffect DEF Dispatch
<1>2. CASE IntakeStep
  BY <1>2, IntakeEffect
<1>3. CASE KycCheckStep
  <2>1. /\ node = "kyc_check" /\ state.applicant # None
        /\ node' \in {"reflector", "offer_draft", "credit_assessment"}
    BY <1>3, KycCheckEffect
  <2> QED  BY <2>1
<1>4. CASE CreditAssessmentStep
  <2>1. /\ node = "credit_assessment" /\ state.kyc_result # None
        /\ node' \in {"reflector", "offer_draft"}
    BY <1>4, CreditAssessmentEffect
  <2> QED  BY <2>1
<1>5. CASE ReflectorStep
  <2>1. node = "reflector" /\ node' \in {"END", RetryStage(state)}
    BY <1>5, ReflectorEffect
  <2> QED  BY <2>1 DEF RetryStage
<1>6. CASE OfferDraftStep
  BY <1>6, OfferDraftEffect
<1>7. CASE MemoryConsolidationStep
  BY <1>7, MemoryConsolidationEffect
<1> QED  BY <1>1, <1>2, <1>3, <1>4, <1>5, <1>6, <1>7 DEF NodeStep

LEMMA ProgressKept ==
    ASSUME TypeOK, TypeOK', Safety, Progress, [ConsoleNext]_<<vars, consoleVars>>
    PROVE  Progress'
<1>1. CASE \E a \in Applications : StartApp(a) \/ StartCli(a)
  <2>1. OnPage' => /\ graph_path' = << >> /\ node' = "supervisor"
                   /\ state'.applicant = None
    BY <1>1, StartEffect
  <2> QED  BY <2>1, SeenStarts DEF Progress
<1>2. CASE Receive
  <2>1. /\ phase = "streaming" /\ client = "app" /\ NodeStep
        /\ node \in Nodes /\ graph_path' = Append(graph_path, node)
    BY <1>2, ReceiveEffect
  <2>2. /\ node = "supervisor" => graph_path = << >> /\ state.applicant = None
        /\ graph_path # << >> => <<Latest, node>> \in EDGES
        /\ Taken \subseteq EDGES
        /\ "kyc_check" \in Seen => state.applicant # None
        /\ "credit_assessment" \in Seen => state.kyc_result # None
        /\ "offer_draft" \in Seen => node \in {"memory_consolidation", "END"}
        /\ "memory_consolidation" \in Seen => node = "END"
    BY <2>1 DEF Progress, OnPage
  <2>3. Seen' = Seen \cup {node} /\ Latest' = node /\ graph_path' # << >>
    BY <2>1, SeenAppended
  <2>4. Taken' \subseteq EDGES
    BY <2>1, <2>2, TakenAppended
  <2>5. /\ <<node, node'>> \in EDGES
        /\ node = "offer_draft" => node' = "memory_consolidation"
        /\ node = "memory_consolidation" => node' = "END"
        /\ node = "kyc_check" => state.applicant # None
        /\ node = "credit_assessment" => state.kyc_result # None
    BY <2>1, <2>2, FollowsEdge
  <2>6. /\ state.applicant # None => state'.applicant # None
        /\ state.kyc_result # None => state'.kyc_result # None
    BY <2>1, NodesSettle DEF Settled
  <2>7. node' # "supervisor" /\ node # "END"
    BY <2>1, <2>5 DEF EDGES, Nodes, Workers
  <2> QED  BY <2>2, <2>3, <2>4, <2>5, <2>6, <2>7 DEF Progress
<1>3. CASE Draws \/ Quiet
  <2>1. UNCHANGED <<state, node, graph_path, client>>
    BY <1>3, DrawsEffect, QuietEffect DEF vars
  <2>2. OnPage' => OnPage
    BY <1>3, <2>1, DrawsEffect, QuietEffect DEF OnPage, Late
  <2> QED  BY <2>1, <2>2, SeenStays DEF Progress
<1>4. CASE OffPage
  BY <1>4, OffPageEffect DEF Progress
<1> QED  BY <1>1, <1>2, <1>3, <1>4, ClientSteps

\* How far a run has got before its next node.
LEMMA GoesFurther ==
    ASSUME TypeOK, TypeOK', Safety, Progress, Advances, OnPage, NodeStep
    PROVE  Furthest(Seen \cup {node}, node')
<1>1. SUFFICES ASSUME node' \in Forward, NEW m \in Seen \cup {node}, m \in Forward
               PROVE  Position[m] <= Position[node']
  BY DEF Furthest
<1>2. /\ node = "supervisor" => state.applicant = None
      /\ "kyc_check" \in Seen => state.applicant # None
      /\ "credit_assessment" \in Seen => state.kyc_result # None
      /\ "offer_draft" \in Seen => node \in {"memory_consolidation", "END"}
      /\ "memory_consolidation" \in Seen => node = "END"
      /\ node \in Forward => \A k \in Seen \cap Forward : Position[k] <= Position[node]
  BY DEF Progress, Advances, Furthest
<1>3. /\ <<node, node'>> \in EDGES
      /\ node = "reflector" => node' \in {"END", RetryStage(state)}
  BY <1>2, FollowsEdge
<1>4. /\ Position[m] \in Nat /\ Position[node'] \in Nat
      /\ node \in Forward => Position[node] \in Nat /\ Position[node] < Position[node']
      /\ node \in Nodes
  BY <1>1, <1>3, EdgesForward, Positions
<1>5. CASE node \in Forward
  <2>1. Position[m] <= Position[node]
    BY <1>1, <1>2, <1>4, <1>5
  <2> QED  BY <1>4, <1>5, <2>1
<1>6. CASE node = "reflector"
  <2>1. m \in Seen /\ node' = RetryStage(state)
    BY <1>1, <1>3, <1>6, Positions DEF Forward
  <2>2. m \notin {"offer_draft", "memory_consolidation"}
    BY <1>2, <1>6, <2>1
  <2>3. state.applicant = None => state.kyc_result = None
    BY DEF Safety, ThreadInvariant
  <2>4. \/ /\ node' = "intake"
           /\ m \notin {"kyc_check", "credit_assessment"}
        \/ node' = "kyc_check" /\ m # "credit_assessment"
        \/ node' = "credit_assessment"
    BY <1>2, <2>1, <2>3 DEF RetryStage
  <2>5. m \in {"supervisor", "intake", "kyc_check", "credit_assessment"}
    BY <1>1, <2>2, Positions
  <2> QED  BY <2>4, <2>5 DEF Position
<1> QED  BY <1>4, <1>5, <1>6 DEF Forward

LEMMA AdvancesKept ==
    ASSUME TypeOK, TypeOK', Safety, ConsoleTypeOK, Phased, VisitedRan, Progress,
           Advances, [ConsoleNext]_<<vars, consoleVars>>
    PROVE  Advances'
<1>1. CASE \E a \in Applications : StartApp(a) \/ StartCli(a)
  <2>1. OnPage' => graph_path' = << >> /\ visited' = << >>
    BY <1>1, StartEffect
  <2>2. graph_path' = << >> => Furthest(Seen', node')
    BY SeenStarts DEF Furthest
  <2> QED  BY <2>1, <2>2 DEF Advances, Furthest
<1>2. CASE Receive
  <2>1. /\ phase = "streaming" /\ client = "app" /\ NodeStep
        /\ node \in Nodes /\ graph_path' = Append(graph_path, node)
        /\ visited' = visited
    BY <1>2, ReceiveEffect
  <2>2. OnPage
    BY <2>1 DEF OnPage
  <2>3. Seen' = Seen \cup {node} /\ Latest' = node
    BY <2>1, SeenAppended
  <2>4. Furthest(Seen', node')
    BY <2>1, <2>2, <2>3, GoesFurther
  <2>5. Furthest(Seen', Latest')
    <3>1. Furthest(Seen, node)
      BY <2>2 DEF Advances
    <3>2. \A n \in Forward : Position[n] <= Position[n]
      BY Positions
    <3> QED  BY <2>3, <3>1, <3>2 DEF Furthest
  <2>6. visited' # << >> =>
           Furthest({n \in Nodes : Contains(visited', n)}, Newest')
    BY <2>1, <2>2 DEF Advances, Furthest, Newest
  <2> QED  BY <2>4, <2>5, <2>6 DEF Advances, Furthest
<1>3. CASE MarkVisited
  <2>1. /\ UNCHANGED vars /\ client' = client /\ phase = "running"
        /\ graph_path # << >>
        /\ \A n : Contains(visited', n) <=> Contains(visited, n) \/ n = Latest
        /\ Contains(visited, Latest) => visited' = visited
        /\ ~Contains(visited, Latest) => Newest' = Latest
        /\ Latest \in Seen
    BY <1>3, VisitEffect
  <2>2. SUFFICES ASSUME OnPage
                 PROVE  Advances'
    BY <2>1 DEF Advances, OnPage
  <2>3. /\ Furthest(Seen, node) /\ Furthest(Seen, Latest)
        /\ visited # << >> =>
              Furthest({n \in Nodes : Contains(visited, n)}, Newest)
        /\ \A n \in Nodes : Contains(visited, n) => n \in Seen
    BY <2>1, <2>2 DEF Advances, VisitedRan
  <2>4. UNCHANGED <<graph_path, node>> /\ Seen' = Seen /\ Latest' = Latest
    BY <2>1, SeenStays DEF vars
  <2>5. visited' # << >> =>
           Furthest({n \in Nodes : Contains(visited', n)}, Newest')
    <3>1. CASE Contains(visited, Latest)
      BY <2>1, <2>3, <3>1 DEF Furthest, Newest
    <3>2. CASE ~Contains(visited, Latest)
      <4>1. {n \in Nodes : Contains(visited', n)} \subseteq Seen
        BY <2>1, <2>3
      <4> QED  BY <2>1, <2>3, <3>2, <4>1 DEF Furthest
    <3> QED  BY <3>1, <3>2
  <2> QED  BY <2>3, <2>4, <2>5 DEF Advances, Furthest
<1>4. CASE Link \/ MarkRunning \/ Quiet
  <2>1. UNCHANGED <<node, graph_path, client, visited>> /\ (OnPage' => OnPage)
    BY <1>4, QuietEffect DEF Link, MarkRunning, vars, OnPage, Late
  <2> QED  BY <2>1, SeenStays DEF Advances, Furthest, Newest
<1>5. CASE OffPage
  BY <1>5, OffPageEffect DEF Advances
<1> QED  BY <1>1, <1>2, <1>3, <1>4, <1>5, ClientSteps DEF Draws

\* A node the app has visited follows only the one visited last, or itself
\* is that one: a reflection does not skip it.
LEMMA NothingSkipped ==
    ASSUME TypeOK, ConsoleTypeOK, OnPage, phase = "streaming", VisitedRan,
           Progress, Advances, visited # << >>, Newest # Latest,
           Len(graph_path) > 1, Newest = graph_path[Len(graph_path) - 1],
           node \in Nodes, Contains(visited, node)
    PROVE  node = Newest
<1>1. /\ Contains(visited, Newest) /\ Newest \in Nodes
  <2>1. visited \in Seq(Nodes) /\ Len(visited) \in 1..Len(visited)
    BY DEF ConsoleTypeOK
  <2> QED  BY <2>1 DEF Newest, LastOf, Contains
<1>2. graph_path # << >> /\ Latest \in Nodes /\ Latest \in Seen
  BY LatestRan
<1>3. \A n \in Nodes : Contains(visited, n) <=> n \in Seen
  BY DEF VisitedRan, Late
<1>4. <<Latest, node>> \in EDGES /\ Taken \subseteq EDGES
  BY <1>2 DEF Progress
<1>5. <<Newest, Latest>> \in Taken
  <2>1. /\ Len(graph_path) \in Nat /\ Len(graph_path) - 1 \in 1..(Len(graph_path) - 1)
        /\ (Len(graph_path) - 1) + 1 = Len(graph_path)
    BY DEF TypeOK
  <2>2. <<graph_path[Len(graph_path) - 1], graph_path[(Len(graph_path) - 1) + 1]>>
           \in Taken
    BY <2>1 DEF Taken, Hops
  <2> QED  BY <2>1, <2>2 DEF Latest, LastOf
<1>6. /\ node \in Forward => \A m \in Seen \cap Forward : Position[m] <= Position[node]
      /\ Latest \in Forward =>
            \A m \in Seen \cap Forward : Position[m] <= Position[Latest]
      /\ Newest \in Forward =>
            \A m \in {n \in Nodes : Contains(visited, n)} \cap Forward :
               Position[m] <= Position[Newest]
  BY <1>2 DEF Advances, Furthest
<1>7. CASE Newest = "reflector"
  <2>1. Latest \in Forward
    <3>1. Latest \in {"intake", "kyc_check", "credit_assessment", "END"}
      BY <1>4, <1>5, <1>7, EdgesForward
    <3> QED  BY <1>2, <3>1, Positions
  <2>2. SUFFICES node \notin Forward
    BY <1>7 DEF Forward
  <2>3. SUFFICES ASSUME node \in Forward
                 PROVE  FALSE
    OBVIOUS
  <2>4. Position[Latest] < Position[node] /\ Position[node] <= Position[Latest]
    BY <1>3, <1>4, <1>6, <2>1, <2>3, EdgesForward
  <2> QED  BY <2>1, <2>3, <2>4, Positions
<1>8. CASE Newest # "reflector"
  <2>1. Newest \in Forward
    BY <1>1, <1>8 DEF Forward
  <2>2. Latest = "reflector"
    <3>1. SUFFICES ASSUME Latest \in Forward
                   PROVE  FALSE
      BY <1>2 DEF Forward
    <3>2. Position[Newest] < Position[Latest]
      BY <1>4, <1>5, <2>1, <3>1, EdgesForward
    <3>3. Position[Latest] <= Position[Newest]
      BY <1>2, <1>3, <1>6, <2>1, <3>1
    <3> QED  BY <2>1, <3>1, <3>2, <3>3, Positions
  <2>3. node \in Forward
    <3>1. node \in {"intake", "kyc_check", "credit_assessment", "END"}
      BY <1>4, <2>2, EdgesForward
    <3> QED  BY <3>1, Positions
  <2>4. Position[Newest] <= Position[node]
    BY <1>1, <1>3, <1>6, <2>1, <2>3
  <2>5. Position[node] <= Position[Newest]
    BY <1>6, <2>1, <2>3
  <2>6. Position[node] = Position[Newest]
    BY <2>1, <2>3, <2>4, <2>5, Positions
  <2> QED  BY <2>1, <2>3, <2>6, Positions
<1> QED  BY <1>7, <1>8

LEMMA CloseKept ==
    ASSUME TypeOK, TypeOK', Safety, ConsoleTypeOK, Phased, VisitedRan,
           Progress, Advances, Close, [ConsoleNext]_<<vars, consoleVars>>
    PROVE  Close'
<1>1. CASE \E a \in Applications : StartApp(a) \/ StartCli(a)
  <2>1. OnPage' => visited' = << >>
    BY <1>1, StartEffect
  <2> QED  BY <2>1 DEF Close
<1>2. CASE Receive
  <2>1. /\ phase = "streaming" /\ phase' = "streamed" /\ client = "app"
        /\ node \in Nodes /\ graph_path' = Append(graph_path, node)
        /\ visited' = visited
    BY <1>2, ReceiveEffect
  <2>2. SUFFICES ASSUME visited # << >>
                 PROVE  /\ <<Newest, node>> \in Taken' \cup ShortCuts'
                        /\ Contains(visited, node) => Near'
    <3>1. Latest' = node /\ Newest' = Newest
      BY <2>1, SeenAppended DEF Newest
    <3> QED  BY <2>1, <3>1 DEF Close, Late
  <2>3. OnPage /\ Near
    BY <2>1, <2>2 DEF Close, OnPage, Late
  <2>4. Newest \in Seen
    <3>1. visited \in Seq(Nodes) /\ Len(visited) \in 1..Len(visited)
      BY <2>2 DEF ConsoleTypeOK
    <3>2. Contains(visited, Newest) /\ Newest \in Nodes
      BY <3>1 DEF Newest, LastOf, Contains
    <3> QED  BY <2>3, <3>2 DEF VisitedRan
  <2>5. graph_path # << >>
    BY <2>4, EmptyPath DEF Seen
  <2>6. /\ Taken' = Taken \cup {<<Latest, node>>}
        /\ Len(graph_path) > 1 =>
              <<graph_path[Len(graph_path) - 1], node>> \in ShortCuts'
        /\ Len(graph_path') > 1 /\ graph_path'[Len(graph_path') - 1] = Latest
    BY <2>1, <2>5, TakenAppended
  <2>7. Latest' = node /\ Newest' = Newest
    BY <2>1, SeenAppended DEF Newest
  <2>8. CASE Newest = Latest
    BY <2>6, <2>7, <2>8 DEF Near
  <2>9. CASE Newest # Latest
    <3>1. Len(graph_path) > 1 /\ Newest = graph_path[Len(graph_path) - 1]
      BY <2>3, <2>9 DEF Near
    <3>2. Contains(visited, node) => node = Newest
      BY <2>1, <2>2, <2>3, <2>9, <3>1, NothingSkipped
    <3> QED  BY <2>6, <2>7, <3>1, <3>2 DEF Near
  <2> QED  BY <2>8, <2>9
<1>3. CASE Link \/ MarkRunning
  <2>1. /\ UNCHANGED <<graph_path, client, visited>>
        /\ phase \in Late /\ phase' \in Late
    BY <1>3 DEF Link, MarkRunning, Late, vars
  <2>2. phase # "idle" /\ phase # "abandoned"
    BY <2>1 DEF Late
  <2> QED  BY <2>1, <2>2, SeenStays DEF Close, OnPage, Near, Newest
<1>4. CASE MarkVisited
  <2>1. /\ UNCHANGED <<vars, client>> /\ phase = "running" /\ phase' = "visited"
        /\ Contains(visited, Latest) => visited' = visited
        /\ ~Contains(visited, Latest) => Newest' = Latest
    BY <1>4, VisitEffect
  <2>2. UNCHANGED graph_path /\ Latest' = Latest
    BY <2>1, SeenStays DEF vars
  <2>3. SUFFICES ASSUME OnPage, visited' # << >>
                 PROVE  Near'
    BY <2>1 DEF Close, OnPage, Late
  <2>4. CASE Contains(visited, Latest)
    <3>1. visited' = visited /\ Newest' = Newest
      BY <2>1, <2>4 DEF Newest
    <3>2. Near
      BY <2>1, <2>3, <2>4, <3>1 DEF Close, Late
    <3> QED  BY <2>2, <3>1, <3>2 DEF Near
  <2>5. CASE ~Contains(visited, Latest)
    BY <2>1, <2>2, <2>5 DEF Near
  <2> QED  BY <2>4, <2>5
<1>5. CASE Quiet
  <2>1. UNCHANGED <<graph_path, client, visited>>
    BY <1>5, QuietEffect
  <2>2. \/ phase' = phase
        \/ phase' = "abandoned"
        \/ phase \notin Late \cup {"idle", "abandoned"} /\ phase' \notin Late
    BY <1>5, QuietEffect
  <2>3. /\ Latest' = Latest /\ Newest' = Newest /\ Taken' = Taken
        /\ ShortCuts' = ShortCuts
    BY <2>1, SeenStays DEF Newest
  <2>4. Near' <=> Near
    BY <2>1, <2>3 DEF Near
  <2>5. CASE phase' = phase
    BY <2>1, <2>3, <2>4, <2>5 DEF Close, OnPage
  <2>6. CASE phase' = "abandoned"
    BY <2>6 DEF Close
  <2>7. CASE phase \notin Late \cup {"idle", "abandoned"} /\ phase' \notin Late
    BY <2>1, <2>4, <2>7 DEF Close, OnPage
  <2> QED  BY <2>2, <2>5, <2>6, <2>7
<1>6. CASE OffPage
  BY <1>6, OffPageEffect DEF Close
<1> QED  BY <1>1, <1>2, <1>3, <1>4, <1>5, <1>6, ClientSteps DEF Draws

LEMMA EdgesKept ==
    ASSUME TypeOK, Safety, ConsoleTypeOK, Phased, Close, EdgesTaken,
           [ConsoleNext]_<<vars, consoleVars>>
    PROVE  EdgesTaken'
<1>1. CASE \E a \in Applications : StartApp(a) \/ StartCli(a)
  <2>1. OnPage' => edges' = {}
    BY <1>1, StartEffect
  <2> QED  BY <2>1 DEF EdgesTaken
<1>2. CASE Receive
  <2>1. /\ phase = "streaming" /\ client = "app" /\ edges' = edges
        /\ node \in Nodes /\ graph_path' = Append(graph_path, node)
    BY <1>2, ReceiveEffect
  <2>2. edges \subseteq Taken \cup ShortCuts
    BY <2>1 DEF EdgesTaken, OnPage
  <2>3. ShortCuts \subseteq ShortCuts'
        /\ Taken' = IF graph_path = << >> THEN {}
                    ELSE Taken \cup {<<Latest, node>>}
    BY <2>1, TakenAppended
  <2>4. Taken \subseteq Taken'
    BY <2>3, EmptyPath DEF Taken
  <2> QED  BY <2>1, <2>2, <2>3, <2>4 DEF EdgesTaken
<1>3. CASE Link
  <2>1. /\ phase = "streamed" /\ phase' = "linked"
        /\ UNCHANGED <<graph_path, client>>
        /\ edges' = edges \/ (visited # << >>
                              /\ edges' = edges \cup {<<Newest, Latest>>})
    BY <1>3 DEF Link, Linked, Newest, Latest, vars
  <2>2. client = "app" /\ OnPage
    BY <2>1 DEF Phased, Drawing, OnPage
  <2>3. visited # << >> => <<Newest, Latest>> \in Taken \cup ShortCuts
    BY <2>1, <2>2 DEF Close, Late
  <2> QED  BY <2>1, <2>2, <2>3, SeenStays DEF EdgesTaken
<1>4. CASE MarkRunning \/ MarkVisited \/ Quiet
  <2>1. UNCHANGED <<graph_path, client, edges>> /\ (OnPage' => OnPage)
    BY <1>4, QuietEffect DEF MarkRunning, MarkVisited, vars, OnPage, Late
  <2> QED  BY <2>1, SeenStays DEF EdgesTaken
<1>5. CASE OffPage
  BY <1>5, OffPageEffect DEF EdgesTaken
<1> QED  BY <1>1, <1>2, <1>3, <1>4, <1>5, ClientSteps DEF Draws

LEMMA PathKept ==
    ASSUME TypeOK, TypeOK', Safety, ConsoleTypeOK, Phased, VisitedRan, Progress,
           Advances, StraightPath, [ConsoleNext]_<<vars, consoleVars>>
    PROVE  StraightPath'
<1>1. CASE \E a \in Applications : StartApp(a) \/ StartCli(a)
  <2>1. OnPage' => /\ graph_path' = << >> /\ visited' = << >> /\ edges' = {}
                   /\ phase' = "streaming"
    BY <1>1, StartEffect
  <2> QED  BY <2>1, SeenStarts DEF StraightPath, Late
<1>2. CASE Receive
  <2>1. /\ phase = "streaming" /\ phase' = "streamed" /\ client = "app"
        /\ node \in Nodes /\ graph_path' = Append(graph_path, node)
        /\ NodeStep /\ UNCHANGED <<visited, edges>>
    BY <1>2, ReceiveEffect
  <2>2. Seen' = Seen \cup {node} /\ Latest' = node
    BY <2>1, SeenAppended
  <2>3. SUFFICES ASSUME "reflector" \notin Seen, node # "reflector"
                 PROVE  StraightPath'
    BY <2>2 DEF StraightPath
  <2>4. OnPage /\ node \in Forward /\ Seen \subseteq Forward
    <3>1. graph_path \in Seq(Nodes)
      BY DEF TypeOK
    <3>2. \A i \in 1..Len(graph_path) : graph_path[i] \in Nodes
      BY <3>1
    <3>3. Seen \subseteq Nodes
      BY <3>2 DEF Seen
    <3> QED  BY <2>1, <2>3, <3>3 DEF OnPage, Forward
  <2>5. /\ visited = graph_path /\ edges = Taken
        /\ \A n \in Seen : Position[n] < Position[node]
    BY <2>1, <2>3, <2>4 DEF StraightPath, Late
  <2>6. node \notin Seen
    BY <2>4, <2>5, Positions
  <2>7. /\ graph_path' = Append(visited, Latest')
        /\ ~Contains(visited, Latest')
        /\ visited # << >> => <<Newest, Latest'>> \in EDGES
    <3>1. graph_path # << >> => <<Latest, node>> \in EDGES
      BY <2>4 DEF Progress
    <3> QED  BY <2>1, <2>2, <2>5, <2>6, <3>1, SeenIsPath DEF Newest, Latest
  <2>8. Lagging' /\ edges' = Hops(visited')
    BY <2>1, <2>5, <2>7 DEF Lagging, Newest, Taken
  <2>9. ASSUME node' \in Forward, NEW n \in Seen'
        PROVE  Position[n] < Position[node']
    <3>1. <<node, node'>> \in EDGES
      BY <2>1, <2>4, FollowsEdge DEF Progress
    <3>2. Position[node] < Position[node']
      BY <2>4, <2>9, <3>1, EdgesForward
    <3>3. /\ n \in Forward /\ Position[n] \in Nat /\ Position[node] \in Nat
          /\ Position[node'] \in Nat
      BY <2>2, <2>4, <2>9, Positions
    <3>4. n = node \/ Position[n] < Position[node]
      BY <2>2, <2>5, <2>9
    <3> QED  BY <3>2, <3>3, <3>4
  <2> QED  BY <2>1, <2>8, <2>9 DEF StraightPath
<1>3. CASE Draws \/ Quiet
  <2>1. UNCHANGED <<node, graph_path, client>> /\ (OnPage' => OnPage)
    BY <1>3, DrawsEffect, QuietEffect DEF vars, OnPage, Late
  <2>2. Seen' = Seen /\ Taken' = Taken /\ Latest' = Latest
    BY <2>1, SeenStays
  <2>3. SUFFICES ASSUME OnPage, "reflector" \notin Seen
                 PROVE  \/ phase' \notin Late /\ visited' = graph_path
                           /\ edges' = Taken
                        \/ phase' \in {"linked", "running", "abandoned"}
                           /\ Lagging' /\ edges' = Taken
                        \/ phase' \in {"streamed", "abandoned"} /\ Lagging'
                           /\ edges' = Hops(visited')
    BY <2>1, <2>2 DEF StraightPath
  <2>4. \/ phase \notin Late /\ visited = graph_path /\ edges = Taken
        \/ phase \in {"linked", "running", "abandoned"} /\ Lagging
           /\ edges = Taken
        \/ phase \in {"streamed", "abandoned"} /\ Lagging
           /\ edges = Hops(visited)
    BY <2>3 DEF StraightPath
  <2>5. CASE Link
    <3>1. /\ phase = "streamed" /\ phase' = "linked" /\ visited' = visited
          /\ edges' = IF visited # << >> /\ <<Newest, Latest>> \in EDGES
                      THEN edges \cup {<<Newest, Latest>>} ELSE edges
      BY <2>5 DEF Link, Linked, Newest, Latest
    <3>2. Lagging /\ edges = Hops(visited)
      BY <2>4, <3>1 DEF Late
    <3>3. Lagging'
      BY <2>1, <2>2, <3>1, <3>2 DEF Lagging, Newest
    <3>4. Taken = IF visited = << >> THEN {}
                  ELSE Hops(visited) \cup {<<Newest, Latest>>}
      <4>1. visited \in Seq(Nodes) /\ Latest \in Nodes
        BY <3>1, LatestRan DEF ConsoleTypeOK, Phased, Drawing
      <4>2. Hops(Append(visited, Latest)) =
               IF visited = << >> THEN {}
               ELSE Hops(visited) \cup {<<LastOf(visited), Latest>>}
        BY <4>1, HopsAppended
      <4> QED  BY <3>2, <4>2 DEF Lagging, Taken, Newest
    <3>5. edges' = Taken
      BY <3>1, <3>2, <3>4, EmptyPath DEF Lagging
    <3> QED  BY <3>1, <3>3, <3>5
  <2>6. CASE MarkRunning
    <3>1. /\ phase = "linked" /\ phase' = "running"
          /\ UNCHANGED <<visited, edges>>
      BY <2>6 DEF MarkRunning
    <3>2. Lagging /\ edges = Taken
      BY <2>4, <3>1 DEF Late
    <3> QED  BY <2>1, <2>2, <3>1, <3>2 DEF Lagging, Newest
  <2>7. CASE MarkVisited
    <3>1. /\ phase = "running" /\ phase' = "visited" /\ edges' = edges
          /\ ~Contains(visited, Latest) => visited' = Append(visited, Latest)
      BY <2>7, VisitEffect
    <3>2. Lagging /\ edges = Taken
      BY <2>4, <3>1 DEF Late
    <3> QED  BY <3>1, <3>2 DEF Lagging, Late
  <2>8. CASE Quiet
    <3>1. /\ UNCHANGED <<visited, edges>>
          /\ \/ phase' = phase \/ phase' = "abandoned"
             \/ phase \notin Late \cup {"abandoned"} /\ phase' \notin Late
      BY <2>8, QuietEffect
    <3>2. (Lagging <=> Lagging') /\ Hops(visited') = Hops(visited)
      BY <2>1, <2>2, <3>1 DEF Lagging, Newest
    <3> QED  BY <2>4, <3>1, <3>2 DEF Late
  <2> QED  BY <1>3, <2>5, <2>6, <2>7, <2>8 DEF Draws
<1>4. CASE OffPage
  BY <1>4, OffPageEffect DEF StraightPath
<1> QED  BY <1>1, <1>2, <1>3, <1>4, ClientSteps

-----------------------------------------------------------------------------
(* Theorems.                                                               *)

LEMMA ConsoleStarts == ConsoleInit => ConsoleInvariant
<1> SUFFICES ASSUME ConsoleInit
             PROVE  ConsoleInvariant
  OBVIOUS
<1>1. TypeOK /\ Safety
  BY TypeInit, SafetyInit DEF ConsoleInit
<1>2. /\ client = "app" /\ phase = "idle" /\ shown = None
      /\ shadow = [c \in Channels |-> Blank(c)]
      /\ status = [n \in Drawn |-> "pending"] /\ visited = << >>
      /\ edges = {}
  BY DEF ConsoleInit
<1>3. visited \in Seq(Nodes) /\ DOMAIN shadow = Channels
  BY <1>2
<1>4. ConsoleTypeOK
  BY <1>2, <1>3 DEF ConsoleTypeOK
<1>5. ~OnPage
  BY <1>2 DEF OnPage
<1> QED  BY <1>1, <1>2, <1>4, <1>5
         DEF ConsoleInvariant, Phased, CopyFollows, VerdictsShown, VisitedRan,
             StagesShownRan, Progress, Advances, Close, EdgesTaken,
             StraightPath, Underway, Drawing

LEMMA ConsoleStep ==
    ConsoleInvariant /\ [ConsoleNext]_<<vars, consoleVars>> =>
        ConsoleInvariant'
<1> SUFFICES ASSUME ConsoleInvariant, [ConsoleNext]_<<vars, consoleVars>>
             PROVE  ConsoleInvariant'
  OBVIOUS
<1>1. /\ TypeOK /\ Safety /\ ConsoleTypeOK /\ Phased
      /\ CopyFollows /\ VerdictsShown /\ VisitedRan /\ StagesShownRan
      /\ Progress /\ Advances /\ Close /\ EdgesTaken /\ StraightPath
  BY DEF ConsoleInvariant
<1>2. TypeOK' /\ Safety'
  BY <1>1, ThreadKept
<1>3. ConsoleTypeOK' /\ Phased' /\ CopyFollows' /\ VerdictsShown'
  BY <1>1, <1>2, ConsoleTyped, PhasesKept, CopyKept
<1>4. VisitedRan' /\ StagesShownRan'
  BY <1>1, VisitedKept, StagesKept
<1>5. Progress' /\ Advances'
  BY <1>1, <1>2, ProgressKept, AdvancesKept
<1>6. Close' /\ EdgesTaken' /\ StraightPath'
  BY <1>1, <1>2, CloseKept, EdgesKept, PathKept
<1> QED  BY <1>2, <1>3, <1>4, <1>5, <1>6 DEF ConsoleInvariant

LEMMA ConsoleAlways == ConsoleSpec => []ConsoleInvariant
<1> QED  BY ConsoleStarts, ConsoleStep, PTL DEF ConsoleSpec

\* The straight path shows every step but the one the app is at.
LEMMA StraightPathShown ==
    ASSUME ConsoleInvariant, OnPage, ~Contains(graph_path, "reflector")
    PROVE  /\ edges \subseteq Taken
           /\ \A e \in Taken \ edges :
                 /\ phase \in {"streamed", "abandoned"}
                 /\ e = <<graph_path[Len(graph_path) - 1], LastOf(graph_path)>>
<1>1. /\ TypeOK /\ ConsoleTypeOK /\ "reflector" \notin Seen
      /\ \/ edges = Taken
         \/ phase \in {"streamed", "abandoned"} /\ Lagging
            /\ edges = Hops(visited)
  BY SeenIsPath DEF ConsoleInvariant, StraightPath
<1>2. CASE edges = Taken
  BY <1>2
<1>3. CASE phase \in {"streamed", "abandoned"} /\ Lagging /\ edges = Hops(visited)
  <2>1. visited \in Seq(Nodes) /\ graph_path = Append(visited, Latest)
    BY <1>1, <1>3 DEF ConsoleTypeOK, Lagging
  <2>2. graph_path # << >> /\ Len(graph_path) = Len(visited) + 1
        /\ Len(visited) \in Nat
    BY <2>1
  <2>3. Latest \in Nodes
    BY <1>1, <2>2, LatestRan
  <2>4. Taken = IF visited = << >> THEN {}
                ELSE Hops(visited) \cup {<<LastOf(visited), Latest>>}
    BY <2>1, <2>3, HopsAppended DEF Taken
  <2>5. visited # << >> => graph_path[Len(graph_path) - 1] = LastOf(visited)
    BY <2>1, <2>2 DEF LastOf
  <2>6. visited = << >> => Hops(visited) = {}
    BY EmptyPath
  <2> QED  BY <1>3, <2>4, <2>5, <2>6 DEF Latest
<1> QED  BY <1>1, <1>2, <1>3

\* Whatever a user clicks, reruns or abandons, the page is in one of its
\* phases, only the node statuses _mark_running, _mark_completed and the end
\* of a run enter are on it, and only edges of the graph.
THEOREM ConsoleTyping == ConsoleSpec => []ConsoleTypeOK
<1>1. ConsoleInvariant => ConsoleTypeOK
  BY DEF ConsoleInvariant
<1> QED  BY <1>1, ConsoleAlways, PTL

\* dict.update never shows an applicant another one's verdicts: what either
\* client prints of profile, KYC result, assessment and offer is the thread's,
\* on a thread used before and after a failure too.
THEOREM VerdictsAlwaysShown == ConsoleSpec => []VerdictsShown
<1>1. ConsoleInvariant => VerdictsShown
  BY DEF ConsoleInvariant
<1> QED  BY <1>1, ConsoleAlways, PTL

\* The statuses of the page are those of the run: what is drawn running or
\* completed ran, and what ran is drawn completed, but for the one node whose
\* update _mark_running was not given the time to enter, and no run is drawn
\* finished before its end.
THEOREM StagesAlwaysRan == ConsoleSpec => []StagesShownRan
<1>1. ConsoleInvariant => StagesShownRan
  BY DEF ConsoleInvariant
<1> QED  BY <1>1, ConsoleAlways, PTL

\* _mark_running, which draws an edge from the node first visited last, draws
\* the path of a run without a reflection up to the step it is at; on any run
\* the edges it draws are steps taken or lead over one node, however often
\* the reflector sends the run back.
THEOREM PathsAlwaysShown == ConsoleSpec => []PathShown
<1>1. ASSUME ConsoleInvariant
      PROVE  PathShown
  <2>1. EdgesTaken
    BY <1>1 DEF ConsoleInvariant
  <2> QED  BY <1>1, <2>1, StraightPathShown DEF PathShown, EdgesTaken, OnPage
<1> QED  BY <1>1, ConsoleAlways, PTL

\* A thread run by the clients keeps the guarantees of the graph, which the
\* run of Console checks none of: reruns of the page, fresh threads and
\* unreadable checkpoints add no way around the policy gates.
THEOREM ClientsKeepThePolicy ==
    ConsoleSpec => [](WorkerPreconditions /\ PolicyDecides /\ OfferJustified)
<1>1. ConsoleInvariant => WorkerPreconditions /\ PolicyDecides /\ OfferJustified
  BY DEF ConsoleInvariant, Safety
<1> QED  BY <1>1, ConsoleAlways, PTL
=============================================================================
