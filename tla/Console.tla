------------------------------- MODULE Console -------------------------------
(***************************************************************************)
(* The two clients of the graph, the CLI (cli.py) and the Streamlit app    *)
(* (app.py), and the picture each keeps of the thread it runs.             *)
(*                                                                         *)
(* Both stream the update of every superstep into a copy of their input    *)
(* with dict.update, which knows no reducers, and exchange the copy for    *)
(* the thread's checkpoint once the stream ends, if it can be read.  The   *)
(* app shows the copy after every node, marks nodes and edges on a graph   *)
(* of its own, and opens a fresh thread every time; the CLI prints once,   *)
(* and may be given the thread of an earlier run.                          *)
(*                                                                         *)
(* A superstep and what the app draws of it are steps of their own, and so *)
(* is every entry the app makes in its session: what its user does in the  *)
(* meantime is a rerun, raised at the next entry or element, which stops   *)
(* the run for good and draws the page again from what was entered so far. *)
(***************************************************************************)
EXTENDS LoanGraph, SequencesExt

VARIABLES
    client,    \* who runs, or last ran, the thread: "app" or "cli"
    phase,     \* where its run is
    shadow,    \* its copy of the state: current_state, last_state
    shown,     \* the outcome shown: final_state, FINAL RESULT (None: nothing)
    status,    \* node_status of the app
    visited,   \* visited_nodes of the app, in the order of the first visit
    edges      \* executed_edges of the app

consoleVars == <<client, phase, shadow, shown, status, visited, edges>>

Drawn == Nodes \cup {"END"}

EDGES == {<<"supervisor", "intake">>, <<"intake", "kyc_check">>,
          <<"intake", "reflector">>, <<"kyc_check", "credit_assessment">>,
          <<"kyc_check", "offer_draft">>, <<"kyc_check", "reflector">>,
          <<"credit_assessment", "offer_draft">>,
          <<"credit_assessment", "reflector">>,
          <<"offer_draft", "memory_consolidation">>,
          <<"memory_consolidation", "END">>, <<"reflector", "intake">>,
          <<"reflector", "kyc_check">>, <<"reflector", "credit_assessment">>,
          <<"reflector", "END">>}

-----------------------------------------------------------------------------
(* The client's copy.                                                      *)

\* dict.update: what the update holds replaces what the copy held.
Updated(copy, update) ==
    [c \in Channels |-> IF c \in DOMAIN update THEN update[c] ELSE copy[c]]

\* The updates the scheduled node may return to LangGraph.
Returned ==
    CASE node = "supervisor" -> Supervisor(state)
      [] node = "intake" -> Intake(state)
      [] node = "kyc_check" -> KycCheck(state)
      [] node = "credit_assessment" -> CreditAssessment(state)
      [] node = "reflector" -> Reflector(state)
      [] node = "offer_draft" -> IF OfferPreconditionBroken(state) THEN {}
                                 ELSE {OfferDraft(state)}
      [] OTHER -> {<< >>}

\* A superstep of the thread, and the copy once its update is streamed.
Streamed ==
    /\ NodeStep
    /\ \E u \in Returned :
          /\ state' = Merge(state, u)
          /\ shadow' = Updated(shadow, u)

-----------------------------------------------------------------------------
(* The app's drawing of the run.                                           *)

\* Mutant: the nodes and edges of the run before stay drawn.
ResetRun_KeepsPath ==
    /\ shown' = None
    /\ status' = [n \in Drawn |-> "pending"]
    /\ UNCHANGED <<visited, edges>>

\* _reset_run: nothing of the run before is left on the page.
ResetRun ==
    /\ shown' = None
    /\ status' = [n \in Drawn |-> "pending"]
    /\ visited' = << >>
    /\ edges' = {}

\* The edge to a node is drawn from the node visited last for the first time.
Linked(n) ==
    IF visited # << >> /\ <<LastOf(visited), n>> \in EDGES
    THEN edges \cup {<<LastOf(visited), n>>} ELSE edges

\* Mutant: a node that runs again is drawn recovered, not running.
Started_Recovered(n) == IF Contains(visited, n) THEN "recovered" ELSE "running"

Started(n) == "running"

\* Mutant: every node that is not visited is done with.
Unreached_Completed(n) == "completed"

\* What the end of a run makes of a node no update came from.
Unreached(n) == "not_reached"

\* The nodes the end of a run has yet to enter as such, in the order it does.
NODE_LABELS == <<"supervisor", "intake", "kyc_check", "credit_assessment",
                 "offer_draft", "memory_consolidation", "reflector", "END">>

Unmarked == {n \in Drawn : ~Contains(visited, n) /\ status[n] # Unreached(n)}

Follows(m, n) == \E i, j \in 1..Len(NODE_LABELS) :
                    i < j /\ NODE_LABELS[i] = n /\ NODE_LABELS[j] = m

-----------------------------------------------------------------------------
(* Runs.                                                                   *)

Streaming == phase = "streaming"

\* An update has arrived and the app makes its entries, one after the other.
Drawing == {"streamed", "linked", "running", "visited", "marked"}

Underway == phase \in {"streaming", "closing", "closed", "failing"} \cup Drawing

\* "Start application": a thread of a random id is opened, on which nothing
\* was ever submitted.
StartApp(a) ==
    /\ ~Underway
    /\ used.submissions < MaxSubmissions
    /\ state' = Merge([c \in Channels |-> Blank(c)], NewState(<<a>>))
    /\ node' = "supervisor" /\ running' = TRUE /\ graph_path' = << >>
    /\ inherited' = [c \in DOMAIN inherited |-> 0]
    /\ used' = [used EXCEPT !.submissions = @ + 1]
    /\ client' = "app" /\ phase' = "streaming"
    /\ shadow' = Updated([c \in Channels |-> Blank(c)], NewState(<<a>>))
    /\ ResetRun
    /\ UNCHANGED memory

\* python cli.py --thread-id: the thread of the last run, or the first one.
StartCli(a) ==
    /\ ~Underway
    /\ Submit(a)
    /\ client' = "cli" /\ phase' = "streaming"
    /\ shadow' = Updated([c \in Channels |-> Blank(c)], NewState(<<a>>))
    /\ ResetRun

\* The app waits for the next update while the node runs to its end.
Receive ==
    /\ Streaming /\ client = "app"
    /\ Streamed
    /\ phase' = "streamed"
    /\ UNCHANGED <<client, shown, status, visited, edges>>

\* _mark_running enters the edge, the status and the visit of the node ...
Link ==
    /\ phase = "streamed"
    /\ edges' = Linked(LastOf(graph_path))
    /\ phase' = "linked"
    /\ UNCHANGED <<vars, client, shadow, shown, status, visited>>

MarkRunning ==
    /\ phase = "linked"
    /\ status' = [status EXCEPT ![LastOf(graph_path)] =
                     Started(LastOf(graph_path))]
    /\ phase' = "running"
    /\ UNCHANGED <<vars, client, shadow, shown, visited, edges>>

MarkVisited ==
    /\ phase = "running"
    /\ visited' = IF Contains(visited, LastOf(graph_path)) THEN visited
                  ELSE Append(visited, LastOf(graph_path))
    /\ phase' = "visited"
    /\ UNCHANGED <<vars, client, shadow, shown, status, edges>>

\* ... _mark_completed its end, and the loop the copy of the state.
MarkCompleted ==
    /\ phase = "visited"
    /\ status' = [status EXCEPT ![LastOf(graph_path)] = "completed"]
    /\ phase' = "marked"
    /\ UNCHANGED <<vars, client, shadow, shown, visited, edges>>

Show ==
    /\ phase = "marked"
    /\ shown' = shadow
    /\ phase' = "streaming"
    /\ UNCHANGED <<vars, client, shadow, status, visited, edges>>

\* The CLI prints a line for the node, and nothing of the outcome yet.
PrintStage ==
    /\ Streaming /\ client = "cli"
    /\ Streamed
    /\ UNCHANGED <<client, phase, shown, status, visited, edges>>

\* The stream is at its end, or an exception has escaped the graph.
StreamEnds ==
    /\ Streaming /\ client = "app" /\ ~running /\ node = "END"
    /\ phase' = "closing"
    /\ UNCHANGED <<vars, client, shadow, shown, status, visited, edges>>

Escape ==
    /\ Streaming /\ client = "app"
    /\ Crash
    /\ phase' = "failing"
    /\ UNCHANGED <<client, shadow, shown, status, visited, edges>>

\* What was not visited is entered as not reached, END only after a failure.
MarkUnreached(n) ==
    /\ \/ phase = "closing" /\ n # "END"
       \/ phase = "failing"
    /\ n \in Unmarked
    /\ \A m \in Unmarked \ {n} : Follows(m, n)
    /\ status' = [status EXCEPT ![n] = Unreached(n)]
    /\ UNCHANGED <<vars, client, phase, shadow, shown, visited, edges>>

MarkEnd ==
    /\ phase = "closing" /\ Unmarked \subseteq {"END"}
    /\ status' = [status EXCEPT !["END"] = "completed"]
    /\ phase' = "closed"
    /\ UNCHANGED <<vars, client, shadow, shown, visited, edges>>

\* The copy gives way to the checkpoint, unless that could not be read.
Finish ==
    /\ phase = "closed"
    /\ shown' \in {state, shadow}
    /\ phase' = "completed"
    /\ UNCHANGED <<vars, client, shadow, status, visited, edges>>

Fail ==
    /\ phase = "failing" /\ Unmarked = {}
    /\ phase' = "failed"
    /\ UNCHANGED <<vars, client, shadow, shown, status, visited, edges>>

\* A rerun of the page: no handler runs and nothing else is entered.  It does
\* not reach into a node, which runs in the call for the next update.
Rerun ==
    /\ Underway /\ client = "app"
    /\ phase' = "abandoned" /\ running' = FALSE
    /\ UNCHANGED <<state, node, memory, graph_path, inherited, used,
                   client, shadow, shown, status, visited, edges>>

\* The CLI prints the checkpoint, or reports a failure over its copy when that
\* cannot be read or an exception has escaped the graph.
FinishCli ==
    /\ Streaming /\ client = "cli" /\ ~running /\ node = "END"
    /\ \/ shown' = state /\ phase' = "completed"
       \/ shown' = shadow /\ phase' = "failed"
    /\ UNCHANGED <<vars, client, shadow, status, visited, edges>>

EscapeCli ==
    /\ Streaming /\ client = "cli"
    /\ Crash
    /\ phase' = "failed" /\ shown' = shadow
    /\ UNCHANGED <<client, shadow, status, visited, edges>>

\* Ctrl-C stops the node at work, but not what it did to the long-term store.
Interrupt ==
    /\ Streaming /\ client = "cli"
    /\ phase' = "abandoned" /\ running' = FALSE
    /\ memory' \in IF Scheduled("memory_consolidation") THEN Consolidated
                   ELSE {memory}
    /\ UNCHANGED <<state, node, graph_path, inherited, used,
                   client, shadow, shown, status, visited, edges>>

\* "Clear / new application", once the rerun has stopped what ran.
Clear ==
    /\ client = "app" /\ ~Underway
    /\ phase' = "idle"
    /\ ResetRun
    /\ UNCHANGED <<vars, client, shadow>>

ConsoleInit ==
    /\ Init
    /\ client = "app" /\ phase = "idle"
    /\ shadow = [c \in Channels |-> Blank(c)] /\ shown = None
    /\ status = [n \in Drawn |-> "pending"]
    /\ visited = << >> /\ edges = {}

ConsoleNext ==
    \/ \E a \in Applications : StartApp(a) \/ StartCli(a)
    \/ Receive \/ Link \/ MarkRunning \/ MarkVisited \/ MarkCompleted \/ Show
    \/ StreamEnds \/ Escape \/ (\E n \in Drawn : MarkUnreached(n))
    \/ MarkEnd \/ Finish \/ Fail \/ Rerun \/ Clear
    \/ PrintStage \/ FinishCli \/ EscapeCli \/ Interrupt

ConsoleSpec == ConsoleInit /\ [][ConsoleNext]_<<vars, consoleVars>>

-----------------------------------------------------------------------------
\* A run is in one of its phases, and the page draws the nodes of the graph
\* in statuses the code assigns: no node is ever drawn failed or recovered.
ConsoleTypeOK ==
    /\ client \in {"app", "cli"}
    /\ phase \in {"idle", "streaming", "closing", "closed", "failing",
                  "completed", "failed", "abandoned"} \cup Drawing
    /\ DOMAIN shadow = Channels
    /\ shown # None => DOMAIN shown = Channels
    /\ status \in [Drawn -> {"pending", "running", "completed", "not_reached"}]
    /\ visited \in Seq(Nodes)
    /\ edges \subseteq EDGES

Verdicts == {"applicant", "kyc_result", "credit_assessment", "offer"}

\* The profile, verdicts and offer a client shows, live, at the end, or when
\* its run failed or its checkpoint could not be read, are those the thread
\* holds, though the copy does not follow the reducers and the thread may
\* have held another application; an abandoned page at most lags behind.
VerdictsShown ==
    shown # None =>
        /\ phase \notin Drawing \cup {"abandoned"} =>
              \A f \in Verdicts : shown[f] = state[f]
        /\ shown.applicant \in {None, state.applicant}

\* The statuses on the page tell what ran: nodes drawn running or completed
\* did, and every other that ran is drawn completed, but for the node whose
\* update the app is entering, or was when a rerun stopped it.  END is drawn
\* completed at the end of the graph and only there.
StagesShownRan ==
    client = "app" /\ phase # "idle" =>
        /\ \A n \in Nodes :
              /\ status[n] \in {"running", "completed"} =>
                    Contains(graph_path, n)
              /\ Contains(graph_path, n) =>
                    \/ status[n] = "completed"
                    \/ phase \in (Drawing \ {"marked"}) \cup {"abandoned"}
                       /\ n = LastOf(graph_path)
        /\ status["END"] = "completed" =>
              node = "END" /\ phase \in {"closed", "completed", "abandoned"}
        /\ phase \in {"closed", "completed"} => status["END"] = "completed"

Hops(path) == {<<path[i], path[i + 1]>> : i \in 1..(Len(path) - 1)}

Taken == Hops(graph_path)

\* Two steps taken one after the other, drawn as one.
ShortCuts == {<<graph_path[i], graph_path[i + 2]>> : i \in 1..(Len(graph_path) - 2)}

\* The path drawn for a run that met no reflection is the path it took, but
\* for the last edge while that is not entered yet, or when a rerun came first.
\* After a reflection the app may draw one edge over a node in between where
\* two were taken, and never one over more than that.
PathShown ==
    client = "app" /\ phase # "idle" =>
        /\ ~Contains(graph_path, "reflector") =>
              /\ edges \subseteq Taken
              /\ \A e \in Taken \ edges :
                    /\ phase \in {"streamed", "abandoned"}
                    /\ e = <<graph_path[Len(graph_path) - 1], LastOf(graph_path)>>
        /\ edges \subseteq Taken \cup ShortCuts

\* app.py:784: "Indicative offer generated." is shown for an approval, which
\* the graph may have sent to a human instead.
SuccessMeansOffer ==
    client = "app" /\ phase = "completed" /\ shown.credit_assessment # None
        /\ shown.credit_assessment.decision = "approve" => shown.offer # None
=============================================================================
