------------------------ MODULE OfflineWorkflowProofs ------------------------
(***************************************************************************)
(* Proofs about the offline onboarding for any commands, exports, proposals  *)
(* and call limits, and any number of failures and kills.                   *)
(***************************************************************************)
EXTENDS OfflineWorkflow, FiniteSetTheorems, TLAPS

-----------------------------------------------------------------------------
(* Types. *)

Ids == Contents \cup {Nothing}
Places == {"generate", "review", "ask", "confirm", "end"}
Nodes == [at : Places, role : Roles, round : Nat, id : Ids]
Checkpoints == Nodes \cup {Nothing}

Controls ==
    {"idle", "generate", "calling", "answered", "validating", "proposed",
     "saving", "review", "pending", "asking", "respond", "publish_mapping",
     "publish_profile", "decided", "confirm", "publish_graph", "publish_prov",
     "confirmed", "end", "scan", "verify", "publish_verification", "complete",
     "failing", "ended"}
Stages == {Nobody, "created", "mapping_review", "mapping_revision", "causal_generation",
           "causal_review", "causal_revision", "confirmation", "approved", "aborted"}
Artifacts == {"mapping", "profile", "graph", "provenance", "verification"}
Targets == {"graph", "provenance", "profile"}

CallRows == [role : Roles, seq : Nat, st : {"confirmed", "network", "other"}]
Proposals == [round : Nat, id : Contents]
Events == [round : Nat, id : Ids, dec : Decisions \cup {Nobody}]

CommandsOK ==
    /\ pc \in [Commands -> Controls]
    /\ node \in [Commands -> Nodes]
    /\ dec \in [Commands -> Decisions \cup {Nobody}]
    /\ seq \in [Commands -> Nat]

LogsOK ==
    /\ calls \in Seq(CallRows)
    /\ props \in [Roles -> Seq(Proposals)]
    /\ events \in [Roles -> Seq(Events)]

StateOK ==
    /\ state \in [stage : Stages, aborted : BOOLEAN, latest : Checkpoints,
                  round : [Roles -> Nat]]
    /\ storage \in Checkpoints

OthersOK ==
    /\ DOMAIN file = Artifacts
    /\ DOMAIN target = Targets
    /\ export \in [Exports -> Targets \cup {"idle", "ended"}]
    /\ answers \in SUBSET (Roles \X Nat \X Ids \X (Decisions \cup {Nobody}))
    /\ requests \in [Roles -> Nat]
    /\ overlap \in BOOLEAN
    /\ kills \in Nat

TypeOK == CommandsOK /\ LogsOK /\ StateOK /\ OthersOK

-----------------------------------------------------------------------------
(* What a command, a checkpoint, a log entry and a file stand for. *)

\* Where in the workflow a command is when it does what it does.
PlaceOf(to) ==
    IF to \in {"generate", "calling", "answered", "validating", "proposed"} THEN {"generate"}
    ELSE IF to \in {"asking", "respond", "publish_mapping", "publish_profile", "decided"}
         THEN {"ask"}
    ELSE IF to = "review" THEN {"review"}
    ELSE IF to = "pending" THEN {"ask", "end"}
    ELSE IF to \in {"confirm", "publish_graph", "publish_prov", "confirmed"} THEN {"confirm"}
    ELSE Places

Active(p) == pc[p] \notin {"idle", "ended"}

\* What a human answered to the proposal of a node.
Said(x, d) == <<x.role, x.round, x.id, d>> \in answers

\* A graph is confirmed that a human approved.
Endorsed(x) == x.at = "confirm" => x.role = "causal" /\ Said(x, "approve")

\* A node names a proposal that was stored.
Stored(x) == x.at # "generate" => x.round <= Len(props[x.role])

CommandInv(p) ==
    LET n == node[p]  at == pc[p] IN
    /\ n.at \in PlaceOf(at)
    /\ at = "idle" => n = StartNode
    /\ Endorsed(n) /\ Stored(n)
    /\ at \in {"calling", "answered", "validating"} => n.round <= Len(props[n.role]) + 1
    /\ at = "proposed" => n.round <= Len(props[n.role])
    /\ at \in {"respond", "decided", "publish_mapping", "publish_profile"} => Said(n, dec[p])
    /\ at \in {"publish_mapping", "publish_profile"} =>
          n.role = "mapping" /\ dec[p] = "approve"

CheckpointInv ==
    \A x \in {storage, state.latest} : x # Nothing => Endorsed(x) /\ Stored(x)

\* Before discover there is nothing.
StartInv ==
    state.stage = Nobody =>
        /\ storage = Nothing /\ state.latest = Nothing
        /\ \A p \in Commands : ~Active(p)
        /\ \A r \in Roles : events[r] = <<>>

\* Commands overlap only when overlap says so.
SoloInv == ~overlap => \A p, q \in Commands : Active(p) /\ Active(q) => p = q

LogInv ==
    /\ \A r \in Roles : \A i \in 1 .. Len(events[r]) :
          <<r, events[r][i].round, events[r][i].id, events[r][i].dec>> \in answers
    /\ \A a \in answers : a[2] <= Len(props[a[1]])

FileInv ==
    \A pair \in {<<"mapping", "mapping">>, <<"profile", "mapping">>, <<"graph", "causal">>} :
          file[pair[1]] # Nothing =>
              \E a \in answers : a[1] = pair[2] /\ a[3] = file[pair[1]] /\ a[4] = "approve"

\* An export works on files that nobody can change any more.
ExportInv ==
    LET frozen == /\ file["mapping"] # Nothing /\ file["profile"] = file["mapping"]
                  /\ file["graph"] # Nothing /\ file["provenance"] # Nothing
    IN
    /\ \A e \in Exports :
          /\ export[e] \notin {"idle", "ended"} => frozen
          /\ export[e] \in {"provenance", "profile"} => target["graph"] # Nothing
          /\ export[e] = "profile" => target["provenance"] # Nothing
    /\ \A f \in Targets : target[f] # Nothing => target[f] = file[f]
    /\ target["profile"] # Nothing =>
          frozen /\ target["graph"] # Nothing /\ target["provenance"] # Nothing

-----------------------------------------------------------------------------
(* Counting. *)

\* A command whose request has no row in model_calls.jsonl yet, and one whose
\* response has no proposal yet.
Flies(p, r) == pc[p] \in {"calling", "answered"} /\ node[p].role = r
Validates(p, r) == pc[p] = "validating" /\ node[p].role = r

Flying(r) == {p \in Commands : Flies(p, r)}
Validating(r) == {p \in Commands : Validates(p, r)}

CountInv(r) ==
    /\ Len(props[r]) + Cardinality(Validating(r)) <= RoleCallsConfirmed(r)
    /\ RoleCalls(r) + Cardinality(Flying(r)) <= requests[r]
    /\ requests[r] <= RoleCalls(r) + Cardinality(Flying(r)) + kills
    /\ RoleCalls(r) + Cardinality(Flying(r))
          <= Limit(r) + (IF overlap THEN Cardinality(Commands) - 1 ELSE 0)

-----------------------------------------------------------------------------
(* The order of questions, as long as commands follow each other and no     *)
(* question was answered twice.                                            *)

Numbered == \A r \in Roles : \A i \in 1 .. Len(events[r]) : events[r][i].round = i
Regular == ~overlap /\ Numbered

\* Of the answers an: none is about a later proposal of the node's role.
Newest(x, an) == \A a \in an : a[1] = x.role => a[2] <= x.round

\* A question that no event of ev answers.
Open(x, ev) == x.at = "ask" /\ x.round > Len(ev[x.role])

LastDecision(ev, r) == ev[r][Len(ev[r])].dec
ApprovedLast(ev, r) == ev[r] # <<>> /\ LastDecision(ev, r) = "approve"

\* What a command can be at, or resume from, given what humans decided.
Settled(x, ev, an) ==
    /\ ApprovedLast(ev, x.role) =>
          x.at \in {"ask", "confirm", "end"} /\ x.round <= Len(ev[x.role])
    /\ ev["causal"] # <<>> => x.role = "causal"
    /\ x.at # "generate" => Newest(x, an)

\* The checkpoints: the newest one, and the one the state file records.
Ordered(newest, recorded, ev, an) ==
    /\ newest # Nothing => Settled(newest, ev, an)
    /\ recorded # Nothing => Settled(recorded, ev, an)
    /\ recorded # Nothing /\ Open(recorded, ev) => newest = recorded
    /\ \A r \in Roles : ApprovedLast(ev, r) => \A a \in an : a[1] = r => a[2] <= Len(ev[r])

\* A command at a node, with a decision, against the checkpoints.
Steady(at, n, d, newest, recorded, ev, an) ==
    /\ Settled(n, ev, an)
    /\ at \in {"calling", "answered", "validating", "proposed"} => Newest(n, an)
    /\ recorded # Nothing /\ Open(recorded, ev) =>
          at \in {"pending", "asking", "respond"} /\ n.at = "ask"
    /\ at \in {"pending", "asking", "respond"} /\ Open(n, ev) => newest = n
    /\ at = "pending" /\ n.at = "end" => newest = n
    /\ at \in {"asking", "respond"} /\ Open(n, ev) => recorded = n
    /\ at \in {"decided", "publish_mapping", "publish_profile"} =>
          ev[n.role] # <<>> /\ LastDecision(ev, n.role) = d

OrderInv == Regular => Ordered(storage, state.latest, events, answers)

CommandOrderInv(p) ==
    Regular /\ Active(p) =>
        Steady(pc[p], node[p], dec[p], storage, state.latest, events, answers)

-----------------------------------------------------------------------------
IInv ==
    /\ TypeOK /\ CheckpointInv /\ StartInv /\ SoloInv /\ LogInv /\ FileInv /\ ExportInv
    /\ OrderInv
    /\ \A p \in Commands : CommandInv(p) /\ CommandOrderInv(p)
    /\ \A r \in Roles : CountInv(r)

-----------------------------------------------------------------------------
\* A node made of parts of their types.
LEMMA NodeTyped ==
    ASSUME NEW at \in Places, NEW r \in Roles, NEW round \in Nat, NEW id \in Ids
    PROVE  Node(at, r, round, id) \in Nodes
  BY DEF Node, Nodes

\* A node at another place of the workflow.
LEMMA NodeMoved ==
    ASSUME NEW x \in Nodes, NEW at \in Places
    PROVE  /\ [x EXCEPT !.at = at] \in Nodes
           /\ [x EXCEPT !.at = at].at = at
           /\ [x EXCEPT !.at = at].role = x.role
           /\ [x EXCEPT !.at = at].round = x.round
           /\ [x EXCEPT !.at = at].id = x.id
  BY DEF Nodes

\* A node about another proposal.
LEMMA NodeNamed ==
    ASSUME NEW x \in Nodes, NEW id \in Ids
    PROVE  /\ [x EXCEPT !.id = id] \in Nodes
           /\ [x EXCEPT !.id = id].at = x.at
           /\ [x EXCEPT !.id = id].role = x.role
           /\ [x EXCEPT !.id = id].round = x.round
           /\ [x EXCEPT !.id = id].id = id
  BY DEF Nodes

\* The fields of a node.
LEMMA NodeFields ==
    ASSUME NEW x \in Nodes
    PROVE  x.at \in Places /\ x.role \in Roles /\ x.round \in Nat /\ x.id \in Ids
  BY DEF Nodes

\* No node is the empty checkpoint.
LEMMA NodeIsSomething == \A x \in Nodes : x # Nothing
<1> SUFFICES ASSUME NEW x \in Nodes, x = Nothing PROVE FALSE
  OBVIOUS
<1>1. "at" \in DOMAIN x
  BY DEF Nodes
<1>2. DOMAIN <<>> = {}
  OBVIOUS
<1> QED
  BY <1>1, <1>2 DEF Nothing

\* GoTo keeps the types of the commands.
LEMMA GoToTyped ==
    ASSUME CommandsOK, NEW p \in Commands, NEW to \in Controls, NEW n \in Nodes,
           GoTo(p, to, n)
    PROVE  CommandsOK'
  BY DEF CommandsOK, GoTo

\* Update changes the stage alone.
LEMMA UpdateTyped ==
    ASSUME StateOK, NEW stage \in Stages, Update(stage)
    PROVE  /\ state' \in [stage : Stages, aborted : BOOLEAN, latest : Checkpoints,
                            round : [Roles -> Nat]]
           /\ state'.latest = state.latest /\ state'.stage = stage
  BY DEF StateOK, Update

\* The initial state has its types.
LEMMA InitTypeOK == Init => TypeOK
<1> SUFFICES ASSUME Init PROVE TypeOK
  OBVIOUS
<1>1. CommandsOK
  <2>1. StartNode \in Nodes
    BY NodeTyped DEF StartNode, Places, Roles, Ids
  <2> QED
    BY <2>1 DEF Init, CommandsOK, Controls
<1>2. LogsOK
  BY DEF Init, LogsOK
<1>3. StateOK
  <2>1. state \in [stage : Stages, aborted : BOOLEAN, latest : Checkpoints, round : [Roles -> Nat]]
    BY DEF Init, Checkpoints, Stages
  <2> QED
    BY <2>1 DEF Init, StateOK, Checkpoints
<1>4. OthersOK
  BY DEF Init, OthersOK, Artifacts, Targets
<1> QED
  BY <1>1, <1>2, <1>3, <1>4 DEF TypeOK

\* Every step keeps the types of the commands.
LEMMA NextCommandsOK == TypeOK /\ [Next]_vars => CommandsOK'
<1> SUFFICES ASSUME TypeOK, [Next]_vars PROVE CommandsOK'
  OBVIOUS
<1> USE DEF TypeOK
<1>1. ASSUME NEW p \in Commands, Discover(p) PROVE CommandsOK'
  BY <1>1
     DEF Discover, Update, Go, Touch, Node, StartNode, outside, ghosts, CommandsOK,
         Controls, Decisions
<1>2. ASSUME NEW p \in Commands, Resume(p) PROVE CommandsOK'
  <2> DEFINE from == IF state.latest # Nothing THEN state.latest ELSE storage
  <2>1. from \in Nodes
    BY <1>2 DEF Resume, StateOK, Checkpoints
  <2>2. (IF from.at = "ask" THEN "pending" ELSE from.at) \in Controls
    BY <2>1, NodeFields DEF Places, Controls
  <2>3. GoTo(p, IF from.at = "ask" THEN "pending" ELSE from.at, from)
    BY <1>2 DEF Resume
  <2> HIDE DEF from
  <2> QED
    BY <2>1, <2>2, <2>3, GoToTyped DEF TypeOK
<1>3. ASSUME NEW p \in Commands, Raise(p) PROVE CommandsOK'
  BY <1>3 DEF Raise, Go, Touch, outside, ghosts, CommandsOK, Controls, Decisions
<1>4. ASSUME NEW p \in Commands, Save(p) PROVE CommandsOK'
  BY <1>4, NodeFields
     DEF Save, Go, Touch, data, outside, ghosts, CommandsOK, Controls, Decisions,
         Places
<1>5. ASSUME NEW p \in Commands, StreamEnds(p) PROVE CommandsOK'
  <2>1. \E to \in Controls : Go(p, to)
    BY <1>5 DEF StreamEnds, Controls
  <2> QED
    BY <2>1 DEF Go, CommandsOK
<1>6. ASSUME NEW p \in Commands, Generate(p) PROVE CommandsOK'
  <2> DEFINE r == node[p].role
  <2>1. r \in Roles /\ Len(props[r]) + 1 \in Nat /\ Len(calls) + 1 \in Nat
    BY NodeFields DEF CommandsOK, LogsOK
  <2>2. Node("generate", r, Len(props[r]) + 1, Nothing) \in Nodes
    BY <2>1, NodeTyped DEF Places, Ids
  <2> QED
    BY <1>6, <2>1, <2>2 DEF Generate, Go, CommandsOK, Controls
<1>7. ASSUME NEW p \in Commands, Answered(p) PROVE CommandsOK'
  BY <1>7
     DEF Answered, Row, Go, Touch, Log, outside, ghosts, CommandsOK, Controls,
         Decisions
<1>8. ASSUME NEW p \in Commands, LogCall(p) PROVE CommandsOK'
  BY <1>8
     DEF LogCall, CallRow, Go, Touch, Log, outside, ghosts, CommandsOK, Controls,
         Decisions
<1>9. ASSUME NEW p \in Commands, CallFails(p) PROVE CommandsOK'
  BY <1>9
     DEF CallFails, Failures, CallRow, Fault, Go, Touch, Log, ghosts, CommandsOK,
         Controls, Decisions
<1>10. ASSUME NEW p \in Commands, MappingRefused(p) PROVE CommandsOK'
  BY <1>10
     DEF MappingRefused, Refused, Fault, Go, data, ghosts, CommandsOK, Controls,
         Decisions
<1>11. ASSUME NEW p \in Commands, GraphRefused(p) PROVE CommandsOK'
  BY <1>11
     DEF GraphRefused, Refused, Fault, Go, data, ghosts, CommandsOK, Controls,
         Decisions
<1>12. ASSUME NEW p \in Commands, Propose(p) PROVE CommandsOK'
  <2>1. PICK id \in Contents : GoTo(p, "proposed", [node[p] EXCEPT !.id = id])
    BY <1>12 DEF Propose
  <2>2. [node[p] EXCEPT !.id = id] \in Nodes
    BY NodeNamed, NodeFields DEF CommandsOK, Ids
  <2> QED
    BY <2>1, <2>2, GoToTyped DEF Controls
<1>13. ASSUME NEW p \in Commands, Drafted(p) PROVE CommandsOK'
  <2>1. [node[p] EXCEPT !.at = "review"] \in Nodes
    BY NodeMoved, NodeFields DEF CommandsOK, Places
  <2> QED
    BY <1>13, <2>1, GoToTyped DEF Drafted, Controls
<1>14. ASSUME NEW p \in Commands, Review(p) PROVE CommandsOK'
  <2>1. [node[p] EXCEPT !.at = "ask"] \in Nodes
    BY NodeMoved, NodeFields DEF CommandsOK, Places
  <2>2. CASE Go(p, "failing")
    BY <2>2 DEF Go, CommandsOK, Controls
  <2>3. CASE GoTo(p, "saving", [node[p] EXCEPT !.at = "ask"])
    BY <2>1, <2>3, GoToTyped DEF Controls
  <2> QED
    BY <1>14, <2>2, <2>3 DEF Review
<1>15. ASSUME NEW p \in Commands, Answer(p) PROVE CommandsOK'
  BY <1>15 DEF Answer, data, outside, CommandsOK, Controls, Decisions
<1>16. ASSUME NEW p \in Commands, Respond(p) PROVE CommandsOK'
  <2>1. CASE \E to \in Controls : Go(p, to)
    BY <2>1 DEF Go, CommandsOK
  <2>2. ASSUME NEW id \in ProposalRow(node[p]), NEW to \in Controls,
               GoTo(p, to, [node[p] EXCEPT !.id = id])
        PROVE CommandsOK'
    <3>1. [node[p] EXCEPT !.id = id] \in Nodes
      BY NodeNamed, NodeFields DEF CommandsOK, ProposalRow
    <3> QED
      BY <2>2, <3>1, GoToTyped
  <2>3. {"decided", "failing", "publish_mapping"} \subseteq Controls
    BY DEF Controls
  <2> QED
    BY <1>16, <2>1, <2>2, <2>3 DEF Respond
<1>17. ASSUME NEW p \in Commands, PublishMapping(p) PROVE CommandsOK'
  BY <1>17
     DEF PublishMapping, Publish, Go, Touch, outside, ghosts, CommandsOK, Controls,
         Decisions
<1>18. ASSUME NEW p \in Commands, PublishProfile(p) PROVE CommandsOK'
  BY <1>18
     DEF PublishProfile, Publish, Go, Touch, outside, ghosts, CommandsOK, Controls,
         Decisions
<1>19. ASSUME NEW p \in Commands, Decided(p) PROVE CommandsOK'
  <2>1. \E n \in Nodes : GoTo(p, "saving", n)
    <3>1. \A r \in Roles : Node("generate", r, 0, Nothing) \in Nodes
      BY NodeTyped DEF Places, Ids
    <3>2. \A at \in {"confirm", "end"} : [node[p] EXCEPT !.at = at] \in Nodes
      BY NodeMoved, NodeFields DEF CommandsOK, Places
    <3>3. node[p].role \in Roles /\ "causal" \in Roles
      BY NodeFields DEF CommandsOK, Roles
    <3> QED
      BY <1>19, <3>1, <3>2, <3>3 DEF Decided
  <2> QED
    BY <2>1, GoToTyped DEF Controls
<1>20. ASSUME NEW p \in Commands, Confirm(p) PROVE CommandsOK'
  <2>1. CASE Go(p, "failing")
    BY <2>1 DEF Go, CommandsOK, Controls
  <2>2. ASSUME NEW id \in ProposalRow(node[p]),
               GoTo(p, "publish_graph", [node[p] EXCEPT !.id = id])
        PROVE CommandsOK'
    <3>1. [node[p] EXCEPT !.id = id] \in Nodes
      BY NodeNamed, NodeFields DEF CommandsOK, ProposalRow
    <3> QED
      BY <2>2, <3>1, GoToTyped DEF Controls
  <2> QED
    BY <1>20, <2>1, <2>2 DEF Confirm
<1>21. ASSUME NEW p \in Commands, PublishGraph(p) PROVE CommandsOK'
  BY <1>21
     DEF PublishGraph, Publish, Go, Touch, outside, ghosts, CommandsOK, Controls,
         Decisions
<1>22. ASSUME NEW p \in Commands, PublishProvenance(p) PROVE CommandsOK'
  BY <1>22
     DEF PublishProvenance, Publish, Go, Touch, outside, ghosts, CommandsOK, Controls,
         Decisions
<1>23. ASSUME NEW p \in Commands, Approved(p) PROVE CommandsOK'
  <2>1. [node[p] EXCEPT !.at = "end"] \in Nodes
    BY NodeMoved, NodeFields DEF CommandsOK, Places
  <2> QED
    BY <1>23, <2>1, GoToTyped DEF Approved, Controls
<1>24. ASSUME NEW p \in Commands, Scan(p) PROVE CommandsOK'
  BY <1>24 DEF Scan, Go, Touch, data, outside, ghosts, CommandsOK, Controls, Decisions
<1>25. ASSUME NEW p \in Commands, VerifyAll(p) PROVE CommandsOK'
  BY <1>25 DEF VerifyAll, Go, data, outside, ghosts, CommandsOK, Controls, Decisions
<1>26. ASSUME NEW p \in Commands, PublishVerification(p) PROVE CommandsOK'
  BY <1>26
     DEF PublishVerification, Publish, Go, Touch, outside, ghosts, CommandsOK,
         Controls, Decisions
<1>27. ASSUME NEW p \in Commands, WriteCompletion(p) PROVE CommandsOK'
  BY <1>27
     DEF WriteCompletion, Go, data, outside, ghosts, CommandsOK, Controls, Decisions
<1>28. ASSUME NEW e \in Exports, ExportStart(e) PROVE CommandsOK'
  BY <1>28 DEF ExportStart, command, data, ghosts, CommandsOK, Controls, Decisions
<1>29. ASSUME NEW e \in Exports, ExportWrite(e) PROVE CommandsOK'
  BY <1>29
     DEF ExportWrite, ExportNext, command, data, ghosts, CommandsOK, Controls,
         Decisions
<1>30. CASE Kill
  BY <1>30 DEF Kill, command, Go, data, ghosts, CommandsOK, Controls, Decisions
<1>31. CASE UNCHANGED vars
  BY <1>31 DEF vars, data, command, outside, ghosts, CommandsOK, Controls, Decisions
<1> QED
  BY <1>1, <1>2, <1>3, <1>4, <1>5, <1>6, <1>7, <1>8, <1>9, <1>10, <1>11, <1>12, <1>13,
     <1>14, <1>15, <1>16, <1>17, <1>18, <1>19, <1>20, <1>21, <1>22, <1>23, <1>24,
     <1>25, <1>26, <1>27, <1>28, <1>29, <1>30, <1>31
     DEF Next, Executor, Command

\* Every step keeps the types of the logs.
LEMMA NextLogsOK == TypeOK /\ [Next]_vars => LogsOK'
<1> SUFFICES ASSUME TypeOK, [Next]_vars PROVE LogsOK'
  OBVIOUS
<1> USE DEF TypeOK
<1>1. ASSUME NEW p \in Commands, Discover(p) PROVE LogsOK'
  BY <1>1 DEF Discover, Update, Go, Touch, Node, StartNode, outside, ghosts, LogsOK
<1>2. ASSUME NEW p \in Commands, Resume(p) PROVE LogsOK'
  BY <1>2 DEF Resume, Resumable, GoTo, Touch, data, outside, LogsOK
<1>3. ASSUME NEW p \in Commands, Raise(p) PROVE LogsOK'
  BY <1>3 DEF Raise, Go, Touch, outside, ghosts, LogsOK
<1>4. ASSUME NEW p \in Commands, Save(p) PROVE LogsOK'
  BY <1>4 DEF Save, Go, Touch, data, outside, ghosts, LogsOK
<1>5. ASSUME NEW p \in Commands, StreamEnds(p) PROVE LogsOK'
  BY <1>5 DEF StreamEnds, Go, Touch, outside, ghosts, LogsOK
<1>6. ASSUME NEW p \in Commands, Generate(p) PROVE LogsOK'
  BY <1>6 DEF Generate, Go, Node, data, outside, LogsOK
<1>7. ASSUME NEW p \in Commands, Answered(p) PROVE LogsOK'
  BY <1>7 DEF Answered, Row, Go, Touch, Log, outside, ghosts, LogsOK
<1>8. ASSUME NEW p \in Commands, LogCall(p) PROVE LogsOK'
  BY <1>8, NodeFields
     DEF LogCall, CallRow, Go, Touch, Log, outside, ghosts, LogsOK, CommandsOK,
         CallRows
<1>9. ASSUME NEW p \in Commands, CallFails(p) PROVE LogsOK'
  BY <1>9, NodeFields
     DEF CallFails, Failures, CallRow, Fault, Go, Touch, Log, ghosts, LogsOK,
         CommandsOK, CallRows
<1>10. ASSUME NEW p \in Commands, MappingRefused(p) PROVE LogsOK'
  BY <1>10 DEF MappingRefused, Refused, Fault, Go, data, ghosts, LogsOK
<1>11. ASSUME NEW p \in Commands, GraphRefused(p) PROVE LogsOK'
  BY <1>11 DEF GraphRefused, Refused, Fault, Go, data, ghosts, LogsOK
<1>12. ASSUME NEW p \in Commands, Propose(p) PROVE LogsOK'
  <2>1. PICK id \in Contents :
          props' = [props EXCEPT ![node[p].role] = Append(@, [round |-> node[p].round, id |-> id])]
    BY <1>12 DEF Propose
  <2>2. [round |-> node[p].round, id |-> id] \in Proposals
    BY NodeFields DEF CommandsOK, Proposals
  <2>3. UNCHANGED <<calls, events>>
    BY <1>12 DEF Propose
  <2>4. node[p].role \in Roles
    BY NodeFields DEF CommandsOK
  <2> QED
    BY <2>1, <2>2, <2>3, <2>4 DEF LogsOK
<1>13. ASSUME NEW p \in Commands, Drafted(p) PROVE LogsOK'
  BY <1>13 DEF Drafted, GoTo, Touch, outside, ghosts, LogsOK
<1>14. ASSUME NEW p \in Commands, Review(p) PROVE LogsOK'
  BY <1>14 DEF Review, Go, GoTo, data, outside, ghosts, LogsOK
<1>15. ASSUME NEW p \in Commands, Answer(p) PROVE LogsOK'
  BY <1>15 DEF Answer, data, outside, LogsOK
<1>16. ASSUME NEW p \in Commands, Respond(p) PROVE LogsOK'
  <2>1. Event(node[p], dec[p]) \in Events
    BY NodeFields DEF CommandsOK, Events, Event
  <2>2. events' = [events EXCEPT ![node[p].role] = Append(@, Event(node[p], dec[p]))]
    BY <1>16 DEF Respond
  <2>3. UNCHANGED <<calls, props>>
    BY <1>16 DEF Respond
  <2>4. node[p].role \in Roles
    BY NodeFields DEF CommandsOK
  <2> QED
    BY <2>1, <2>2, <2>3, <2>4 DEF LogsOK
<1>17. ASSUME NEW p \in Commands, PublishMapping(p) PROVE LogsOK'
  BY <1>17 DEF PublishMapping, Publish, Go, Touch, outside, ghosts, LogsOK
<1>18. ASSUME NEW p \in Commands, PublishProfile(p) PROVE LogsOK'
  BY <1>18 DEF PublishProfile, Publish, Go, Touch, outside, ghosts, LogsOK
<1>19. ASSUME NEW p \in Commands, Decided(p) PROVE LogsOK'
  BY <1>19 DEF Decided, Update, GoTo, Touch, Node, outside, ghosts, LogsOK
<1>20. ASSUME NEW p \in Commands, Confirm(p) PROVE LogsOK'
  BY <1>20 DEF Confirm, ProposalRow, Go, GoTo, data, outside, ghosts, LogsOK
<1>21. ASSUME NEW p \in Commands, PublishGraph(p) PROVE LogsOK'
  BY <1>21 DEF PublishGraph, Publish, Go, Touch, outside, ghosts, LogsOK
<1>22. ASSUME NEW p \in Commands, PublishProvenance(p) PROVE LogsOK'
  BY <1>22 DEF PublishProvenance, Publish, Go, Touch, outside, ghosts, LogsOK
<1>23. ASSUME NEW p \in Commands, Approved(p) PROVE LogsOK'
  BY <1>23 DEF Approved, Update, GoTo, Touch, outside, ghosts, LogsOK
<1>24. ASSUME NEW p \in Commands, Scan(p) PROVE LogsOK'
  BY <1>24 DEF Scan, Go, Touch, data, outside, ghosts, LogsOK
<1>25. ASSUME NEW p \in Commands, VerifyAll(p) PROVE LogsOK'
  BY <1>25 DEF VerifyAll, Go, data, outside, ghosts, LogsOK
<1>26. ASSUME NEW p \in Commands, PublishVerification(p) PROVE LogsOK'
  BY <1>26 DEF PublishVerification, Publish, Go, Touch, outside, ghosts, LogsOK
<1>27. ASSUME NEW p \in Commands, WriteCompletion(p) PROVE LogsOK'
  BY <1>27 DEF WriteCompletion, Go, data, outside, ghosts, LogsOK
<1>28. ASSUME NEW e \in Exports, ExportStart(e) PROVE LogsOK'
  BY <1>28 DEF ExportStart, command, data, ghosts, LogsOK
<1>29. ASSUME NEW e \in Exports, ExportWrite(e) PROVE LogsOK'
  BY <1>29 DEF ExportWrite, ExportNext, command, data, ghosts, LogsOK
<1>30. CASE Kill
  BY <1>30 DEF Kill, command, Go, data, ghosts, LogsOK
<1>31. CASE UNCHANGED vars
  BY <1>31 DEF vars, data, command, outside, ghosts, LogsOK
<1> QED
  BY <1>1, <1>2, <1>3, <1>4, <1>5, <1>6, <1>7, <1>8, <1>9, <1>10, <1>11, <1>12, <1>13,
     <1>14, <1>15, <1>16, <1>17, <1>18, <1>19, <1>20, <1>21, <1>22, <1>23, <1>24,
     <1>25, <1>26, <1>27, <1>28, <1>29, <1>30, <1>31
     DEF Next, Executor, Command

\* Every step keeps the types of the state file and the checkpoint.
LEMMA NextStateOK == TypeOK /\ [Next]_vars => StateOK'
<1> SUFFICES ASSUME TypeOK, [Next]_vars PROVE StateOK'
  OBVIOUS
<1> USE DEF TypeOK
<1>1. ASSUME NEW p \in Commands, Discover(p) PROVE StateOK'
  <2>1. StartNode \in Nodes
    BY NodeTyped DEF StartNode, Places, Roles, Ids
  <2> QED
    BY <1>1, <2>1, UpdateTyped DEF Discover, StateOK, Checkpoints, Stages
<1>2. ASSUME NEW p \in Commands, Resume(p) PROVE StateOK'
  BY <1>2
     DEF Resume, Resumable, GoTo, Touch, data, outside, StateOK, CommandsOK,
         Checkpoints
<1>3. ASSUME NEW p \in Commands, Raise(p) PROVE StateOK'
  BY <1>3 DEF Raise, Go, Touch, outside, ghosts, StateOK, CommandsOK, Checkpoints
<1>4. ASSUME NEW p \in Commands, Save(p) PROVE StateOK'
  BY <1>4 DEF Save, Go, Touch, data, outside, ghosts, StateOK, CommandsOK, Checkpoints
<1>5. ASSUME NEW p \in Commands, StreamEnds(p) PROVE StateOK'
  BY <1>5 DEF StreamEnds, Go, Touch, outside, ghosts, StateOK, CommandsOK, Checkpoints
<1>6. ASSUME NEW p \in Commands, Generate(p) PROVE StateOK'
  BY <1>6 DEF Generate, Go, Node, data, outside, StateOK, CommandsOK, Checkpoints
<1>7. ASSUME NEW p \in Commands, Answered(p) PROVE StateOK'
  BY <1>7
     DEF Answered, Row, Go, Touch, Log, outside, ghosts, StateOK, CommandsOK,
         Checkpoints
<1>8. ASSUME NEW p \in Commands, LogCall(p) PROVE StateOK'
  BY <1>8
     DEF LogCall, CallRow, Go, Touch, Log, outside, ghosts, StateOK, CommandsOK,
         Checkpoints
<1>9. ASSUME NEW p \in Commands, CallFails(p) PROVE StateOK'
  BY <1>9
     DEF CallFails, Failures, CallRow, Fault, Go, Touch, Log, ghosts, StateOK,
         CommandsOK, Checkpoints
<1>10. ASSUME NEW p \in Commands, MappingRefused(p) PROVE StateOK'
  BY <1>10
     DEF MappingRefused, Refused, Fault, Go, data, ghosts, StateOK, CommandsOK,
         Checkpoints
<1>11. ASSUME NEW p \in Commands, GraphRefused(p) PROVE StateOK'
  BY <1>11
     DEF GraphRefused, Refused, Fault, Go, data, ghosts, StateOK, CommandsOK,
         Checkpoints
<1>12. ASSUME NEW p \in Commands, Propose(p) PROVE StateOK'
  BY <1>12 DEF Propose, GoTo, Touch, outside, ghosts, StateOK, CommandsOK, Checkpoints
<1>13. ASSUME NEW p \in Commands, Drafted(p) PROVE StateOK'
  <2>1. node[p].role \in Roles /\ node[p].round \in Nat
    BY NodeFields DEF CommandsOK
  <2>2. ReviewStage(node[p].role) \in Stages
    BY DEF ReviewStage, Stages
  <2>3. storage' = storage
    BY <1>13 DEF Drafted
  <2>4. state' = [state EXCEPT !.stage = ReviewStage(node[p].role),
                               !.round[node[p].role] = node[p].round]
    BY <1>13 DEF Drafted
  <2> QED
    BY <2>1, <2>2, <2>3, <2>4 DEF StateOK
<1>14. ASSUME NEW p \in Commands, Review(p) PROVE StateOK'
  BY <1>14 DEF Review, Go, GoTo, data, outside, ghosts, StateOK, CommandsOK, Checkpoints
<1>15. ASSUME NEW p \in Commands, Answer(p) PROVE StateOK'
  BY <1>15 DEF Answer, data, outside, StateOK, CommandsOK, Checkpoints
<1>16. ASSUME NEW p \in Commands, Respond(p) PROVE StateOK'
  BY <1>16
     DEF Respond, ProposalRow, Event, Go, GoTo, Touch, outside, ghosts, StateOK,
         CommandsOK, Checkpoints
<1>17. ASSUME NEW p \in Commands, PublishMapping(p) PROVE StateOK'
  BY <1>17
     DEF PublishMapping, Publish, Go, Touch, outside, ghosts, StateOK, CommandsOK,
         Checkpoints
<1>18. ASSUME NEW p \in Commands, PublishProfile(p) PROVE StateOK'
  BY <1>18
     DEF PublishProfile, Publish, Go, Touch, outside, ghosts, StateOK, CommandsOK,
         Checkpoints
<1>19. ASSUME NEW p \in Commands, Decided(p) PROVE StateOK'
  <2>1. storage' = storage
    BY <1>19 DEF Decided
  <2>2. CASE state' = [state EXCEPT !.stage = "aborted", !.aborted = TRUE]
    BY <2>1, <2>2 DEF StateOK, Stages
  <2>3. CASE \E stage \in Stages : Update(stage)
    BY <2>1, <2>3, UpdateTyped DEF StateOK
  <2>4. RevisionStage(node[p].role) \in Stages
    BY DEF RevisionStage, Stages
  <2> QED
    BY <1>19, <2>2, <2>3, <2>4 DEF Decided, Stages
<1>20. ASSUME NEW p \in Commands, Confirm(p) PROVE StateOK'
  BY <1>20
     DEF Confirm, ProposalRow, Go, GoTo, data, outside, ghosts, StateOK, CommandsOK,
         Checkpoints
<1>21. ASSUME NEW p \in Commands, PublishGraph(p) PROVE StateOK'
  BY <1>21
     DEF PublishGraph, Publish, Go, Touch, outside, ghosts, StateOK, CommandsOK,
         Checkpoints
<1>22. ASSUME NEW p \in Commands, PublishProvenance(p) PROVE StateOK'
  BY <1>22
     DEF PublishProvenance, Publish, Go, Touch, outside, ghosts, StateOK, CommandsOK,
         Checkpoints
<1>23. ASSUME NEW p \in Commands, Approved(p) PROVE StateOK'
  <2> QED
    BY <1>23, UpdateTyped DEF Approved, StateOK, Stages
<1>24. ASSUME NEW p \in Commands, Scan(p) PROVE StateOK'
  BY <1>24 DEF Scan, Go, Touch, data, outside, ghosts, StateOK, CommandsOK, Checkpoints
<1>25. ASSUME NEW p \in Commands, VerifyAll(p) PROVE StateOK'
  BY <1>25 DEF VerifyAll, Go, data, outside, ghosts, StateOK, CommandsOK, Checkpoints
<1>26. ASSUME NEW p \in Commands, PublishVerification(p) PROVE StateOK'
  BY <1>26
     DEF PublishVerification, Publish, Go, Touch, outside, ghosts, StateOK,
         CommandsOK, Checkpoints
<1>27. ASSUME NEW p \in Commands, WriteCompletion(p) PROVE StateOK'
  BY <1>27
     DEF WriteCompletion, Go, data, outside, ghosts, StateOK, CommandsOK, Checkpoints
<1>28. ASSUME NEW e \in Exports, ExportStart(e) PROVE StateOK'
  BY <1>28 DEF ExportStart, command, data, ghosts, StateOK, CommandsOK, Checkpoints
<1>29. ASSUME NEW e \in Exports, ExportWrite(e) PROVE StateOK'
  BY <1>29
     DEF ExportWrite, ExportNext, command, data, ghosts, StateOK, CommandsOK,
         Checkpoints
<1>30. CASE Kill
  BY <1>30 DEF Kill, command, Go, data, ghosts, StateOK, CommandsOK, Checkpoints
<1>31. CASE UNCHANGED vars
  BY <1>31 DEF vars, data, command, outside, ghosts, StateOK, CommandsOK, Checkpoints
<1> QED
  BY <1>1, <1>2, <1>3, <1>4, <1>5, <1>6, <1>7, <1>8, <1>9, <1>10, <1>11, <1>12, <1>13,
     <1>14, <1>15, <1>16, <1>17, <1>18, <1>19, <1>20, <1>21, <1>22, <1>23, <1>24,
     <1>25, <1>26, <1>27, <1>28, <1>29, <1>30, <1>31
     DEF Next, Executor, Command

\* Every step keeps the types of the rest.
LEMMA NextOthersOK == TypeOK /\ [Next]_vars => OthersOK'
<1> SUFFICES ASSUME TypeOK, [Next]_vars PROVE OthersOK'
  OBVIOUS
<1> USE DEF TypeOK
<1>1. ASSUME NEW p \in Commands, Discover(p) PROVE OthersOK'
  BY <1>1
     DEF Discover, Update, Go, Touch, Node, StartNode, outside, ghosts, OthersOK,
         CommandsOK
<1>2. ASSUME NEW p \in Commands, Resume(p) PROVE OthersOK'
  BY <1>2 DEF Resume, Resumable, GoTo, Touch, data, outside, OthersOK, CommandsOK
<1>3. ASSUME NEW p \in Commands, Raise(p) PROVE OthersOK'
  BY <1>3 DEF Raise, Go, Touch, outside, ghosts, OthersOK, CommandsOK
<1>4. ASSUME NEW p \in Commands, Save(p) PROVE OthersOK'
  BY <1>4 DEF Save, Go, Touch, data, outside, ghosts, OthersOK, CommandsOK
<1>5. ASSUME NEW p \in Commands, StreamEnds(p) PROVE OthersOK'
  BY <1>5 DEF StreamEnds, Go, Touch, outside, ghosts, OthersOK, CommandsOK
<1>6. ASSUME NEW p \in Commands, Generate(p) PROVE OthersOK'
  BY SMTT(30), <1>6, NodeFields DEF Generate, Go, Node, data, outside, OthersOK, CommandsOK
<1>7. ASSUME NEW p \in Commands, Answered(p) PROVE OthersOK'
  BY <1>7 DEF Answered, Row, Go, Touch, Log, outside, ghosts, OthersOK, CommandsOK
<1>8. ASSUME NEW p \in Commands, LogCall(p) PROVE OthersOK'
  BY <1>8 DEF LogCall, CallRow, Go, Touch, Log, outside, ghosts, OthersOK, CommandsOK
<1>9. ASSUME NEW p \in Commands, CallFails(p) PROVE OthersOK'
  BY <1>9
     DEF CallFails, Failures, CallRow, Fault, Go, Touch, Log, ghosts, OthersOK,
         CommandsOK
<1>10. ASSUME NEW p \in Commands, MappingRefused(p) PROVE OthersOK'
  BY <1>10 DEF MappingRefused, Refused, Fault, Go, data, ghosts, OthersOK, CommandsOK
<1>11. ASSUME NEW p \in Commands, GraphRefused(p) PROVE OthersOK'
  BY <1>11 DEF GraphRefused, Refused, Fault, Go, data, ghosts, OthersOK, CommandsOK
<1>12. ASSUME NEW p \in Commands, Propose(p) PROVE OthersOK'
  BY <1>12 DEF Propose, GoTo, Touch, outside, ghosts, OthersOK, CommandsOK
<1>13. ASSUME NEW p \in Commands, Drafted(p) PROVE OthersOK'
  BY <1>13 DEF Drafted, GoTo, Touch, outside, ghosts, OthersOK, CommandsOK
<1>14. ASSUME NEW p \in Commands, Review(p) PROVE OthersOK'
  BY <1>14 DEF Review, Go, GoTo, data, outside, ghosts, OthersOK, CommandsOK
<1>15. ASSUME NEW p \in Commands, Answer(p) PROVE OthersOK'
  BY <1>15, NodeFields DEF Answer, data, outside, OthersOK, CommandsOK, Decisions
<1>16. ASSUME NEW p \in Commands, Respond(p) PROVE OthersOK'
  BY <1>16
     DEF Respond, ProposalRow, Event, Go, GoTo, Touch, outside, ghosts, OthersOK,
         CommandsOK
<1>17. ASSUME NEW p \in Commands, PublishMapping(p) PROVE OthersOK'
  BY <1>17 DEF PublishMapping, Publish, Go, Touch, outside, ghosts, OthersOK, CommandsOK
<1>18. ASSUME NEW p \in Commands, PublishProfile(p) PROVE OthersOK'
  BY <1>18 DEF PublishProfile, Publish, Go, Touch, outside, ghosts, OthersOK, CommandsOK
<1>19. ASSUME NEW p \in Commands, Decided(p) PROVE OthersOK'
  BY <1>19 DEF Decided, Update, GoTo, Touch, Node, outside, ghosts, OthersOK, CommandsOK
<1>20. ASSUME NEW p \in Commands, Confirm(p) PROVE OthersOK'
  BY <1>20
     DEF Confirm, ProposalRow, Go, GoTo, data, outside, ghosts, OthersOK, CommandsOK
<1>21. ASSUME NEW p \in Commands, PublishGraph(p) PROVE OthersOK'
  BY <1>21 DEF PublishGraph, Publish, Go, Touch, outside, ghosts, OthersOK, CommandsOK
<1>22. ASSUME NEW p \in Commands, PublishProvenance(p) PROVE OthersOK'
  BY <1>22
     DEF PublishProvenance, Publish, Go, Touch, outside, ghosts, OthersOK, CommandsOK
<1>23. ASSUME NEW p \in Commands, Approved(p) PROVE OthersOK'
  BY <1>23 DEF Approved, Update, GoTo, Touch, outside, ghosts, OthersOK, CommandsOK
<1>24. ASSUME NEW p \in Commands, Scan(p) PROVE OthersOK'
  BY <1>24 DEF Scan, Go, Touch, data, outside, ghosts, OthersOK, CommandsOK
<1>25. ASSUME NEW p \in Commands, VerifyAll(p) PROVE OthersOK'
  BY <1>25 DEF VerifyAll, Go, data, outside, ghosts, OthersOK, CommandsOK
<1>26. ASSUME NEW p \in Commands, PublishVerification(p) PROVE OthersOK'
  BY <1>26
     DEF PublishVerification, Publish, Go, Touch, outside, ghosts, OthersOK,
         CommandsOK
<1>27. ASSUME NEW p \in Commands, WriteCompletion(p) PROVE OthersOK'
  BY <1>27 DEF WriteCompletion, Go, data, outside, ghosts, OthersOK, CommandsOK
<1>28. ASSUME NEW e \in Exports, ExportStart(e) PROVE OthersOK'
  BY <1>28 DEF ExportStart, command, data, ghosts, OthersOK, CommandsOK, Targets
<1>29. ASSUME NEW e \in Exports, ExportWrite(e) PROVE OthersOK'
  BY <1>29
     DEF ExportWrite, ExportNext, command, data, ghosts, OthersOK, CommandsOK, Targets
<1>30. CASE Kill
  BY <1>30 DEF Kill, command, Go, data, ghosts, OthersOK, CommandsOK
<1>31. CASE UNCHANGED vars
  BY <1>31 DEF vars, data, command, outside, ghosts, OthersOK, CommandsOK
<1> QED
  BY <1>1, <1>2, <1>3, <1>4, <1>5, <1>6, <1>7, <1>8, <1>9, <1>10, <1>11, <1>12, <1>13,
     <1>14, <1>15, <1>16, <1>17, <1>18, <1>19, <1>20, <1>21, <1>22, <1>23, <1>24,
     <1>25, <1>26, <1>27, <1>28, <1>29, <1>30, <1>31
     DEF Next, Executor, Command

-----------------------------------------------------------------------------
(* What every step leaves as it is. *)

Growth ==
    /\ answers \subseteq answers'
    /\ \A r \in Roles : Len(props[r]) <= Len(props'[r])
    /\ overlap => overlap'

\* Answers, proposals and overlap only grow.
LEMMA Monotone ==
    ASSUME TypeOK, [Next]_vars
    PROVE  Growth
<1>1. ASSUME NEW p \in Commands, Discover(p) PROVE Growth
  BY <1>1
     DEF Discover, Update, Go, Touch, Node, StartNode, outside, ghosts, TypeOK,
         LogsOK, Growth
<1>2. ASSUME NEW p \in Commands, Resume(p) PROVE Growth
  <2>1. answers' = answers /\ props' = props
    BY <1>2 DEF Resume, data
  <2>2. overlap => overlap'
    BY <1>2 DEF Resume
  <2> QED
    BY <2>1, <2>2 DEF TypeOK, LogsOK, Growth
<1>3. ASSUME NEW p \in Commands, Raise(p) PROVE Growth
  BY <1>3 DEF Raise, Go, Touch, outside, ghosts, TypeOK, LogsOK, Growth
<1>4. ASSUME NEW p \in Commands, Save(p) PROVE Growth
  BY <1>4 DEF Save, Go, Touch, data, outside, ghosts, TypeOK, LogsOK, Growth
<1>5. ASSUME NEW p \in Commands, StreamEnds(p) PROVE Growth
  BY <1>5 DEF StreamEnds, Go, Touch, outside, ghosts, TypeOK, LogsOK, Growth
<1>6. ASSUME NEW p \in Commands, Generate(p) PROVE Growth
  BY <1>6 DEF Generate, Go, Node, data, outside, TypeOK, LogsOK, Growth
<1>7. ASSUME NEW p \in Commands, Answered(p) PROVE Growth
  BY <1>7 DEF Answered, Row, Go, Touch, Log, outside, ghosts, TypeOK, LogsOK, Growth
<1>8. ASSUME NEW p \in Commands, LogCall(p) PROVE Growth
  BY <1>8 DEF LogCall, CallRow, Go, Touch, Log, outside, ghosts, TypeOK, LogsOK, Growth
<1>9. ASSUME NEW p \in Commands, CallFails(p) PROVE Growth
  BY <1>9
     DEF CallFails, Failures, CallRow, Fault, Go, Touch, Log, ghosts, TypeOK, LogsOK,
         Growth
<1>10. ASSUME NEW p \in Commands, MappingRefused(p) PROVE Growth
  BY <1>10 DEF MappingRefused, Refused, Fault, Go, data, ghosts, TypeOK, LogsOK, Growth
<1>11. ASSUME NEW p \in Commands, GraphRefused(p) PROVE Growth
  BY <1>11 DEF GraphRefused, Refused, Fault, Go, data, ghosts, TypeOK, LogsOK, Growth
<1>12. ASSUME NEW p \in Commands, Propose(p) PROVE Growth
  <2>1. PICK id \in Contents :
          props' = [props EXCEPT ![node[p].role] = Append(@, [round |-> node[p].round, id |-> id])]
    BY <1>12 DEF Propose
  <2>2. node[p].role \in Roles
    BY NodeFields DEF TypeOK, CommandsOK
  <2>3. answers' = answers /\ overlap' = overlap
    BY <1>12 DEF Propose, ghosts
  <2> QED
    BY <2>1, <2>2, <2>3 DEF TypeOK, LogsOK, Growth
<1>13. ASSUME NEW p \in Commands, Drafted(p) PROVE Growth
  BY <1>13 DEF Drafted, GoTo, Touch, outside, ghosts, TypeOK, LogsOK, Growth
<1>14. ASSUME NEW p \in Commands, Review(p) PROVE Growth
  BY <1>14 DEF Review, Go, GoTo, data, outside, ghosts, TypeOK, LogsOK, Growth
<1>15. ASSUME NEW p \in Commands, Answer(p) PROVE Growth
  BY <1>15 DEF Answer, data, outside, TypeOK, LogsOK, Growth
<1>16. ASSUME NEW p \in Commands, Respond(p) PROVE Growth
  BY <1>16
     DEF Respond, ProposalRow, Event, Go, GoTo, Touch, outside, ghosts, TypeOK,
         LogsOK, Growth
<1>17. ASSUME NEW p \in Commands, PublishMapping(p) PROVE Growth
  BY <1>17
     DEF PublishMapping, Publish, Go, Touch, outside, ghosts, TypeOK, LogsOK, Growth
<1>18. ASSUME NEW p \in Commands, PublishProfile(p) PROVE Growth
  BY <1>18
     DEF PublishProfile, Publish, Go, Touch, outside, ghosts, TypeOK, LogsOK, Growth
<1>19. ASSUME NEW p \in Commands, Decided(p) PROVE Growth
  BY <1>19
     DEF Decided, Update, GoTo, Touch, Node, outside, ghosts, TypeOK, LogsOK, Growth
<1>20. ASSUME NEW p \in Commands, Confirm(p) PROVE Growth
  BY <1>20
     DEF Confirm, ProposalRow, Go, GoTo, data, outside, ghosts, TypeOK, LogsOK, Growth
<1>21. ASSUME NEW p \in Commands, PublishGraph(p) PROVE Growth
  BY <1>21 DEF PublishGraph, Publish, Go, Touch, outside, ghosts, TypeOK, LogsOK, Growth
<1>22. ASSUME NEW p \in Commands, PublishProvenance(p) PROVE Growth
  BY <1>22
     DEF PublishProvenance, Publish, Go, Touch, outside, ghosts, TypeOK, LogsOK,
         Growth
<1>23. ASSUME NEW p \in Commands, Approved(p) PROVE Growth
  BY <1>23 DEF Approved, Update, GoTo, Touch, outside, ghosts, TypeOK, LogsOK, Growth
<1>24. ASSUME NEW p \in Commands, Scan(p) PROVE Growth
  BY <1>24 DEF Scan, Go, Touch, data, outside, ghosts, TypeOK, LogsOK, Growth
<1>25. ASSUME NEW p \in Commands, VerifyAll(p) PROVE Growth
  BY <1>25 DEF VerifyAll, Go, data, outside, ghosts, TypeOK, LogsOK, Growth
<1>26. ASSUME NEW p \in Commands, PublishVerification(p) PROVE Growth
  BY <1>26
     DEF PublishVerification, Publish, Go, Touch, outside, ghosts, TypeOK, LogsOK,
         Growth
<1>27. ASSUME NEW p \in Commands, WriteCompletion(p) PROVE Growth
  BY <1>27 DEF WriteCompletion, Go, data, outside, ghosts, TypeOK, LogsOK, Growth
<1>28. ASSUME NEW e \in Exports, ExportStart(e) PROVE Growth
  BY <1>28 DEF ExportStart, command, data, ghosts, TypeOK, LogsOK, Growth
<1>29. ASSUME NEW e \in Exports, ExportWrite(e) PROVE Growth
  BY <1>29 DEF ExportWrite, ExportNext, command, data, ghosts, TypeOK, LogsOK, Growth
<1>30. CASE Kill
  BY <1>30 DEF Kill, command, Go, data, ghosts, TypeOK, LogsOK, Growth
<1>31. CASE UNCHANGED vars
  BY <1>31 DEF vars, data, command, outside, ghosts, TypeOK, LogsOK, Growth
<1> QED
  BY <1>1, <1>2, <1>3, <1>4, <1>5, <1>6, <1>7, <1>8, <1>9, <1>10, <1>11, <1>12, <1>13,
     <1>14, <1>15, <1>16, <1>17, <1>18, <1>19, <1>20, <1>21, <1>22, <1>23, <1>24,
     <1>25, <1>26, <1>27, <1>28, <1>29, <1>30, <1>31
     DEF Next, Executor, Command

\* CommandInv holds on for a command that a step leaves alone.
LEMMA CommandInvKept ==
    ASSUME TypeOK, TypeOK', Growth, NEW q \in Commands, CommandInv(q),
           pc'[q] = pc[q], node'[q] = node[q], dec'[q] = dec[q]
    PROVE  CommandInv(q)'
<1>1. node[q].role \in Roles /\ node[q].round \in Nat
  BY NodeFields DEF TypeOK, CommandsOK
<1>2. Len(props[node[q].role]) \in Nat /\ Len(props'[node[q].role]) \in Nat
  BY <1>1 DEF TypeOK, LogsOK
<1>3. /\ node[q].round <= Len(props[node[q].role]) => node[q].round <= Len(props'[node[q].role])
      /\ node[q].round <= Len(props[node[q].role]) + 1 =>
            node[q].round <= Len(props'[node[q].role]) + 1
  BY SMTT(30), <1>1, <1>2 DEF Growth
<1>4. \A d : Said(node[q], d) => <<node'[q].role, node'[q].round, node'[q].id, d>> \in answers'
  BY DEF Growth, Said
<1> QED
  BY <1>3, <1>4 DEF CommandInv, Endorsed, Stored, Said

-----------------------------------------------------------------------------
(* Commands do what their control state and their node say. *)

\* A step of one command leaves the others where they are.
LEMMA OthersStay ==
    ASSUME TypeOK, NEW p \in Commands, Executor(p) \/ Command(p),
           NEW q \in Commands \ {p}
    PROVE  pc'[q] = pc[q] /\ node'[q] = node[q] /\ dec'[q] = dec[q]
<1>1. CASE Discover(p)
  BY <1>1
     DEF Discover, Update, Go, Touch, Node, StartNode, outside, ghosts, TypeOK,
         CommandsOK
<1>2. CASE Resume(p)
  BY <1>2 DEF Resume, Resumable, GoTo, Touch, data, outside, TypeOK, CommandsOK
<1>3. CASE Raise(p)
  BY <1>3 DEF Raise, Go, Touch, outside, ghosts, TypeOK, CommandsOK
<1>4. CASE Save(p)
  BY <1>4 DEF Save, Go, Touch, data, outside, ghosts, TypeOK, CommandsOK
<1>5. CASE StreamEnds(p)
  BY <1>5 DEF StreamEnds, Go, Touch, outside, ghosts, TypeOK, CommandsOK
<1>6. CASE Generate(p)
  BY <1>6 DEF Generate, Go, Node, data, outside, TypeOK, CommandsOK
<1>7. CASE Answered(p)
  BY <1>7 DEF Answered, Row, Go, Touch, Log, outside, ghosts, TypeOK, CommandsOK
<1>8. CASE LogCall(p)
  BY <1>8 DEF LogCall, CallRow, Go, Touch, Log, outside, ghosts, TypeOK, CommandsOK
<1>9. CASE CallFails(p)
  BY <1>9
     DEF CallFails, Failures, CallRow, Fault, Go, Touch, Log, ghosts, TypeOK,
         CommandsOK
<1>10. CASE MappingRefused(p)
  BY <1>10 DEF MappingRefused, Refused, Fault, Go, data, ghosts, TypeOK, CommandsOK
<1>11. CASE GraphRefused(p)
  BY <1>11 DEF GraphRefused, Refused, Fault, Go, data, ghosts, TypeOK, CommandsOK
<1>12. CASE Propose(p)
  BY <1>12 DEF Propose, GoTo, Touch, outside, ghosts, TypeOK, CommandsOK
<1>13. CASE Drafted(p)
  BY <1>13 DEF Drafted, GoTo, Touch, outside, ghosts, TypeOK, CommandsOK
<1>14. CASE Review(p)
  BY <1>14 DEF Review, Go, GoTo, data, outside, ghosts, TypeOK, CommandsOK
<1>15. CASE Answer(p)
  BY <1>15 DEF Answer, data, outside, TypeOK, CommandsOK
<1>16. CASE Respond(p)
  BY <1>16
     DEF Respond, ProposalRow, Event, Go, GoTo, Touch, outside, ghosts, TypeOK,
         CommandsOK
<1>17. CASE PublishMapping(p)
  BY <1>17 DEF PublishMapping, Publish, Go, Touch, outside, ghosts, TypeOK, CommandsOK
<1>18. CASE PublishProfile(p)
  BY <1>18 DEF PublishProfile, Publish, Go, Touch, outside, ghosts, TypeOK, CommandsOK
<1>19. CASE Decided(p)
  BY <1>19 DEF Decided, Update, GoTo, Touch, Node, outside, ghosts, TypeOK, CommandsOK
<1>20. CASE Confirm(p)
  BY <1>20 DEF Confirm, ProposalRow, Go, GoTo, data, outside, ghosts, TypeOK, CommandsOK
<1>21. CASE PublishGraph(p)
  BY <1>21 DEF PublishGraph, Publish, Go, Touch, outside, ghosts, TypeOK, CommandsOK
<1>22. CASE PublishProvenance(p)
  BY <1>22
     DEF PublishProvenance, Publish, Go, Touch, outside, ghosts, TypeOK, CommandsOK
<1>23. CASE Approved(p)
  BY <1>23 DEF Approved, Update, GoTo, Touch, outside, ghosts, TypeOK, CommandsOK
<1>24. CASE Scan(p)
  BY <1>24 DEF Scan, Go, Touch, data, outside, ghosts, TypeOK, CommandsOK
<1>25. CASE VerifyAll(p)
  BY <1>25 DEF VerifyAll, Go, data, outside, ghosts, TypeOK, CommandsOK
<1>26. CASE PublishVerification(p)
  BY <1>26
     DEF PublishVerification, Publish, Go, Touch, outside, ghosts, TypeOK, CommandsOK
<1>27. CASE WriteCompletion(p)
  BY <1>27 DEF WriteCompletion, Go, data, outside, ghosts, TypeOK, CommandsOK
<1> QED
  BY <1>1, <1>2, <1>3, <1>4, <1>5, <1>6, <1>7, <1>8, <1>9, <1>10, <1>11, <1>12, <1>13,
     <1>14, <1>15, <1>16, <1>17, <1>18, <1>19, <1>20, <1>21, <1>22, <1>23, <1>24,
     <1>25, <1>26, <1>27
     DEF Executor, Command

\* What Publish does, for any artifact.
LEMMA PublishStep ==
    ASSUME TypeOK, NEW p \in Commands, NEW from, NEW name, NEW value, NEW to,
           Publish(p, from, name, value, to)
    PROVE  /\ pc[p] = from
           /\ pc'[p] \in {"failing", to}
           /\ node'[p] = node[p] /\ dec'[p] = dec[p]
           /\ UNCHANGED <<state, storage, calls, raws, props, events>>
           /\ UNCHANGED <<requests, answers, overlap, kills>>
           /\ \/ pc'[p] = "failing" /\ UNCHANGED file
              \/ pc'[p] = to /\ file[name] = Nothing /\ file' = [file EXCEPT ![name] = value]
<1>1. CASE file[name] # Nothing
  BY <1>1 DEF Publish, Go, TypeOK, CommandsOK, outside, ghosts
<1>2. CASE file[name] = Nothing
  BY <1>2 DEF Publish, Go, TypeOK, CommandsOK, outside, ghosts
<1> QED
  BY <1>1, <1>2

\* The fields of a node that is made.
LEMMA NodeMade ==
    ASSUME NEW at, NEW r, NEW round, NEW id
    PROVE  /\ Node(at, r, round, id).at = at /\ Node(at, r, round, id).role = r
           /\ Node(at, r, round, id).round = round /\ Node(at, r, round, id).id = id
  BY DEF Node

\* A node keeps the identity of the one proposal it matches.
LEMMA SameName ==
    ASSUME NEW x \in Nodes, NEW id \in ProposalRow(x)
    PROVE  [x EXCEPT !.id = id] = x
<1>1. id = x.id
  BY DEF ProposalRow
<1> QED
  BY <1>1 DEF Nodes

\* Respond keeps the node: the review is about the proposal it matched.
LEMMA RespondSame ==
    ASSUME TypeOK, NEW p \in Commands, node[p] \in Nodes, Respond(p)
    PROVE  /\ node'[p] = node[p] /\ dec'[p] = dec[p]
           /\ \/ pc'[p] = "failing" \/ pc'[p] = "decided"
              \/ pc'[p] = "publish_mapping" /\ node[p].role = "mapping" /\ dec[p] = "approve"
<1>1. CASE Go(p, "decided") \/ Go(p, "failing")
  BY <1>1 DEF Go, TypeOK, CommandsOK
<1>2. ASSUME node[p].role = "mapping", NEW id \in ProposalRow(node[p]),
             GoTo(p, IF dec[p] = "approve" THEN "publish_mapping" ELSE "decided",
                  [node[p] EXCEPT !.id = id])
      PROVE  /\ node'[p] = node[p] /\ dec'[p] = dec[p]
             /\ \/ pc'[p] = "decided"
                \/ pc'[p] = "publish_mapping" /\ node[p].role = "mapping" /\ dec[p] = "approve"
  BY <1>2, SameName DEF GoTo, TypeOK, CommandsOK
<1> QED
  BY <1>1, <1>2 DEF Respond

\* Confirm keeps the node.
LEMMA ConfirmSame ==
    ASSUME TypeOK, NEW p \in Commands, node[p] \in Nodes, Confirm(p)
    PROVE  node'[p] = node[p] /\ pc'[p] \in {"failing", "publish_graph"}
<1>1. CASE Go(p, "failing")
  BY <1>1 DEF Go, TypeOK, CommandsOK
<1>2. ASSUME NEW id \in ProposalRow(node[p]),
             GoTo(p, "publish_graph", [node[p] EXCEPT !.id = id])
      PROVE  node'[p] = node[p] /\ pc'[p] = "publish_graph"
  BY <1>2, SameName DEF GoTo, TypeOK, CommandsOK
<1> QED
  BY <1>1, <1>2 DEF Confirm

\* CommandInv holds on for the command that acts.
LEMMA CommandInvStep ==
    ASSUME TypeOK, TypeOK', Growth, CheckpointInv, NEW p \in Commands, CommandInv(p),
           Executor(p) \/ Command(p)
    PROVE  CommandInv(p)'
<1>0. /\ node[p] \in Nodes /\ node'[p] \in Nodes
      /\ node[p].at \in Places /\ node[p].role \in Roles
      /\ node[p].round \in Nat /\ node[p].id \in Ids
      /\ Len(props[node[p].role]) \in Nat /\ Len(props'[node[p].role]) \in Nat
  BY NodeFields DEF TypeOK, CommandsOK, LogsOK
<1>1. CASE Discover(p)
  <2>1. node[p] = StartNode /\ node'[p] = StartNode /\ pc'[p] = "generate"
    BY <1>1 DEF Discover, Go, CommandInv, TypeOK, CommandsOK
  <2>2. StartNode.at = "generate"
    BY NodeMade DEF StartNode
  <2> QED
    BY <2>1, <2>2 DEF CommandInv, PlaceOf, Places, Endorsed, Stored
<1>2. CASE Resume(p)
  <2> DEFINE from == IF state.latest # Nothing THEN state.latest ELSE storage
  <2>1. from \in {storage, state.latest} /\ from # Nothing /\ from \in Nodes
    BY <1>2 DEF Resume, TypeOK, StateOK, Checkpoints
  <2>2. Endorsed(from) /\ Stored(from) /\ from.at \in Places
    BY <2>1, NodeFields DEF CheckpointInv
  <2>3. node'[p] = from /\ pc'[p] = (IF from.at = "ask" THEN "pending" ELSE from.at)
    BY <1>2 DEF Resume, GoTo, TypeOK, CommandsOK
  <2>4. UNCHANGED <<answers, props>>
    BY <1>2 DEF Resume, data
  <2> HIDE DEF from
  <2> QED
    BY <2>2, <2>3, <2>4 DEF CommandInv, PlaceOf, Places, Endorsed, Stored, Said
<1>3. CASE Raise(p)
  BY <1>3, <1>0
     DEF Raise, Go, Touch, outside, ghosts, TypeOK, CommandsOK, CommandInv, PlaceOf,
         Places, Endorsed, Stored, Said, Growth
<1>4. CASE Save(p)
  BY <1>4, <1>0
     DEF Save, Go, Touch, data, outside, ghosts, TypeOK, CommandsOK, CommandInv,
         PlaceOf, Places, Endorsed, Stored, Said, Growth
<1>5. CASE StreamEnds(p)
  <2>1. pc[p] = "pending" /\ UNCHANGED <<answers, props>>
    BY <1>5 DEF StreamEnds, ghosts
  <2>2. \/ Go(p, "ended") \/ Go(p, "scan")
        \/ Go(p, "asking") /\ node[p].at = "ask"
    BY <1>5 DEF StreamEnds
  <2>3. /\ node'[p] = node[p] /\ dec'[p] = dec[p]
        /\ \/ pc'[p] \in {"ended", "scan"}
           \/ pc'[p] = "asking" /\ node[p].at = "ask"
    BY <2>2 DEF Go, TypeOK, CommandsOK
  <2> QED
    BY <2>1, <2>3 DEF CommandInv, PlaceOf, Places, Endorsed, Stored, Said
<1>6. CASE Generate(p)
  <2> DEFINE n == Node("generate", node[p].role, Len(props[node[p].role]) + 1, Nothing)
  <2>1. pc[p] = "generate" /\ UNCHANGED <<answers, props>>
    BY <1>6 DEF Generate, data
  <2>2. \/ Go(p, "failing")
        \/ /\ pc' = [pc EXCEPT ![p] = "calling"] /\ node' = [node EXCEPT ![p] = n]
           /\ UNCHANGED dec
    BY <1>6 DEF Generate
  <2>3. n.at = "generate" /\ n.role = node[p].role /\ n.round = Len(props[node[p].role]) + 1
    BY NodeMade
  <2> HIDE DEF n
  <2>4. /\ dec'[p] = dec[p]
        /\ \/ pc'[p] = "failing" /\ node'[p] = node[p]
           \/ pc'[p] = "calling" /\ node'[p] = n
    BY <2>2 DEF Go, TypeOK, CommandsOK
  <2> QED
    BY <1>0, <2>1, <2>3, <2>4 DEF CommandInv, PlaceOf, Places, Endorsed, Stored, Said
<1>7. CASE Answered(p)
  BY <1>7, <1>0
     DEF Answered, Row, Go, Touch, Log, outside, ghosts, TypeOK, CommandsOK,
         CommandInv, PlaceOf, Places, Endorsed, Stored, Said, Growth
<1>8. CASE LogCall(p)
  BY <1>8, <1>0
     DEF LogCall, CallRow, Go, Touch, Log, outside, ghosts, TypeOK, CommandsOK,
         CommandInv, PlaceOf, Places, Endorsed, Stored, Said, Growth
<1>9. CASE CallFails(p)
  BY <1>9, <1>0
     DEF CallFails, Failures, CallRow, Fault, Go, Touch, Log, ghosts, TypeOK,
         CommandsOK, CommandInv, PlaceOf, Places, Endorsed, Stored, Said, Growth
<1>10. CASE MappingRefused(p)
  BY <1>10, <1>0
     DEF MappingRefused, Refused, Fault, Go, data, ghosts, TypeOK, CommandsOK,
         CommandInv, PlaceOf, Places, Endorsed, Stored, Said, Growth
<1>11. CASE GraphRefused(p)
  BY <1>11, <1>0
     DEF GraphRefused, Refused, Fault, Go, data, ghosts, TypeOK, CommandsOK,
         CommandInv, PlaceOf, Places, Endorsed, Stored, Said, Growth
<1>12. CASE Propose(p)
  <2>1. PICK id \in Contents :
          /\ props' = [props EXCEPT ![node[p].role] = Append(@, [round |-> node[p].round, id |-> id])]
          /\ GoTo(p, "proposed", [node[p] EXCEPT !.id = id])
    BY <1>12 DEF Propose
  <2>2. id \in Ids
    BY DEF Ids
  <2>3. /\ pc'[p] = "proposed" /\ dec'[p] = dec[p]
        /\ node'[p].at = node[p].at /\ node'[p].role = node[p].role
        /\ node'[p].round = node[p].round
    BY <1>0, <2>1, <2>2, NodeNamed DEF GoTo, TypeOK, CommandsOK
  <2>4. Len(props'[node[p].role]) = Len(props[node[p].role]) + 1
    BY <1>0, <2>1 DEF TypeOK, LogsOK
  <2>5. pc[p] = "validating"
    BY <1>12 DEF Propose
  <2> QED
    BY <1>0, <2>3, <2>4, <2>5 DEF CommandInv, PlaceOf, Places, Endorsed, Stored
<1>13. CASE Drafted(p)
  BY <1>13, <1>0
     DEF Drafted, GoTo, Touch, outside, ghosts, TypeOK, CommandsOK, CommandInv,
         PlaceOf, Places, Endorsed, Stored, Said, Growth
<1>14. CASE Review(p)
  <2>1. /\ pc[p] = "review" /\ dec'[p] = dec[p] /\ UNCHANGED <<answers, props>>
        /\ \/ pc'[p] = "failing" /\ node'[p] = node[p]
           \/ pc'[p] = "saving" /\ node'[p] = [node[p] EXCEPT !.at = "ask"]
    BY <1>14 DEF Review, Go, GoTo, data, ghosts, TypeOK, CommandsOK
  <2>2. node[p].at = "review" /\ "ask" \in Places
    BY <2>1 DEF Places, CommandInv, PlaceOf
  <2>3. node'[p].round = node[p].round /\ node'[p].role = node[p].role
        /\ node'[p].at \in {"ask", "review"}
    <3>1. CASE node'[p] = node[p]
      BY <2>2, <3>1
    <3>2. CASE node'[p] = [node[p] EXCEPT !.at = "ask"]
      BY <1>0, <2>2, <3>2, NodeMoved
    <3> QED
      BY <2>1, <3>1, <3>2
  <2> QED
    BY <2>1, <2>2, <2>3 DEF CommandInv, PlaceOf, Places, Endorsed, Stored, Said
<1>15. CASE Answer(p)
  BY <1>15, <1>0
     DEF Answer, data, outside, TypeOK, CommandsOK, CommandInv, PlaceOf, Places,
         Endorsed, Stored, Said, Growth
<1>16. CASE Respond(p)
  <2>1. /\ pc[p] = "respond" /\ dec'[p] = dec[p] /\ UNCHANGED <<answers, props>>
    BY <1>16 DEF Respond, Go, GoTo, ghosts
  <2>2. /\ node'[p] = node[p]
        /\ \/ pc'[p] = "failing" \/ pc'[p] = "decided"
           \/ pc'[p] = "publish_mapping" /\ node[p].role = "mapping" /\ dec[p] = "approve"
    BY <1>16, <1>0, RespondSame
  <2> QED
    BY <2>1, <2>2 DEF CommandInv, PlaceOf, Places, Endorsed, Stored, Said
<1>17. CASE PublishMapping(p)
  <2>1. /\ pc[p] = "publish_mapping" /\ pc'[p] \in {"failing", "publish_profile"}
        /\ node'[p] = node[p] /\ dec'[p] = dec[p] /\ UNCHANGED <<answers, props>>
    BY <1>17, PublishStep DEF PublishMapping
  <2> QED
    BY <2>1 DEF CommandInv, PlaceOf, Places, Endorsed, Stored, Said
<1>18. CASE PublishProfile(p)
  <2>1. /\ pc[p] = "publish_profile" /\ pc'[p] \in {"failing", "decided"}
        /\ node'[p] = node[p] /\ dec'[p] = dec[p] /\ UNCHANGED <<answers, props>>
    BY <1>18, PublishStep DEF PublishProfile
  <2> QED
    BY <2>1 DEF CommandInv, PlaceOf, Places, Endorsed, Stored, Said
<1>19. CASE Decided(p)
  <2>1. /\ pc[p] = "decided" /\ dec'[p] = dec[p] /\ pc'[p] = "saving"
        /\ UNCHANGED <<answers, props>>
        /\ \/ \E r \in Roles : node'[p] = Node("generate", r, 0, Nothing)
           \/ /\ node'[p] = [node[p] EXCEPT !.at = "confirm"]
              /\ node[p].role = "causal" /\ dec[p] = "approve"
           \/ node'[p] = [node[p] EXCEPT !.at = "end"]
    BY <1>19, <1>0 DEF Decided, GoTo, ghosts, TypeOK, CommandsOK, Roles
  <2>2. {"confirm", "end"} \subseteq Places
    BY DEF Places
  <2>3. CASE \E r \in Roles : node'[p] = Node("generate", r, 0, Nothing)
    BY <2>1, <2>3, NodeMade DEF CommandInv, PlaceOf, Places, Endorsed, Stored
  <2>4. CASE node'[p] = [node[p] EXCEPT !.at = "end"]
    <3>1. node'[p].at = "end" /\ node'[p].round = node[p].round /\ node'[p].role = node[p].role
      BY <1>0, <2>2, <2>4, NodeMoved
    <3> QED
      BY <2>1, <3>1 DEF CommandInv, PlaceOf, Places, Endorsed, Stored
  <2>5. CASE /\ node'[p] = [node[p] EXCEPT !.at = "confirm"]
             /\ node[p].role = "causal" /\ dec[p] = "approve"
    <3>1. /\ node'[p].at = "confirm" /\ node'[p].round = node[p].round
          /\ node'[p].role = node[p].role /\ node'[p].id = node[p].id
      BY <1>0, <2>2, <2>5, NodeMoved
    <3> QED
      BY <2>1, <2>5, <3>1 DEF CommandInv, PlaceOf, Places, Endorsed, Stored, Said
  <2> QED
    BY <2>1, <2>3, <2>4, <2>5
<1>20. CASE Confirm(p)
  <2>1. /\ pc[p] = "confirm" /\ dec'[p] = dec[p] /\ UNCHANGED <<answers, props>>
    BY <1>20 DEF Confirm, Go, GoTo, ghosts, data
  <2>2. node'[p] = node[p] /\ pc'[p] \in {"failing", "publish_graph"}
    BY <1>20, <1>0, ConfirmSame
  <2> QED
    BY <2>1, <2>2 DEF CommandInv, PlaceOf, Places, Endorsed, Stored, Said
<1>21. CASE PublishGraph(p)
  <2>1. /\ pc[p] = "publish_graph" /\ pc'[p] \in {"failing", "publish_prov"}
        /\ node'[p] = node[p] /\ dec'[p] = dec[p] /\ UNCHANGED <<answers, props>>
    BY <1>21, PublishStep DEF PublishGraph
  <2> QED
    BY <2>1 DEF CommandInv, PlaceOf, Places, Endorsed, Stored, Said
<1>22. CASE PublishProvenance(p)
  <2>1. /\ pc[p] = "publish_prov" /\ pc'[p] \in {"failing", "confirmed"}
        /\ node'[p] = node[p] /\ dec'[p] = dec[p] /\ UNCHANGED <<answers, props>>
    BY <1>22, PublishStep DEF PublishProvenance
  <2> QED
    BY <2>1 DEF CommandInv, PlaceOf, Places, Endorsed, Stored, Said
<1>23. CASE Approved(p)
  <2>1. /\ pc[p] = "confirmed" /\ dec'[p] = dec[p] /\ UNCHANGED <<answers, props>>
        /\ pc'[p] = "saving" /\ node'[p] = [node[p] EXCEPT !.at = "end"]
    BY <1>23 DEF Approved, GoTo, ghosts, TypeOK, CommandsOK
  <2>2. "end" \in Places
    BY DEF Places
  <2>3. node'[p].at = "end" /\ node'[p].round = node[p].round /\ node'[p].role = node[p].role
    BY <1>0, <2>1, <2>2, NodeMoved
  <2> QED
    BY <2>1, <2>3 DEF CommandInv, PlaceOf, Places, Endorsed, Stored, Said
<1>24. CASE Scan(p)
  BY <1>24, <1>0
     DEF Scan, Go, Touch, data, outside, ghosts, TypeOK, CommandsOK, CommandInv,
         PlaceOf, Places, Endorsed, Stored, Said, Growth
<1>25. CASE VerifyAll(p)
  BY <1>25, <1>0
     DEF VerifyAll, Go, data, outside, ghosts, TypeOK, CommandsOK, CommandInv,
         PlaceOf, Places, Endorsed, Stored, Said, Growth
<1>26. CASE PublishVerification(p)
  <2>1. /\ pc[p] = "publish_verification" /\ pc'[p] \in {"failing", "complete"}
        /\ node'[p] = node[p] /\ dec'[p] = dec[p] /\ UNCHANGED <<answers, props>>
    BY <1>26, PublishStep DEF PublishVerification
  <2> QED
    BY <2>1 DEF CommandInv, PlaceOf, Places, Endorsed, Stored, Said
<1>27. CASE WriteCompletion(p)
  BY <1>27, <1>0
     DEF WriteCompletion, Go, data, outside, ghosts, TypeOK, CommandsOK, CommandInv,
         PlaceOf, Places, Endorsed, Stored, Said, Growth
<1> QED
  BY <1>1, <1>2, <1>3, <1>4, <1>5, <1>6, <1>7, <1>8, <1>9, <1>10, <1>11, <1>12, <1>13,
     <1>14, <1>15, <1>16, <1>17, <1>18, <1>19, <1>20, <1>21, <1>22, <1>23, <1>24,
     <1>25, <1>26, <1>27
     DEF Executor, Command

-----------------------------------------------------------------------------
(* Checkpoints, logs and files. *)

\* CommandInv is inductive.
LEMMA NextCommandInv ==
    ASSUME TypeOK, TypeOK', Growth, CheckpointInv, [Next]_vars, NEW q \in Commands,
           CommandInv(q)
    PROVE  CommandInv(q)'
<1>1. CASE pc'[q] = pc[q] /\ node'[q] = node[q] /\ dec'[q] = dec[q]
  BY <1>1, CommandInvKept
<1>2. ASSUME NEW p \in Commands, Executor(p) \/ Command(p) PROVE CommandInv(q)'
  BY <1>1, <1>2, CommandInvStep, OthersStay
<1>3. ASSUME NEW e \in Exports, ExportStart(e) \/ ExportWrite(e) PROVE CommandInv(q)'
  BY <1>1, <1>3 DEF ExportStart, ExportWrite, command
<1>4. CASE Kill
  <2>1. node'[q] = node[q] /\ dec'[q] = dec[q]
    BY <1>4 DEF Kill, Go, command
  <2>2. pc'[q] \in {pc[q], "ended"}
    BY <1>4 DEF Kill, Go, command, TypeOK, CommandsOK
  <2>3. CASE pc'[q] = "ended"
    <3>1. answers' = answers /\ props' = props
      BY <1>4 DEF Kill, data, ghosts
    <3>2. node[q].at \in Places
      BY NodeFields DEF TypeOK, CommandsOK
    <3> QED
      BY <2>1, <2>3, <3>1, <3>2 DEF CommandInv, PlaceOf, Endorsed, Stored, Said
  <2> QED
    BY <1>1, <2>1, <2>2, <2>3
<1>5. CASE UNCHANGED vars
  BY <1>1, <1>5 DEF vars, command
<1> QED
  BY <1>2, <1>3, <1>4, <1>5 DEF Next

\* Where checkpoints come from.
LEMMA CheckpointSources ==
    ASSUME TypeOK, [Next]_vars, NEW x \in {storage', state'.latest}
    PROVE  \/ x \in {Nothing, StartNode, storage, state.latest}
           \/ \E p \in Commands : x = node[p]
<1> DEFINE Goal == \/ x \in {Nothing, StartNode, storage, state.latest}
                   \/ \E p \in Commands : x = node[p]
<1> SUFFICES Goal
  OBVIOUS
<1>1. ASSUME NEW p \in Commands, Discover(p) PROVE Goal
  BY <1>1, UpdateTyped
     DEF Discover, Update, Go, Touch, Node, StartNode, outside, ghosts, TypeOK,
         StateOK, Checkpoints
<1>2. ASSUME NEW p \in Commands, Resume(p) PROVE Goal
  BY <1>2, UpdateTyped
     DEF Resume, Resumable, GoTo, Touch, data, outside, TypeOK, StateOK, Checkpoints
<1>3. ASSUME NEW p \in Commands, Raise(p) PROVE Goal
  BY <1>3, UpdateTyped
     DEF Raise, Go, Touch, outside, ghosts, TypeOK, StateOK, Checkpoints
<1>4. ASSUME NEW p \in Commands, Save(p) PROVE Goal
  BY <1>4, UpdateTyped
     DEF Save, Go, Touch, data, outside, ghosts, TypeOK, StateOK, Checkpoints
<1>5. ASSUME NEW p \in Commands, StreamEnds(p) PROVE Goal
  BY <1>5, UpdateTyped
     DEF StreamEnds, Go, Touch, outside, ghosts, TypeOK, StateOK, Checkpoints
<1>6. ASSUME NEW p \in Commands, Generate(p) PROVE Goal
  BY <1>6, UpdateTyped
     DEF Generate, Go, Node, data, outside, TypeOK, StateOK, Checkpoints
<1>7. ASSUME NEW p \in Commands, Answered(p) PROVE Goal
  BY <1>7, UpdateTyped
     DEF Answered, Row, Go, Touch, Log, outside, ghosts, TypeOK, StateOK, Checkpoints
<1>8. ASSUME NEW p \in Commands, LogCall(p) PROVE Goal
  BY <1>8, UpdateTyped
     DEF LogCall, CallRow, Go, Touch, Log, outside, ghosts, TypeOK, StateOK,
         Checkpoints
<1>9. ASSUME NEW p \in Commands, CallFails(p) PROVE Goal
  BY <1>9, UpdateTyped
     DEF CallFails, Failures, CallRow, Fault, Go, Touch, Log, ghosts, TypeOK, StateOK,
         Checkpoints
<1>10. ASSUME NEW p \in Commands, MappingRefused(p) PROVE Goal
  BY <1>10, UpdateTyped
     DEF MappingRefused, Refused, Fault, Go, data, ghosts, TypeOK, StateOK,
         Checkpoints
<1>11. ASSUME NEW p \in Commands, GraphRefused(p) PROVE Goal
  BY <1>11, UpdateTyped
     DEF GraphRefused, Refused, Fault, Go, data, ghosts, TypeOK, StateOK, Checkpoints
<1>12. ASSUME NEW p \in Commands, Propose(p) PROVE Goal
  BY <1>12, UpdateTyped
     DEF Propose, GoTo, Touch, outside, ghosts, TypeOK, StateOK, Checkpoints
<1>13. ASSUME NEW p \in Commands, Drafted(p) PROVE Goal
  BY <1>13, UpdateTyped
     DEF Drafted, GoTo, Touch, outside, ghosts, TypeOK, StateOK, Checkpoints
<1>14. ASSUME NEW p \in Commands, Review(p) PROVE Goal
  BY <1>14, UpdateTyped
     DEF Review, Go, GoTo, data, outside, ghosts, TypeOK, StateOK, Checkpoints
<1>15. ASSUME NEW p \in Commands, Answer(p) PROVE Goal
  BY <1>15, UpdateTyped DEF Answer, data, outside, TypeOK, StateOK, Checkpoints
<1>16. ASSUME NEW p \in Commands, Respond(p) PROVE Goal
  BY <1>16, UpdateTyped
     DEF Respond, ProposalRow, Event, Go, GoTo, Touch, outside, ghosts, TypeOK,
         StateOK, Checkpoints
<1>17. ASSUME NEW p \in Commands, PublishMapping(p) PROVE Goal
  BY <1>17, UpdateTyped
     DEF PublishMapping, Publish, Go, Touch, outside, ghosts, TypeOK, StateOK,
         Checkpoints
<1>18. ASSUME NEW p \in Commands, PublishProfile(p) PROVE Goal
  BY <1>18, UpdateTyped
     DEF PublishProfile, Publish, Go, Touch, outside, ghosts, TypeOK, StateOK,
         Checkpoints
<1>19. ASSUME NEW p \in Commands, Decided(p) PROVE Goal
  BY <1>19, UpdateTyped
     DEF Decided, Update, GoTo, Touch, Node, outside, ghosts, TypeOK, StateOK,
         Checkpoints
<1>20. ASSUME NEW p \in Commands, Confirm(p) PROVE Goal
  BY <1>20, UpdateTyped
     DEF Confirm, ProposalRow, Go, GoTo, data, outside, ghosts, TypeOK, StateOK,
         Checkpoints
<1>21. ASSUME NEW p \in Commands, PublishGraph(p) PROVE Goal
  BY <1>21, UpdateTyped
     DEF PublishGraph, Publish, Go, Touch, outside, ghosts, TypeOK, StateOK,
         Checkpoints
<1>22. ASSUME NEW p \in Commands, PublishProvenance(p) PROVE Goal
  BY <1>22, UpdateTyped
     DEF PublishProvenance, Publish, Go, Touch, outside, ghosts, TypeOK, StateOK,
         Checkpoints
<1>23. ASSUME NEW p \in Commands, Approved(p) PROVE Goal
  BY <1>23, UpdateTyped
     DEF Approved, Update, GoTo, Touch, outside, ghosts, TypeOK, StateOK, Checkpoints
<1>24. ASSUME NEW p \in Commands, Scan(p) PROVE Goal
  BY <1>24, UpdateTyped
     DEF Scan, Go, Touch, data, outside, ghosts, TypeOK, StateOK, Checkpoints
<1>25. ASSUME NEW p \in Commands, VerifyAll(p) PROVE Goal
  BY <1>25, UpdateTyped
     DEF VerifyAll, Go, data, outside, ghosts, TypeOK, StateOK, Checkpoints
<1>26. ASSUME NEW p \in Commands, PublishVerification(p) PROVE Goal
  BY <1>26, UpdateTyped
     DEF PublishVerification, Publish, Go, Touch, outside, ghosts, TypeOK, StateOK,
         Checkpoints
<1>27. ASSUME NEW p \in Commands, WriteCompletion(p) PROVE Goal
  BY <1>27, UpdateTyped
     DEF WriteCompletion, Go, data, outside, ghosts, TypeOK, StateOK, Checkpoints
<1>28. ASSUME NEW e \in Exports, ExportStart(e) PROVE Goal
  BY <1>28, UpdateTyped
     DEF ExportStart, command, data, ghosts, TypeOK, StateOK, Checkpoints
<1>29. ASSUME NEW e \in Exports, ExportWrite(e) PROVE Goal
  BY <1>29, UpdateTyped
     DEF ExportWrite, ExportNext, command, data, ghosts, TypeOK, StateOK, Checkpoints
<1>30. CASE Kill
  BY <1>30, UpdateTyped
     DEF Kill, command, Go, data, ghosts, TypeOK, StateOK, Checkpoints
<1>31. CASE UNCHANGED vars
  BY <1>31, UpdateTyped
     DEF vars, data, command, outside, ghosts, TypeOK, StateOK, Checkpoints
<1> QED
  BY <1>1, <1>2, <1>3, <1>4, <1>5, <1>6, <1>7, <1>8, <1>9, <1>10, <1>11, <1>12, <1>13,
     <1>14, <1>15, <1>16, <1>17, <1>18, <1>19, <1>20, <1>21, <1>22, <1>23, <1>24,
     <1>25, <1>26, <1>27, <1>28, <1>29, <1>30, <1>31
     DEF Next, Executor, Command

\* CheckpointInv is inductive: checkpoints come from commands.
LEMMA NextCheckpointInv ==
    ASSUME TypeOK, TypeOK', Growth, CheckpointInv, \A p \in Commands : CommandInv(p), [Next]_vars
    PROVE  CheckpointInv'
<1> SUFFICES ASSUME NEW x \in {storage', state'.latest}, x # Nothing
             PROVE  (Endorsed(x) /\ Stored(x))'
  BY DEF CheckpointInv
<1>1. Endorsed(x) /\ Stored(x)
  <2>1. Endorsed(StartNode) /\ Stored(StartNode)
    BY NodeMade DEF StartNode, Endorsed, Stored
  <2>2. \A p \in Commands : Endorsed(node[p]) /\ Stored(node[p])
    BY DEF CommandInv
  <2> QED
    BY <2>1, <2>2, CheckpointSources DEF CheckpointInv
<1>2. x \in Nodes /\ x.role \in Roles /\ x.round \in Nat
  BY NodeFields DEF TypeOK, StateOK, Checkpoints
<1>3. Len(props[x.role]) \in Nat /\ Len(props'[x.role]) \in Nat
  BY <1>2 DEF TypeOK, LogsOK
<1> QED
  BY <1>1, <1>2, <1>3 DEF Endorsed, Stored, Said, Growth

\* StartInv is inductive.
LEMMA NextStartInv ==
    ASSUME TypeOK, StartInv, [Next]_vars
    PROVE  StartInv'
<1>1. ASSUME NEW p \in Commands, Discover(p) PROVE StartInv'
  <2>1. Update("created") /\ "created" \in Stages
    BY <1>1 DEF Discover, Stages
  <2> QED
    BY <2>1, UpdateTyped DEF StartInv, Nobody, TypeOK
<1>3. ASSUME NEW p \in Commands, Active(p) \/ Resume(p) PROVE state.stage # Nobody
  BY <1>3 DEF StartInv, Resume, Resumable
<1>4. ASSUME NEW p \in Commands, Executor(p) \/ Command(p), ~Discover(p)
      PROVE  Active(p) \/ Resume(p)
  <2>1. pc[p] \notin {"idle", "ended"} \/ Resume(p)
    BY <1>4
       DEF Executor, Command, Raise, Save, StreamEnds, Generate, Answered, LogCall,
           CallRow, CallFails, Failures, Fault, MappingRefused, Refused,
           GraphRefused, Propose, Drafted, Review, Answer, Respond, ProposalRow,
           Event, PublishMapping, Publish, PublishProfile, Decided, Confirm,
           PublishGraph, PublishProvenance, Approved, Scan, VerifyAll,
           PublishVerification, WriteCompletion
  <2> QED
    BY <2>1 DEF Active
<1>5. ASSUME NEW p \in Commands, Executor(p) \/ Command(p), ~Discover(p)
      PROVE  state'.stage # Nobody
  <2>0. state.stage # Nobody
    BY <1>3, <1>4, <1>5
  <2> USE <2>0, UpdateTyped DEF TypeOK
  <2>1. CASE Discover(p)
    BY <1>5, <2>1
  <2>2. CASE Resume(p)
    BY <2>2
       DEF Resume, Resumable, GoTo, Touch, data, outside, StateOK, Nobody,
           ReviewStage, RevisionStage
  <2>3. CASE Raise(p)
    BY <2>3
       DEF Raise, Go, Touch, outside, ghosts, StateOK, Nobody, ReviewStage,
           RevisionStage
  <2>4. CASE Save(p)
    BY <2>4
       DEF Save, Go, Touch, data, outside, ghosts, StateOK, Nobody, ReviewStage,
           RevisionStage
  <2>5. CASE StreamEnds(p)
    BY <2>5
       DEF StreamEnds, Go, Touch, outside, ghosts, StateOK, Nobody, ReviewStage,
           RevisionStage
  <2>6. CASE Generate(p)
    BY <2>6
       DEF Generate, Go, Node, data, outside, StateOK, Nobody, ReviewStage,
           RevisionStage
  <2>7. CASE Answered(p)
    BY <2>7
       DEF Answered, Row, Go, Touch, Log, outside, ghosts, StateOK, Nobody,
           ReviewStage, RevisionStage
  <2>8. CASE LogCall(p)
    BY <2>8
       DEF LogCall, CallRow, Go, Touch, Log, outside, ghosts, StateOK, Nobody,
           ReviewStage, RevisionStage
  <2>9. CASE CallFails(p)
    BY <2>9
       DEF CallFails, Failures, CallRow, Fault, Go, Touch, Log, ghosts, StateOK,
           Nobody, ReviewStage, RevisionStage
  <2>10. CASE MappingRefused(p)
    BY <2>10
       DEF MappingRefused, Refused, Fault, Go, data, ghosts, StateOK, Nobody,
           ReviewStage, RevisionStage
  <2>11. CASE GraphRefused(p)
    BY <2>11
       DEF GraphRefused, Refused, Fault, Go, data, ghosts, StateOK, Nobody,
           ReviewStage, RevisionStage
  <2>12. CASE Propose(p)
    BY <2>12
       DEF Propose, GoTo, Touch, outside, ghosts, StateOK, Nobody, ReviewStage,
           RevisionStage
  <2>13. CASE Drafted(p)
    BY <2>13
       DEF Drafted, GoTo, Touch, outside, ghosts, StateOK, Nobody, ReviewStage,
           RevisionStage
  <2>14. CASE Review(p)
    BY <2>14
       DEF Review, Go, GoTo, data, outside, ghosts, StateOK, Nobody, ReviewStage,
           RevisionStage
  <2>15. CASE Answer(p)
    BY <2>15 DEF Answer, data, outside, StateOK, Nobody, ReviewStage, RevisionStage
  <2>16. CASE Respond(p)
    BY <2>16
       DEF Respond, ProposalRow, Event, Go, GoTo, Touch, outside, ghosts, StateOK,
           Nobody, ReviewStage, RevisionStage
  <2>17. CASE PublishMapping(p)
    BY <2>17
       DEF PublishMapping, Publish, Go, Touch, outside, ghosts, StateOK, Nobody,
           ReviewStage, RevisionStage
  <2>18. CASE PublishProfile(p)
    BY <2>18
       DEF PublishProfile, Publish, Go, Touch, outside, ghosts, StateOK, Nobody,
           ReviewStage, RevisionStage
  <2>19. CASE Decided(p)
    BY <2>19
       DEF Decided, Update, GoTo, Touch, Node, outside, ghosts, StateOK, Nobody,
           ReviewStage, RevisionStage
  <2>20. CASE Confirm(p)
    BY <2>20
       DEF Confirm, ProposalRow, Go, GoTo, data, outside, ghosts, StateOK, Nobody,
           ReviewStage, RevisionStage
  <2>21. CASE PublishGraph(p)
    BY <2>21
       DEF PublishGraph, Publish, Go, Touch, outside, ghosts, StateOK, Nobody,
           ReviewStage, RevisionStage
  <2>22. CASE PublishProvenance(p)
    BY <2>22
       DEF PublishProvenance, Publish, Go, Touch, outside, ghosts, StateOK, Nobody,
           ReviewStage, RevisionStage
  <2>23. CASE Approved(p)
    BY <2>23
       DEF Approved, Update, GoTo, Touch, outside, ghosts, StateOK, Nobody,
           ReviewStage, RevisionStage
  <2>24. CASE Scan(p)
    BY <2>24
       DEF Scan, Go, Touch, data, outside, ghosts, StateOK, Nobody, ReviewStage,
           RevisionStage
  <2>25. CASE VerifyAll(p)
    BY <2>25
       DEF VerifyAll, Go, data, outside, ghosts, StateOK, Nobody, ReviewStage,
           RevisionStage
  <2>26. CASE PublishVerification(p)
    BY <2>26
       DEF PublishVerification, Publish, Go, Touch, outside, ghosts, StateOK,
           Nobody, ReviewStage, RevisionStage
  <2>27. CASE WriteCompletion(p)
    BY <2>27
       DEF WriteCompletion, Go, data, outside, ghosts, StateOK, Nobody, ReviewStage,
           RevisionStage
  <2> QED
    BY <1>5, <2>1, <2>2, <2>3, <2>4, <2>5, <2>6, <2>7, <2>8, <2>9, <2>10, <2>11,
       <2>12, <2>13, <2>14, <2>15, <2>16, <2>17, <2>18, <2>19, <2>20, <2>21, <2>22,
       <2>23, <2>24, <2>25, <2>26, <2>27
       DEF Executor, Command
<1>6. ASSUME NEW e \in Exports, ExportStart(e) \/ ExportWrite(e) PROVE StartInv'
  BY <1>6 DEF StartInv, ExportStart, ExportWrite, data, command, Active
<1>7. CASE Kill
  <2>1. CASE state.stage = Nobody
    <3>1. \A p \in Commands : pc'[p] = pc[p]
      BY <1>7, <2>1 DEF Kill, StartInv, Active, command
    <3> QED
      BY <1>7, <2>1, <3>1 DEF Kill, StartInv, Active, data
  <2>2. CASE state.stage # Nobody
    BY <1>7, <2>2 DEF Kill, StartInv, data
  <2> QED
    BY <2>1, <2>2
<1>8. CASE UNCHANGED vars
  BY <1>8 DEF vars, data, command, StartInv, Active
<1> QED
  BY <1>1, <1>5, <1>6, <1>7, <1>8 DEF Next, StartInv

\* A command that is not idle is the only one, unless overlap says otherwise.
LEMMA NextSoloInv ==
    ASSUME TypeOK, TypeOK', StartInv, SoloInv, [Next]_vars
    PROVE  SoloInv'
<1> SUFFICES ASSUME ~overlap', NEW p \in Commands, NEW q \in Commands,
                    Active(p)', Active(q)', p # q
             PROVE  FALSE
  BY DEF SoloInv
<1>1. ASSUME ~overlap, pc'[p] = pc[p], pc'[q] = pc[q] PROVE FALSE
  BY <1>1 DEF SoloInv, Active
<1>2. ASSUME NEW c \in Commands, NEW o \in Commands, c # o, Active(o)', Active(c)',
             Executor(c) \/ Command(c)
      PROVE  FALSE
  <2>1. pc'[o] = pc[o] /\ Active(o)
    BY <1>2, OthersStay DEF Active
  <2>2. CASE Discover(c)
    BY <2>1, <2>2 DEF Discover, StartInv
  <2>3. CASE Resume(c)
    BY <1>2, <2>1, <2>3 DEF Resume, Active
  <2>4. CASE ~Discover(c) /\ ~Resume(c)
    <3>1. Active(c)
      BY <1>2, <2>4
         DEF Active, Executor, Command, Raise, Save, StreamEnds, Generate,
             Answered, LogCall, CallFails, Fault, MappingRefused, Refused,
             GraphRefused, Propose, Drafted, Review, Answer, Respond,
             PublishMapping, Publish, PublishProfile, Decided, Confirm,
             PublishGraph, PublishProvenance, Approved, Scan, VerifyAll,
             PublishVerification, WriteCompletion
    <3>2. overlap' = overlap
      BY <1>2, <2>4
         DEF data, outside, ghosts, Executor, Command, Raise, Save, StreamEnds,
             Generate, Answered, LogCall, CallFails, Fault, MappingRefused,
             Refused, GraphRefused, Propose, Drafted, Review, Answer, Respond,
             PublishMapping, Publish, PublishProfile, Decided, Confirm,
             PublishGraph, PublishProvenance, Approved, Scan, VerifyAll,
             PublishVerification, WriteCompletion
    <3> QED
      BY <1>2, <2>1, <3>1, <3>2 DEF SoloInv
  <2> QED
    BY <2>2, <2>3, <2>4
<1>3. ASSUME NEW c \in Commands, Executor(c) \/ Command(c) PROVE FALSE
  <2>1. CASE c = p \/ c = q
    BY <1>2, <1>3, <2>1
  <2>2. CASE c # p /\ c # q
    <3>1. pc'[p] = pc[p] /\ pc'[q] = pc[q]
      BY <1>3, <2>2, OthersStay
    <3>2. overlap => overlap'
      BY <1>3
         DEF data, outside, ghosts, Executor, Command, Discover, Resume, Raise,
             Save, StreamEnds, Generate, Answered, LogCall, CallFails, Fault,
             MappingRefused, Refused, GraphRefused, Propose, Drafted, Review,
             Answer, Respond, PublishMapping, Publish, PublishProfile, Decided,
             Confirm, PublishGraph, PublishProvenance, Approved, Scan, VerifyAll,
             PublishVerification, WriteCompletion
    <3> QED
      BY <1>1, <3>1, <3>2
  <2> QED
    BY <2>1, <2>2
<1>4. ASSUME NEW e \in Exports, ExportStart(e) \/ ExportWrite(e) PROVE FALSE
  BY <1>1, <1>4 DEF ExportStart, ExportWrite, ghosts, command
<1>5. CASE Kill
  <2>1. Active(p) /\ Active(q)
    BY <1>5 DEF Kill, Go, Active, command, TypeOK, CommandsOK
  <2> QED
    BY <1>5, <2>1 DEF Kill, SoloInv, ghosts
<1>6. CASE UNCHANGED vars
  BY <1>1, <1>6 DEF vars, ghosts, command
<1> QED
  BY <1>3, <1>4, <1>5, <1>6 DEF Next

\* What Respond does to the events of the node's role.
LEMMA EventAppended ==
    ASSUME TypeOK, NEW p \in Commands, Respond(p)
    PROVE  LET r == node[p].role IN
           /\ r \in Roles /\ Len(events[r]) \in Nat
           /\ Len(events'[r]) = Len(events[r]) + 1
           /\ \A i \in 1 .. Len(events[r]) : events'[r][i] = events[r][i]
           /\ events'[r][Len(events[r]) + 1] = Event(node[p], dec[p])
           /\ \A s \in Roles \ {r} : events'[s] = events[s]
<1> DEFINE r == node[p].role
           e == Event(node[p], dec[p])
<1>1. r \in Roles
  BY NodeFields DEF TypeOK, CommandsOK
<1>2. events' = [events EXCEPT ![r] = Append(@, e)]
  BY DEF Respond
<1> HIDE DEF r, e
<1>3. /\ Len(events[r]) \in Nat
      /\ Len(events'[r]) = Len(events[r]) + 1
      /\ \A i \in 1 .. Len(events[r]) : events'[r][i] = events[r][i]
      /\ events'[r][Len(events[r]) + 1] = e
      /\ \A s \in Roles \ {r} : events'[s] = events[s]
  BY <1>1, <1>2 DEF TypeOK, LogsOK
<1> QED
  BY <1>1, <1>3 DEF r, e

\* Respond alone writes review events.
LEMMA EventsOnlyByRespond ==
    ASSUME [Next]_vars, \A p \in Commands : ~Respond(p)
    PROVE  events' = events
  BY ZenonT(40)
     DEF vars, data, outside, ghosts, Next, Executor, Command, ExportStart,
         ExportWrite, Kill, Discover, Resume, Raise, Save, StreamEnds, Generate,
         Answered, LogCall, CallFails, Fault, MappingRefused, Refused, GraphRefused,
         Propose, Drafted, Review, Answer, PublishMapping, Publish, PublishProfile,
         Decided, Confirm, PublishGraph, PublishProvenance, Approved, Scan, VerifyAll,
         PublishVerification, WriteCompletion

\* Answer alone adds an answer.
LEMMA AnswersOnlyByAnswer ==
    ASSUME [Next]_vars, \A p \in Commands : ~Answer(p)
    PROVE  answers' = answers
  BY ZenonT(40)
     DEF vars, data, outside, ghosts, Next, Executor, Command, ExportStart,
         ExportWrite, Kill, Discover, Resume, Raise, Save, StreamEnds, Generate,
         Answered, LogCall, CallFails, Fault, MappingRefused, Refused, GraphRefused,
         Propose, Drafted, Review, Respond, PublishMapping, Publish, PublishProfile,
         Decided, Confirm, PublishGraph, PublishProvenance, Approved, Scan, VerifyAll,
         PublishVerification, WriteCompletion

\* LogInv is inductive.
LEMMA NextLogInv ==
    ASSUME TypeOK, TypeOK', Growth, LogInv, \A p \in Commands : CommandInv(p), [Next]_vars
    PROVE  LogInv'
<1> DEFINE Recorded(s, i) ==
             <<s, events[s][i].round, events[s][i].id, events[s][i].dec>> \in answers
<1>1. ASSUME NEW p \in Commands, Respond(p), NEW s \in Roles, NEW i \in 1 .. Len(events'[s])
      PROVE  Recorded(s, i)'
  <2>1. answers' = answers
    BY <1>1 DEF Respond, ghosts
  <2>2. CASE s = node[p].role /\ i = Len(events[s]) + 1
    <3>1. events'[s][i] = Event(node[p], dec[p])
      BY <1>1, <2>2, EventAppended
    <3>2. <<s, Event(node[p], dec[p]).round, Event(node[p], dec[p]).id,
            Event(node[p], dec[p]).dec>> \in answers
      BY <1>1, <2>2 DEF Respond, CommandInv, Said, Event
    <3> QED
      BY <2>1, <3>1, <3>2
  <2>3. CASE s # node[p].role \/ i # Len(events[s]) + 1
    <3>1. i \in 1 .. Len(events[s]) /\ events'[s][i] = events[s][i]
      <4>1. CASE s = node[p].role
        <5>1. Len(events'[s]) = Len(events[s]) + 1 /\ Len(events[s]) \in Nat
          BY <1>1, <4>1, EventAppended
        <5>2. i \in 1 .. Len(events[s])
          BY <2>3, <4>1, <5>1
        <5> QED
          BY <1>1, <4>1, <5>2, EventAppended
      <4>2. CASE s # node[p].role
        BY <1>1, <4>2, EventAppended
      <4> QED
        BY <4>1, <4>2
    <3> QED
      BY <2>1, <3>1 DEF LogInv
  <2> QED
    BY <2>2, <2>3
<1>2. ASSUME \A p \in Commands : ~Respond(p), NEW s \in Roles, NEW i \in 1 .. Len(events'[s])
      PROVE  Recorded(s, i)'
  BY <1>2, EventsOnlyByRespond DEF LogInv, Growth
<1>3. ASSUME NEW a \in answers' PROVE a[2] <= Len(props'[a[1]])
  <2>1. a[1] \in Roles /\ a[2] \in Nat /\ Len(props[a[1]]) \in Nat /\ Len(props'[a[1]]) \in Nat
    BY DEF TypeOK, OthersOK, LogsOK
  <2>2. CASE a \in answers
    BY <2>1, <2>2 DEF LogInv, Growth
  <2>3. CASE a \notin answers
    <3>1. PICK p \in Commands : Answer(p)
      BY <2>3, AnswersOnlyByAnswer
    <3>2. PICK d \in Decisions : a = <<node[p].role, node[p].round, node[p].id, d>>
      BY <2>3, <3>1 DEF Answer
    <3>3. a[2] <= Len(props[a[1]])
      BY <3>1, <3>2 DEF Answer, CommandInv, PlaceOf, Stored
    <3> QED
      BY <2>1, <3>3 DEF Growth
  <2> QED
    BY <2>2, <2>3
<1> QED
  BY <1>1, <1>2, <1>3 DEF LogInv

\* How an artifact comes about.
LEMMA FileSources ==
    ASSUME TypeOK, [Next]_vars, NEW f \in Artifacts, file'[f] # file[f]
    PROVE  /\ file[f] = Nothing
           /\ \/ f = "verification"
              \/ \E p \in Commands :
                    \/ f = "mapping" /\ pc[p] = "publish_mapping" /\ file'[f] = node[p].id
                    \/ f = "profile" /\ pc[p] = "publish_profile" /\ file'[f] = node[p].id
                    \/ f = "graph" /\ pc[p] = "publish_graph" /\ file'[f] = node[p].id
                    \/ f = "provenance" /\ pc[p] = "publish_prov"
           /\ UNCHANGED answers
<1> DEFINE Wrote(p, from, name, value) ==
             /\ pc[p] = from /\ file[name] = Nothing /\ UNCHANGED answers
             /\ file' = [file EXCEPT ![name] = value]
<1>1. ASSUME NEW p \in Commands, NEW from, NEW name, NEW value, NEW to,
             Publish(p, from, name, value, to)
      PROVE  file' = file \/ Wrote(p, from, name, value)
  BY <1>1, PublishStep
<1>2. PICK p \in Commands :
         PublishMapping(p) \/ PublishProfile(p) \/ PublishGraph(p)
         \/ PublishProvenance(p) \/ PublishVerification(p)
  BY ZenonT(40)
     DEF vars, data, outside, ghosts, Next, Executor, Command, ExportStart,
         ExportWrite, Kill, Discover, Resume, Raise, Save, StreamEnds, Generate,
         Answered, LogCall, CallFails, Fault, MappingRefused, Refused, GraphRefused,
         Propose, Drafted, Review, Answer, Respond, Decided, Confirm, Approved, Scan,
         VerifyAll, WriteCompletion
<1>3. \/ Wrote(p, "publish_mapping", "mapping", node[p].id)
      \/ Wrote(p, "publish_profile", "profile", node[p].id)
      \/ Wrote(p, "publish_graph", "graph", node[p].id)
      \/ Wrote(p, "publish_prov", "provenance", Provenance(node[p].round))
      \/ Wrote(p, "publish_verification", "verification", <<"passed">>)
  BY <1>1, <1>2
     DEF PublishMapping, PublishProfile, PublishGraph, PublishProvenance,
         PublishVerification
<1>4. DOMAIN file = Artifacts
  BY DEF TypeOK, OthersOK
<1> QED
  BY <1>3, <1>4 DEF Artifacts

\* FileInv is inductive: artifacts are written once, and from an approved node.
LEMMA NextFileInv ==
    ASSUME TypeOK, Growth, FileInv, \A p \in Commands : CommandInv(p), [Next]_vars
    PROVE  FileInv'
<1> DEFINE Shown(f, r) == file[f] # Nothing =>
             \E a \in answers : a[1] = r /\ a[3] = file[f] /\ a[4] = "approve"
<1>1. ASSUME NEW f \in Artifacts, NEW r, Shown(f, r), file'[f] = file[f] PROVE Shown(f, r)'
  BY <1>1 DEF Growth
<1>2. ASSUME NEW p \in Commands, NEW d, Said(node[p], d)
      PROVE  \E a \in answers : a[1] = node[p].role /\ a[3] = node[p].id /\ a[4] = d
  <2>1. <<node[p].role, node[p].round, node[p].id, d>> \in answers
    BY <1>2 DEF Said
  <2> QED
    BY <2>1
<1>3. ASSUME file'["mapping"] # file["mapping"] PROVE Shown("mapping", "mapping")'
  <2>1. PICK p \in Commands : pc[p] = "publish_mapping" /\ file'["mapping"] = node[p].id
    BY <1>3, FileSources DEF Artifacts
  <2>2. answers' = answers
    BY <1>3, FileSources DEF Artifacts
  <2>3. Said(node[p], "approve") /\ node[p].role = "mapping"
    BY <2>1 DEF CommandInv
  <2> QED
    BY <1>2, <2>1, <2>2, <2>3
<1>4. ASSUME file'["profile"] # file["profile"] PROVE Shown("profile", "mapping")'
  <2>1. PICK p \in Commands : pc[p] = "publish_profile" /\ file'["profile"] = node[p].id
    BY <1>4, FileSources DEF Artifacts
  <2>2. answers' = answers
    BY <1>4, FileSources DEF Artifacts
  <2>3. Said(node[p], "approve") /\ node[p].role = "mapping"
    BY <2>1 DEF CommandInv
  <2> QED
    BY <1>2, <2>1, <2>2, <2>3
<1>5. ASSUME file'["graph"] # file["graph"] PROVE Shown("graph", "causal")'
  <2>1. PICK p \in Commands : pc[p] = "publish_graph" /\ file'["graph"] = node[p].id
    BY <1>5, FileSources DEF Artifacts
  <2>2. answers' = answers
    BY <1>5, FileSources DEF Artifacts
  <2>3. Said(node[p], "approve") /\ node[p].role = "causal"
    BY <2>1 DEF CommandInv, PlaceOf, Endorsed, Said
  <2> QED
    BY <1>2, <2>1, <2>2, <2>3
<1>6. Shown("mapping", "mapping") /\ Shown("profile", "mapping") /\ Shown("graph", "causal")
  BY DEF FileInv
<1>7. {"mapping", "profile", "graph"} \subseteq Artifacts
  BY DEF Artifacts
<1>8. Shown("mapping", "mapping")' /\ Shown("profile", "mapping")' /\ Shown("graph", "causal")'
  BY <1>1, <1>3, <1>4, <1>5, <1>6, <1>7
<1> QED
  BY <1>8 DEF FileInv

-----------------------------------------------------------------------------
(* Export. *)

\* A complete workspace has all the files that are exported.
LEMMA CompleteFiles ==
    ASSUME TypeOK, Complete
    PROVE  /\ file["mapping"] # Nothing /\ file["profile"] = file["mapping"]
           /\ file["graph"] # Nothing /\ file["provenance"] # Nothing
<1>1. ASSUME NEW r \in Roles PROVE ApprovedRow(r) \in Proposals
  <2>1. ReviewEvents(events[r], props[r])
    BY DEF Complete, Verified
  <2>2. events[r] \in Seq(Events) /\ props[r] \in Seq(Proposals)
    BY DEF TypeOK, LogsOK
  <2>3. Len(events[r]) \in 1 .. Len(props[r]) /\ events[r][Len(events[r])].round = Len(events[r])
    BY <2>1, <2>2 DEF ReviewEvents
  <2> QED
    BY <2>2, <2>3 DEF ApprovedRow
<1>2. \A r \in Roles : ApprovedRow(r).id # Nothing
  BY <1>1, OfflineAssumption DEF Proposals, OfflineAssumption
<1>3. Provenance(ApprovedRow("causal").round) # Nothing
  BY DEF Provenance, Nothing
<1> QED
  BY <1>2, <1>3 DEF Complete, Verified, Roles

\* ExportInv is inductive: an export reads files that stay as they are.
LEMMA NextExportInv ==
    ASSUME TypeOK, TypeOK', ExportInv, [Next]_vars
    PROVE  ExportInv'
<1> DEFINE frozen == /\ file["mapping"] # Nothing /\ file["profile"] = file["mapping"]
                     /\ file["graph"] # Nothing /\ file["provenance"] # Nothing
<1>1. ASSUME NEW f \in Artifacts, file[f] # Nothing PROVE file'[f] = file[f]
  BY <1>1, FileSources
<1>2. /\ {"mapping", "profile", "graph", "provenance"} \subseteq Artifacts
      /\ Targets \subseteq Artifacts
  BY DEF Artifacts, Targets
<1>3. frozen => frozen'
  BY <1>1, <1>2
<1>4. ASSUME NEW f \in Targets, target[f] # Nothing PROVE file'[f] = file[f]
  BY <1>1, <1>2, <1>4 DEF ExportInv
<1>5. ASSUME UNCHANGED target,
             \A e \in Exports : export'[e] \in {export[e], "ended"} 
      PROVE  ExportInv'
  BY <1>3, <1>4, <1>5 DEF ExportInv
<1>6. ASSUME NEW e \in Exports, ExportStart(e) PROVE ExportInv'
  <2>1. frozen /\ file' = file /\ target' = target
    BY <1>6, CompleteFiles DEF ExportStart, data
  <2>2. \A d \in Exports : export'[d] = IF d = e THEN "graph" ELSE export[d]
    BY <1>6 DEF ExportStart, TypeOK, OthersOK
  <2> QED
    BY <2>1, <2>2 DEF ExportInv
<1>7. ASSUME NEW e \in Exports, ExportWrite(e) PROVE ExportInv'
  <2> DEFINE f == export[e]
  <2>1. f \in Targets /\ file' = file /\ frozen
    BY <1>7 DEF ExportWrite, data, ExportInv, TypeOK, OthersOK, Targets
  <2>2. CASE target[f] # Nothing
    <3>1. UNCHANGED target /\ \A d \in Exports : export'[d] \in {export[d], "ended"}
      BY <1>7, <2>2 DEF ExportWrite, TypeOK, OthersOK
    <3> QED
      BY <1>5, <3>1
  <2>3. CASE target[f] = Nothing
    <3>1. /\ target' = [target EXCEPT ![f] = file[f]]
          /\ export' = [export EXCEPT ![e] = ExportNext(f)]
      BY <1>7, <2>3 DEF ExportWrite
    <3>2. file[f] # Nothing
      BY <2>1 DEF Targets
    <3>3. \A g \in Targets : target'[g] = IF g = f THEN file[f] ELSE target[g]
      BY <3>1 DEF TypeOK, OthersOK
    <3>4. \A d \in Exports : export'[d] = IF d = e THEN ExportNext(f) ELSE export[d]
      BY <3>1 DEF TypeOK, OthersOK
    <3>5. /\ export[e] = "provenance" => target["graph"] # Nothing
          /\ export[e] = "profile" => target["graph"] # Nothing /\ target["provenance"] # Nothing
      BY DEF ExportInv
    <3> QED
      BY <2>1, <3>2, <3>3, <3>4, <3>5 DEF ExportInv, ExportNext, Targets
  <2> QED
    BY <2>2, <2>3
<1>8. CASE Kill
  <2>1. UNCHANGED target /\ \A e \in Exports : export'[e] \in {export[e], "ended"}
    BY <1>8 DEF Kill, TypeOK, OthersOK
  <2> QED
    BY <1>5, <2>1
<1>9. ASSUME NEW p \in Commands, Executor(p) \/ Command(p) PROVE ExportInv'
  <2>1. UNCHANGED <<target, export>>
    BY <1>9
       DEF data, outside, ghosts, Executor, Command, Discover, Resume, Raise, Save,
           StreamEnds, Generate, Answered, LogCall, CallFails, Fault,
           MappingRefused, Refused, GraphRefused, Propose, Drafted, Review, Answer,
           Respond, PublishMapping, Publish, PublishProfile, Decided, Confirm,
           PublishGraph, PublishProvenance, Approved, Scan, VerifyAll,
           PublishVerification, WriteCompletion
  <2> QED
    BY <1>5, <2>1
<1>10. CASE UNCHANGED vars
  BY <1>5, <1>10 DEF vars, outside
<1> QED
  BY <1>6, <1>7, <1>8, <1>9, <1>10 DEF Next

-----------------------------------------------------------------------------
(* Counting calls. *)

One(b) == IF b THEN 1 ELSE 0

\* Sets of commands that differ in one command at most.
LEMMA OneMoves ==
    ASSUME NEW S \in SUBSET Commands, NEW T \in SUBSET Commands, NEW p \in Commands,
           S \ {p} = T \ {p}
    PROVE  /\ Cardinality(S) \in Nat /\ Cardinality(T) \in Nat
           /\ Cardinality(T) = Cardinality(S) + One(p \in T) - One(p \in S)
<1>1. IsFiniteSet(S) /\ IsFiniteSet(T)
  BY FS_Subset, OfflineAssumption DEF OfflineAssumption
<1>2. Cardinality(S) \in Nat /\ Cardinality(T) \in Nat
  BY <1>1, FS_CardinalityType
<1>3. CASE p \in S <=> p \in T
  <2>1. S = T
    BY <1>3
  <2> QED
    BY <1>2, <1>3, <2>1 DEF One
<1>4. CASE p \in S /\ p \notin T
  <2>1. T = S \ {p}
    BY <1>4
  <2> QED
    BY <1>1, <1>2, <1>4, <2>1, FS_RemoveElement DEF One
<1>5. CASE p \notin S /\ p \in T
  <2>1. T = S \cup {p}
    BY <1>5
  <2> QED
    BY <1>1, <1>2, <1>5, <2>1, FS_AddElement DEF One
<1> QED
  BY <1>3, <1>4, <1>5

\* The calls of a role are finitely many.
LEMMA CallCounts ==
    ASSUME TypeOK, NEW r
    PROVE  /\ IsFiniteSet(CallsOf(r)) /\ IsFiniteSet(Confirmed(r))
           /\ RoleCalls(r) \in Nat /\ RoleCallsConfirmed(r) \in Nat
           /\ RoleCallsConfirmed(r) <= RoleCalls(r)
<1>1. IsFiniteSet(1 .. Len(calls))
  BY FS_Interval DEF TypeOK, LogsOK
<1>2. CallsOf(r) \subseteq 1 .. Len(calls) /\ Confirmed(r) \subseteq CallsOf(r)
  BY DEF CallsOf, Confirmed
<1>3. IsFiniteSet(CallsOf(r))
  BY <1>1, <1>2, FS_Subset
<1> QED
  BY <1>2, <1>3, FS_Subset, FS_CardinalityType DEF RoleCalls, RoleCallsConfirmed

\* What a row of model_calls.jsonl adds to the counts.
LEMMA CallsAppended ==
    ASSUME TypeOK, NEW c, calls' = Append(calls, c), NEW r
    PROVE  /\ RoleCalls(r)' = RoleCalls(r) + One(c.role = r)
           /\ RoleCallsConfirmed(r)' =
                 RoleCallsConfirmed(r) + One(c.role = r /\ c.st = "confirmed")
<1> DEFINE k == Len(calls) + 1
<1>1. /\ Len(calls') = k /\ k \in Nat
      /\ calls'[k] = c
      /\ \A i \in 1 .. Len(calls) : calls'[i] = calls[i]
      /\ 1 .. k = (1 .. Len(calls)) \cup {k} /\ k \notin 1 .. Len(calls)
  BY DEF TypeOK, LogsOK
<1> HIDE DEF k
<1>2. CallsOf(r)' = IF c.role = r THEN CallsOf(r) \cup {k} ELSE CallsOf(r)
  BY <1>1 DEF CallsOf
<1>3. Confirmed(r)' = IF c.role = r /\ c.st = "confirmed" THEN Confirmed(r) \cup {k}
                                                         ELSE Confirmed(r)
  BY <1>1 DEF CallsOf, Confirmed
<1>4. k \notin CallsOf(r) /\ k \notin Confirmed(r)
  BY <1>1 DEF CallsOf, Confirmed
<1>5. RoleCalls(r)' = RoleCalls(r) + One(c.role = r)
  <2>1. /\ IsFiniteSet(CallsOf(r)) /\ Cardinality(CallsOf(r)) \in Nat
        /\ Cardinality(CallsOf(r) \cup {k}) = Cardinality(CallsOf(r)) + 1
    BY <1>4, CallCounts, FS_AddElement DEF RoleCalls
  <2> QED
    BY <1>2, <2>1 DEF RoleCalls, One
<1>6. RoleCallsConfirmed(r)' = RoleCallsConfirmed(r) + One(c.role = r /\ c.st = "confirmed")
  <2>1. /\ IsFiniteSet(Confirmed(r)) /\ Cardinality(Confirmed(r)) \in Nat
        /\ Cardinality(Confirmed(r) \cup {k}) = Cardinality(Confirmed(r)) + 1
    BY <1>4, CallCounts, FS_AddElement DEF RoleCallsConfirmed
  <2> QED
    BY <1>3, <2>1 DEF RoleCallsConfirmed, One
<1> QED
  BY <1>5, <1>6

\* A command that neither calls nor proposes.
Quiet(p) ==
    /\ {pc[p], pc'[p]} \cap {"calling", "answered", "validating"} = {}
    /\ UNCHANGED <<calls, props, requests, kills>>
    /\ overlap => overlap'

\* What a step of a command adds to the sets of flying and validating ones.
LEMMA CountsMove ==
    ASSUME TypeOK, NEW p \in Commands, Executor(p) \/ Command(p), NEW r
    PROVE  /\ Cardinality(Flying(r)) \in Nat /\ Cardinality(Validating(r)) \in Nat
           /\ Cardinality(Flying(r))' \in Nat /\ Cardinality(Validating(r))' \in Nat
           /\ Cardinality(Flying(r))' =
                 Cardinality(Flying(r)) + One(Flies(p, r)') - One(Flies(p, r))
           /\ Cardinality(Validating(r))' =
                 Cardinality(Validating(r)) + One(Validates(p, r)') - One(Validates(p, r))
<1>1. /\ Flying(r) \in SUBSET Commands /\ Flying(r)' \in SUBSET Commands
      /\ Validating(r) \in SUBSET Commands /\ Validating(r)' \in SUBSET Commands
  BY DEF Flying, Validating
<1>2. \A q \in Commands \ {p} : (Flies(q, r)' <=> Flies(q, r)) /\ (Validates(q, r)' <=> Validates(q, r))
  BY OthersStay DEF Flies, Validates
<1>3. Flying(r) \ {p} = Flying(r)' \ {p} /\ Validating(r) \ {p} = Validating(r)' \ {p}
  BY <1>2 DEF Flying, Validating
<1>4. /\ p \in Flying(r) <=> Flies(p, r)
      /\ p \in Flying(r)' <=> Flies(p, r)'
      /\ p \in Validating(r) <=> Validates(p, r)
      /\ p \in Validating(r)' <=> Validates(p, r)'
  BY DEF Flying, Validating
<1>5. /\ Cardinality(Flying(r)) \in Nat /\ Cardinality(Flying(r)') \in Nat
      /\ Cardinality(Flying(r)') =
            Cardinality(Flying(r)) + One(p \in Flying(r)') - One(p \in Flying(r))
  BY <1>1, <1>3, OneMoves
<1>6. /\ Cardinality(Validating(r)) \in Nat /\ Cardinality(Validating(r)') \in Nat
      /\ Cardinality(Validating(r)') =
            Cardinality(Validating(r)) + One(p \in Validating(r)') - One(p \in Validating(r))
  BY <1>1, <1>3, OneMoves
<1> QED
  BY <1>4, <1>5, <1>6 DEF One

\* CountInv holds on when nothing is called or proposed.
LEMMA QuietCount ==
    ASSUME TypeOK, TypeOK', NEW p \in Commands, Executor(p) \/ Command(p), Quiet(p),
           NEW r \in Roles, CountInv(r)
    PROVE  CountInv(r)'
<1>1. ~Flies(p, r) /\ ~Flies(p, r)' /\ ~Validates(p, r) /\ ~Validates(p, r)'
  BY DEF Quiet, Flies, Validates
<1>2. /\ Cardinality(Flying(r))' = Cardinality(Flying(r))
      /\ Cardinality(Validating(r))' = Cardinality(Validating(r))
      /\ Cardinality(Flying(r)) \in Nat /\ Cardinality(Validating(r)) \in Nat
  BY <1>1, CountsMove DEF One
<1>3. UNCHANGED <<RoleCalls(r), RoleCallsConfirmed(r)>>
  BY DEF Quiet, RoleCalls, RoleCallsConfirmed, Confirmed, CallsOf
<1>4. Cardinality(Commands) - 1 >= 0 /\ Cardinality(Commands) \in Nat
  <2>1. {p} \subseteq Commands /\ Cardinality({p}) = 1
    BY FS_Singleton
  <2> QED
    BY <2>1, FS_Subset, FS_CardinalityType, OfflineAssumption DEF OfflineAssumption
<1>5. RoleCalls(r) \in Nat /\ Limit(r) \in Nat
  BY CallCounts, OfflineAssumption DEF Limit, OfflineAssumption
<1>6. overlap \in BOOLEAN /\ overlap' \in BOOLEAN
  BY DEF TypeOK, OthersOK
<1>7. RoleCalls(r) + Cardinality(Flying(r))
         <= Limit(r) + (IF overlap' THEN Cardinality(Commands) - 1 ELSE 0)
  <2>1. CASE overlap
    BY <2>1 DEF CountInv, Quiet
  <2>2. CASE ~overlap
    BY <1>2, <1>4, <1>5, <2>2 DEF CountInv
  <2> QED
    BY <2>1, <2>2
<1> QED
  BY <1>2, <1>3, <1>7 DEF CountInv, Quiet

\* CountInv holds on when a command acts.
LEMMA CountStep ==
    ASSUME TypeOK, TypeOK', SoloInv, NEW p \in Commands, Executor(p) \/ Command(p),
           NEW r \in Roles, CountInv(r)
    PROVE  CountInv(r)'
<1>0. /\ node[p] \in Nodes /\ node[p].at \in Places /\ node[p].role \in Roles
      /\ \A s \in Roles : Limit(s) \in Nat
  BY NodeFields, OfflineAssumption DEF TypeOK, CommandsOK, Limit, OfflineAssumption
<1>1. Cardinality(Flying(r))' = Cardinality(Flying(r)) + One(Flies(p, r)') - One(Flies(p, r))
  BY CountsMove
<1>2. Cardinality(Validating(r))' =
         Cardinality(Validating(r)) + One(Validates(p, r)') - One(Validates(p, r))
  BY CountsMove
<1>3. /\ Cardinality(Flying(r)) \in Nat /\ Cardinality(Validating(r)) \in Nat
      /\ Cardinality(Flying(r))' \in Nat /\ Cardinality(Validating(r))' \in Nat
      /\ Cardinality(Commands) \in Nat /\ Len(props[r]) \in Nat /\ requests[r] \in Nat
      /\ kills \in Nat /\ overlap \in BOOLEAN
  <2>1. /\ Cardinality(Flying(r)) \in Nat /\ Cardinality(Validating(r)) \in Nat
        /\ Cardinality(Flying(r))' \in Nat /\ Cardinality(Validating(r))' \in Nat
    BY CountsMove
  <2>2. Cardinality(Commands) \in Nat
    BY FS_CardinalityType, OfflineAssumption DEF OfflineAssumption
  <2> QED
    BY <2>1, <2>2 DEF TypeOK, LogsOK, OthersOK
<1>4. /\ RoleCalls(r) \in Nat /\ RoleCalls(node[p].role) \in Nat
      /\ RoleCallsConfirmed(r) \in Nat /\ Limit(r) \in Nat
  BY <1>0, CallCounts
<1>11. CASE Discover(p)
  <2>1. Quiet(p)
    BY <1>11, <1>0 DEF Discover, Quiet, Go, Places, outside, ghosts, TypeOK, CommandsOK
  <2> QED
    BY <2>1, QuietCount
<1>12. CASE Resume(p)
  <2>1. pc[p] = "idle" /\ pc'[p] \in Places \cup {"pending"}
    <3> DEFINE from == IF state.latest # Nothing THEN state.latest ELSE storage
    <3>1. from \in Nodes
      BY <1>12 DEF Resume, TypeOK, StateOK, Checkpoints, Nothing
    <3>2. from.at \in Places
      BY <3>1, NodeFields
    <3> QED
      BY <1>12, <3>2 DEF Resume, GoTo, TypeOK, CommandsOK
  <2>2. UNCHANGED <<calls, props, requests, kills>> /\ (overlap => overlap')
    BY <1>12 DEF Resume, data, outside
  <2>3. pc'[p] \notin {"calling", "answered", "validating"}
    BY <2>1 DEF Places
  <2>4. Quiet(p)
    BY <2>1, <2>2, <2>3 DEF Quiet
  <2> QED
    BY <2>4, QuietCount
<1>13. CASE Raise(p)
  <2>1. Quiet(p)
    BY <1>13, <1>0 DEF Raise, Quiet, Go, Places, outside, ghosts, TypeOK, CommandsOK
  <2> QED
    BY <2>1, QuietCount
<1>14. CASE Save(p)
  <2>1. Quiet(p)
    BY <1>14, <1>0
       DEF Save, Quiet, Go, Places, data, outside, ghosts, TypeOK, CommandsOK
  <2> QED
    BY <2>1, QuietCount
<1>15. CASE StreamEnds(p)
  <2>1. Quiet(p)
    BY <1>15, <1>0
       DEF StreamEnds, Quiet, Go, Places, outside, ghosts, TypeOK, CommandsOK
  <2> QED
    BY <2>1, QuietCount
<1>16. CASE Generate(p)
  <2> DEFINE s == node[p].role
  <2>1. CASE RoleCalls(s) >= Limit(s)
    <3>1. Quiet(p)
      BY <1>16, <2>1 DEF Generate, Quiet, Go, data, outside, TypeOK, CommandsOK
    <3> QED
      BY <3>1, QuietCount
  <2>2. CASE ~(RoleCalls(s) >= Limit(s))
    <3>1. /\ pc[p] = "generate" /\ pc'[p] = "calling" /\ node'[p].role = s
          /\ requests' = [requests EXCEPT ![s] = @ + 1]
          /\ UNCHANGED <<calls, props, overlap, kills>>
      BY <1>16, <2>2, NodeMade DEF Generate, data, outside, TypeOK, CommandsOK
    <3>2. Cardinality(Flying(s)) <= (IF overlap THEN Cardinality(Commands) - 1 ELSE 0)
      <4>1. p \notin Flying(s)
        BY <3>1 DEF Flying, Flies
      <4>2. CASE overlap
        <5>1. Flying(s) \subseteq Commands \ {p}
          BY <4>1 DEF Flying
        <5>2. IsFiniteSet(Commands \ {p}) /\ Cardinality(Commands \ {p}) = Cardinality(Commands) - 1
          BY FS_RemoveElement, OfflineAssumption DEF OfflineAssumption
        <5> QED
          BY <4>2, <5>1, <5>2, FS_Subset
      <4>3. CASE ~overlap
        <5>1. Flying(s) = {}
          BY <3>1, <4>1, <4>3 DEF SoloInv, Active, Flying, Flies
        <5> QED
          BY <4>3, <5>1, FS_EmptySet
      <4> QED
        BY <4>2, <4>3
    <3>3. RoleCalls(s) < Limit(s)
      BY <1>0, <1>4, <2>2
    <3>4. /\ Flies(p, r)' <=> r = s
          /\ ~Flies(p, r) /\ ~Validates(p, r) /\ ~Validates(p, r)'
      BY <3>1 DEF Flies, Validates
    <3>5. /\ Cardinality(Flying(r))' = Cardinality(Flying(r)) + (IF r = s THEN 1 ELSE 0)
          /\ Cardinality(Validating(r))' = Cardinality(Validating(r))
      BY <1>1, <1>2, <1>3, <3>4 DEF One
    <3>6. requests'[r] = requests[r] + (IF r = s THEN 1 ELSE 0)
      BY <3>1 DEF TypeOK, OthersOK
    <3>7. /\ RoleCalls(r)' = RoleCalls(r) /\ RoleCallsConfirmed(r)' = RoleCallsConfirmed(r)
          /\ Len(props'[r]) = Len(props[r]) /\ overlap' = overlap /\ kills' = kills
      BY <3>1 DEF RoleCalls, RoleCallsConfirmed, Confirmed, CallsOf
    <3> HIDE DEF s
    <3>8. CASE r = s
      <4>1. /\ Cardinality(Flying(r))' = Cardinality(Flying(r)) + 1
            /\ requests'[r] = requests[r] + 1
            /\ Cardinality(Validating(r))' = Cardinality(Validating(r))
        BY <3>5, <3>6, <3>8
      <4>2. /\ RoleCalls(r) < Limit(r)
            /\ Cardinality(Flying(r)) <= (IF overlap THEN Cardinality(Commands) - 1 ELSE 0)
        BY <3>2, <3>3, <3>8
      <4>3. RoleCalls(r) + Cardinality(Flying(r)) + 1
               <= Limit(r) + (IF overlap THEN Cardinality(Commands) - 1 ELSE 0)
        BY <1>3, <1>4, <4>2
      <4> QED
        <5>1. RoleCalls(r)' + Cardinality(Flying(r))' = RoleCalls(r) + Cardinality(Flying(r)) + 1
          BY <1>3, <1>4, <3>7, <4>1
        <5>2. Len(props'[r]) + Cardinality(Validating(r))' = Len(props[r]) + Cardinality(Validating(r))
          BY <3>7, <4>1
        <5> QED
          <6> DEFINE known == RoleCalls(r) + Cardinality(Flying(r))
          <6>1. known \in Nat
            BY <1>3, <1>4
          <6>2. known <= requests[r] /\ requests[r] <= known + kills
            BY DEF CountInv
          <6>3. known + 1 <= requests[r] + 1 /\ requests[r] + 1 <= known + 1 + kills
            <7> HIDE DEF known
            <7> QED
              BY <1>3, <6>1, <6>2, Z3
          <6> QED
            BY <3>7, <4>1, <4>3, <5>1, <5>2, <6>3 DEF CountInv
    <3>9. CASE r # s
      BY <1>3, <1>4, <3>5, <3>6, <3>7, <3>9 DEF CountInv
    <3> QED
      BY <3>8, <3>9
  <2> QED
    BY <2>1, <2>2
<1>17. CASE Answered(p)
  <2>1. /\ pc[p] = "calling" /\ pc'[p] = "answered" /\ node'[p] = node[p]
        /\ UNCHANGED <<calls, props, requests, overlap, kills>>
    BY <1>17 DEF Answered, Go, outside, ghosts, TypeOK, CommandsOK
  <2>2. (Flies(p, r)' <=> Flies(p, r)) /\ (Validates(p, r)' <=> Validates(p, r))
    BY <2>1 DEF Flies, Validates
  <2>3. /\ Cardinality(Flying(r))' = Cardinality(Flying(r))
        /\ Cardinality(Validating(r))' = Cardinality(Validating(r))
    BY <1>1, <1>2, <1>3, <2>2 DEF One
  <2>4. UNCHANGED <<RoleCalls(r), RoleCallsConfirmed(r)>>
    BY <2>1 DEF RoleCalls, RoleCallsConfirmed, Confirmed, CallsOf
  <2> QED
    BY <2>1, <2>3, <2>4 DEF CountInv
<1>18. CASE LogCall(p)
  <2> DEFINE k == IF node[p].role = r THEN 1 ELSE 0
  <2> DEFINE c == CallRow(p, "confirmed")
  <2>1. /\ pc[p] = "answered" /\ pc'[p] = "validating" /\ node'[p] = node[p]
        /\ UNCHANGED <<props, requests, overlap, kills>> /\ calls' = Append(calls, c)
    BY <1>18 DEF LogCall, Log, Go, outside, ghosts, TypeOK, CommandsOK
  <2>2. c.role = node[p].role /\ c.st = "confirmed"
    BY DEF CallRow
  <2> HIDE DEF c
  <2>3. /\ RoleCalls(r)' = RoleCalls(r) + k
        /\ RoleCallsConfirmed(r)' = RoleCallsConfirmed(r) + k
    BY <2>1, <2>2, CallsAppended DEF One, k
  <2>4. /\ Flies(p, r) <=> node[p].role = r
        /\ Validates(p, r)' <=> node[p].role = r
        /\ ~Flies(p, r)' /\ ~Validates(p, r)
    BY <2>1 DEF Flies, Validates
  <2>5. /\ Cardinality(Flying(r))' = Cardinality(Flying(r)) - k
        /\ Cardinality(Validating(r))' = Cardinality(Validating(r)) + k
    BY <1>1, <1>2, <1>3, <2>4 DEF One, k
  <2>6. k \in {0, 1}
    BY DEF k
  <2> HIDE DEF k
  <2>7. /\ Len(props'[r]) = Len(props[r]) /\ requests'[r] = requests[r]
        /\ overlap' = overlap /\ kills' = kills
    BY <2>1
  <2>9. RoleCalls(r)' + Cardinality(Flying(r))' = RoleCalls(r) + Cardinality(Flying(r))
    BY <1>3, <1>4, <2>3, <2>5, <2>6
  <2>10. Len(props'[r]) + Cardinality(Validating(r))' = Len(props[r]) + Cardinality(Validating(r)) + k
    BY <1>3, <2>5, <2>6, <2>7
  <2>11. Len(props'[r]) + Cardinality(Validating(r))' <= RoleCallsConfirmed(r)'
    BY SMTT(30), <1>3, <1>4, <2>3, <2>6, <2>10 DEF CountInv
  <2> QED
    BY <1>3, <1>4, <2>3, <2>6, <2>7, <2>9, <2>11 DEF CountInv
<1>19. CASE CallFails(p)
  <2> DEFINE k == IF node[p].role = r THEN 1 ELSE 0
  <2>1. PICK st \in Failures : calls' = Append(calls, CallRow(p, st))
    BY <1>19 DEF CallFails, Log
  <2>2. /\ pc[p] = "calling" /\ pc'[p] = "failing" /\ node'[p] = node[p]
        /\ UNCHANGED <<props, requests, overlap, kills>>
    BY <1>19 DEF CallFails, Go, ghosts, TypeOK, CommandsOK
  <2> DEFINE c == CallRow(p, st)
  <2>3. c.role = node[p].role /\ c.st # "confirmed"
    BY DEF CallRow, Failures
  <2>4. calls' = Append(calls, c)
    BY <2>1
  <2> HIDE DEF c
  <2>5. /\ RoleCalls(r)' = RoleCalls(r) + k
        /\ RoleCallsConfirmed(r)' = RoleCallsConfirmed(r)
    BY <2>3, <2>4, CallsAppended, <1>4 DEF One, k
  <2>6. /\ Flies(p, r) <=> node[p].role = r
        /\ ~Flies(p, r)' /\ ~Validates(p, r)' /\ ~Validates(p, r)
    BY <2>2 DEF Flies, Validates
  <2>7. /\ Cardinality(Flying(r))' = Cardinality(Flying(r)) - k
        /\ Cardinality(Validating(r))' = Cardinality(Validating(r))
    BY <1>1, <1>2, <1>3, <2>6 DEF One, k
  <2>8. k \in {0, 1}
    BY DEF k
  <2> HIDE DEF k
  <2>9. RoleCalls(r)' + Cardinality(Flying(r))' = RoleCalls(r) + Cardinality(Flying(r))
    BY <1>3, <1>4, <2>5, <2>7, <2>8
  <2> QED
    BY <1>3, <1>4, <2>2, <2>5, <2>7, <2>9 DEF CountInv
<1>20. CASE MappingRefused(p)
  <2>1. /\ pc[p] = "validating" /\ pc'[p] = "failing" /\ node'[p] = node[p]
        /\ UNCHANGED <<calls, props, requests, overlap, kills>>
    BY <1>20 DEF MappingRefused, Refused, Go, data, ghosts, TypeOK, CommandsOK
  <2>2. ~Flies(p, r)' /\ ~Flies(p, r) /\ ~Validates(p, r)'
    BY <2>1 DEF Flies, Validates
  <2>3. /\ Cardinality(Flying(r))' = Cardinality(Flying(r))
        /\ Cardinality(Validating(r))' <= Cardinality(Validating(r))
    BY <1>1, <1>2, <1>3, <2>2 DEF One
  <2>4. UNCHANGED <<RoleCalls(r), RoleCallsConfirmed(r)>>
    BY <2>1 DEF RoleCalls, RoleCallsConfirmed, Confirmed, CallsOf
  <2> QED
    BY SMTT(30), <1>3, <1>4, <2>1, <2>3, <2>4 DEF CountInv
<1>21. CASE GraphRefused(p)
  <2>1. /\ pc[p] = "validating" /\ pc'[p] = "failing" /\ node'[p] = node[p]
        /\ UNCHANGED <<calls, props, requests, overlap, kills>>
    BY <1>21 DEF GraphRefused, Refused, Go, data, ghosts, TypeOK, CommandsOK
  <2>2. ~Flies(p, r)' /\ ~Flies(p, r) /\ ~Validates(p, r)'
    BY <2>1 DEF Flies, Validates
  <2>3. /\ Cardinality(Flying(r))' = Cardinality(Flying(r))
        /\ Cardinality(Validating(r))' <= Cardinality(Validating(r))
    BY <1>1, <1>2, <1>3, <2>2 DEF One
  <2>4. UNCHANGED <<RoleCalls(r), RoleCallsConfirmed(r)>>
    BY <2>1 DEF RoleCalls, RoleCallsConfirmed, Confirmed, CallsOf
  <2> QED
    BY SMTT(30), <1>3, <1>4, <2>1, <2>3, <2>4 DEF CountInv
<1>22. CASE Propose(p)
  <2> DEFINE k == IF node[p].role = r THEN 1 ELSE 0
  <2>1. PICK id \in Contents :
          /\ props' = [props EXCEPT ![node[p].role] = Append(@, [round |-> node[p].round, id |-> id])]
          /\ GoTo(p, "proposed", [node[p] EXCEPT !.id = id])
    BY <1>22 DEF Propose
  <2>2. /\ pc[p] = "validating" /\ pc'[p] = "proposed"
        /\ UNCHANGED <<calls, requests, overlap, kills>>
    BY <1>22, <2>1 DEF Propose, GoTo, outside, ghosts, TypeOK, CommandsOK
  <2>3. /\ Validates(p, r) <=> node[p].role = r
        /\ ~Flies(p, r)' /\ ~Flies(p, r) /\ ~Validates(p, r)'
    BY <2>2 DEF Flies, Validates
  <2>4. /\ Cardinality(Flying(r))' = Cardinality(Flying(r))
        /\ Cardinality(Validating(r))' = Cardinality(Validating(r)) - k
    BY <1>1, <1>2, <1>3, <2>3 DEF One, k
  <2>5. Len(props'[r]) = Len(props[r]) + k
    BY <1>0, <2>1 DEF One, k, TypeOK, LogsOK
  <2>6. UNCHANGED <<RoleCalls(r), RoleCallsConfirmed(r)>>
    BY <2>2 DEF RoleCalls, RoleCallsConfirmed, Confirmed, CallsOf
  <2>7. k \in {0, 1}
    BY DEF k
  <2> HIDE DEF k
  <2>8. Len(props'[r]) + Cardinality(Validating(r))' = Len(props[r]) + Cardinality(Validating(r))
    BY <1>3, <2>4, <2>5, <2>7, Z3T(30)
  <2> QED
    BY <1>3, <1>4, <2>2, <2>4, <2>6, <2>8 DEF CountInv
<1>23. CASE Drafted(p)
  <2>1. Quiet(p)
    BY <1>23, <1>0 DEF Drafted, Quiet, GoTo, Places, outside, ghosts, TypeOK, CommandsOK
  <2> QED
    BY <2>1, QuietCount
<1>24. CASE Review(p)
  <2>1. Quiet(p)
    BY <1>24, <1>0
       DEF Review, Quiet, Go, GoTo, Places, data, outside, ghosts, TypeOK,
           CommandsOK
  <2> QED
    BY <2>1, QuietCount
<1>25. CASE Answer(p)
  <2>1. Quiet(p)
    BY <1>25, <1>0 DEF Answer, Quiet, Places, data, outside, TypeOK, CommandsOK
  <2> QED
    BY <2>1, QuietCount
<1>26. CASE Respond(p)
  <2>1. Quiet(p)
    BY <1>26, <1>0, RespondSame DEF Respond, Quiet, outside, ghosts
  <2> QED
    BY <2>1, QuietCount
<1>27. CASE PublishMapping(p)
  <2>1. Quiet(p)
    BY <1>27, PublishStep DEF PublishMapping, Quiet
  <2> QED
    BY <2>1, QuietCount
<1>28. CASE PublishProfile(p)
  <2>1. Quiet(p)
    BY <1>28, PublishStep DEF PublishProfile, Quiet
  <2> QED
    BY <2>1, QuietCount
<1>29. CASE Decided(p)
  <2>1. Quiet(p)
    BY <1>29, <1>0 DEF Decided, Quiet, GoTo, Places, outside, ghosts, TypeOK, CommandsOK
  <2> QED
    BY <2>1, QuietCount
<1>30. CASE Confirm(p)
  <2>1. Quiet(p)
    BY <1>30, <1>0, ConfirmSame DEF Confirm, Quiet, data, outside, ghosts
  <2> QED
    BY <2>1, QuietCount
<1>31. CASE PublishGraph(p)
  <2>1. Quiet(p)
    BY <1>31, PublishStep DEF PublishGraph, Quiet
  <2> QED
    BY <2>1, QuietCount
<1>32. CASE PublishProvenance(p)
  <2>1. Quiet(p)
    BY <1>32, PublishStep DEF PublishProvenance, Quiet
  <2> QED
    BY <2>1, QuietCount
<1>33. CASE Approved(p)
  <2>1. Quiet(p)
    BY <1>33, <1>0
       DEF Approved, Quiet, GoTo, Places, outside, ghosts, TypeOK, CommandsOK
  <2> QED
    BY <2>1, QuietCount
<1>34. CASE Scan(p)
  <2>1. Quiet(p)
    BY <1>34, <1>0
       DEF Scan, Quiet, Go, Places, data, outside, ghosts, TypeOK, CommandsOK
  <2> QED
    BY <2>1, QuietCount
<1>35. CASE VerifyAll(p)
  <2>1. Quiet(p)
    BY <1>35, <1>0
       DEF VerifyAll, Quiet, Go, Places, data, outside, ghosts, TypeOK, CommandsOK
  <2> QED
    BY <2>1, QuietCount
<1>36. CASE PublishVerification(p)
  <2>1. Quiet(p)
    BY <1>36, PublishStep DEF PublishVerification, Quiet
  <2> QED
    BY <2>1, QuietCount
<1>37. CASE WriteCompletion(p)
  <2>1. Quiet(p)
    BY <1>37, <1>0
       DEF WriteCompletion, Quiet, Go, Places, data, outside, ghosts, TypeOK,
           CommandsOK
  <2> QED
    BY <2>1, QuietCount
<1> QED
  BY <1>11, <1>12, <1>13, <1>14, <1>15, <1>16, <1>17, <1>18, <1>19, <1>20, <1>21,
     <1>22, <1>23, <1>24, <1>25, <1>26, <1>27, <1>28, <1>29, <1>30, <1>31, <1>32,
     <1>33, <1>34, <1>35, <1>36, <1>37
     DEF Executor, Command

\* A kill may lose the one request of its command.
LEMMA KillCount ==
    ASSUME TypeOK, TypeOK', NEW p \in Commands, Kill, Go(p, "ended"),
           NEW r \in Roles, CountInv(r)
    PROVE  CountInv(r)'
<1>1. /\ \A q \in Commands \ {p} : pc'[q] = pc[q] /\ node'[q] = node[q]
      /\ pc'[p] = "ended"
      /\ UNCHANGED <<calls, props, requests, overlap>> /\ kills' = kills + 1
  BY DEF Kill, Go, data, ghosts, TypeOK, CommandsOK
<1>2. /\ Flying(r) \in SUBSET Commands /\ Flying(r)' \in SUBSET Commands
      /\ Validating(r) \in SUBSET Commands /\ Validating(r)' \in SUBSET Commands
      /\ p \notin Flying(r)' /\ p \notin Validating(r)'
  BY <1>1 DEF Flying, Validating, Flies, Validates
<1>3. Flying(r) \ {p} = Flying(r)' \ {p} /\ Validating(r) \ {p} = Validating(r)' \ {p}
  BY <1>1 DEF Flying, Validating, Flies, Validates
<1>4. /\ Cardinality(Flying(r)) \in Nat /\ Cardinality(Flying(r)') \in Nat
      /\ Cardinality(Flying(r)') \in {Cardinality(Flying(r)), Cardinality(Flying(r)) - 1}
  <2>1. /\ Cardinality(Flying(r)) \in Nat /\ Cardinality(Flying(r)') \in Nat
        /\ Cardinality(Flying(r)') =
              Cardinality(Flying(r)) + One(p \in Flying(r)') - One(p \in Flying(r))
    BY <1>2, <1>3, OneMoves
  <2> QED
    BY <1>2, <2>1 DEF One
<1>5. /\ Cardinality(Validating(r)) \in Nat /\ Cardinality(Validating(r)') \in Nat
      /\ Cardinality(Validating(r)') <= Cardinality(Validating(r))
  <2>1. /\ Cardinality(Validating(r)) \in Nat /\ Cardinality(Validating(r)') \in Nat
        /\ Cardinality(Validating(r)') =
              Cardinality(Validating(r)) + One(p \in Validating(r)') - One(p \in Validating(r))
    BY <1>2, <1>3, OneMoves
  <2> QED
    BY <1>2, <2>1 DEF One
<1>6. RoleCalls(r)' = RoleCalls(r) /\ RoleCallsConfirmed(r)' = RoleCallsConfirmed(r)
  BY <1>1 DEF RoleCalls, RoleCallsConfirmed, Confirmed, CallsOf
<1>7. /\ RoleCalls(r) \in Nat /\ RoleCallsConfirmed(r) \in Nat /\ Len(props[r]) \in Nat
      /\ requests[r] \in Nat /\ kills \in Nat /\ Limit(r) \in Nat
  <2>1. RoleCalls(r) \in Nat /\ RoleCallsConfirmed(r) \in Nat
    BY CallCounts
  <2>2. Len(props[r]) \in Nat /\ requests[r] \in Nat /\ kills \in Nat
    BY DEF TypeOK, LogsOK, OthersOK
  <2>3. Limit(r) \in Nat
    BY OfflineAssumption DEF Limit, OfflineAssumption
  <2> QED
    BY <2>1, <2>2, <2>3
<1>12. Cardinality(Commands) \in Nat
  BY OfflineAssumption, FS_CardinalityType DEF OfflineAssumption
<1>8. Len(props'[r]) + Cardinality(Validating(r)') <= RoleCallsConfirmed(r)'
  <2>1. Len(props'[r]) = Len(props[r])
    BY <1>1
  <2>2. Len(props[r]) + Cardinality(Validating(r)) <= RoleCallsConfirmed(r)
    BY DEF CountInv
  <2> QED
    BY <1>5, <1>6, <1>7, <2>1, <2>2, Z3
<1>9. RoleCalls(r)' + Cardinality(Flying(r)') <= requests'[r]
  <2>1. RoleCalls(r) + Cardinality(Flying(r)) <= requests[r] /\ requests'[r] = requests[r]
    BY <1>1 DEF CountInv
  <2> QED
    BY <1>4, <1>6, <1>7, <2>1, Z3
<1>10. requests'[r] <= RoleCalls(r)' + Cardinality(Flying(r)') + kills'
  <2>1. requests[r] <= RoleCalls(r) + Cardinality(Flying(r)) + kills /\ requests'[r] = requests[r]
    BY <1>1 DEF CountInv
  <2> QED
    BY <1>1, <1>4, <1>6, <1>7, <2>1, Z3T(30)
<1>11. RoleCalls(r)' + Cardinality(Flying(r)')
          <= Limit(r) + (IF overlap' THEN Cardinality(Commands) - 1 ELSE 0)
  <2> DEFINE slack == IF overlap THEN Cardinality(Commands) - 1 ELSE 0
  <2>1. RoleCalls(r) + Cardinality(Flying(r)) <= Limit(r) + slack /\ slack \in Int
    BY <1>12 DEF CountInv
  <2>2. (IF overlap' THEN Cardinality(Commands) - 1 ELSE 0) = slack
    BY <1>1
  <2> HIDE DEF slack
  <2>3. RoleCalls(r)' + Cardinality(Flying(r)') <= Limit(r) + slack
    BY <1>4, <1>6, <1>7, <2>1, Z3
  <2> QED
    BY <2>2, <2>3
<1> QED
  BY <1>8, <1>9, <1>10, <1>11 DEF CountInv

\* CountInv is inductive.
LEMMA NextCountInv ==
    ASSUME TypeOK, TypeOK', SoloInv, [Next]_vars, NEW r \in Roles, CountInv(r)
    PROVE  CountInv(r)'
<1>1. ASSUME UNCHANGED <<calls, props, requests, overlap, kills, pc, node>> PROVE CountInv(r)'
  BY <1>1
     DEF CountInv, RoleCalls, RoleCallsConfirmed, Confirmed, CallsOf, Flying,
         Validating, Flies, Validates
<1>2. ASSUME UNCHANGED <<calls, props, requests, overlap, pc, node>>, kills' = kills + 1
      PROVE  CountInv(r)'
  <2>1. /\ RoleCalls(r)' = RoleCalls(r) /\ RoleCallsConfirmed(r)' = RoleCallsConfirmed(r)
        /\ Flying(r)' = Flying(r) /\ Validating(r)' = Validating(r)
    BY <1>2
       DEF RoleCalls, RoleCallsConfirmed, Confirmed, CallsOf, Flying, Validating,
           Flies, Validates
  <2>2. /\ RoleCalls(r) \in Nat /\ Cardinality(Flying(r)) \in Nat
        /\ requests[r] \in Nat /\ kills \in Nat
    <3>1. IsFiniteSet(Flying(r))
      BY FS_Subset, OfflineAssumption DEF Flying, OfflineAssumption
    <3> QED
      BY <3>1, CallCounts, FS_CardinalityType DEF TypeOK, OthersOK
  <2>3. requests[r] <= RoleCalls(r) + Cardinality(Flying(r)) + kills'
    <3>1. requests[r] <= RoleCalls(r) + Cardinality(Flying(r)) + kills
      BY DEF CountInv
    <3> QED
      BY <1>2, <2>2, <3>1, Z3
  <2> QED
    BY <1>2, <2>1, <2>3 DEF CountInv
<1>3. CASE \E p \in Commands : Executor(p) \/ Command(p)
  BY <1>3, CountStep
<1>4. CASE \E e \in Exports : ExportStart(e) \/ ExportWrite(e)
  BY <1>1, <1>4 DEF ExportStart, ExportWrite, data, command, ghosts
<1>5. CASE Kill
  <2>1. CASE \E p \in Commands : Go(p, "ended")
    BY <1>5, <2>1, KillCount
  <2>2. CASE UNCHANGED command
    BY <1>2, <1>5, <2>2 DEF Kill, data, command, ghosts
  <2> QED
    BY <1>5, <2>1, <2>2 DEF Kill
<1>6. CASE UNCHANGED vars
  BY <1>1, <1>6 DEF vars, data, command, outside, ghosts
<1> QED
  BY <1>3, <1>4, <1>5, <1>6 DEF Next

\* CountInv holds initially.
LEMMA InitCountInv == ASSUME Init, NEW r \in Roles PROVE CountInv(r)
<1>1. /\ CallsOf(r) = {} /\ Confirmed(r) = {} /\ Flying(r) = {} /\ Validating(r) = {}
      /\ Len(props[r]) = 0 /\ requests[r] = 0 /\ kills = 0 /\ overlap = FALSE
  BY DEF Init, CallsOf, Confirmed, Flying, Validating, Flies, Validates
<1>2. Limit(r) \in Nat /\ Cardinality({}) = 0
  BY FS_EmptySet, OfflineAssumption DEF Limit, OfflineAssumption
<1> QED
  BY <1>1, <1>2 DEF CountInv, RoleCalls, RoleCallsConfirmed

-----------------------------------------------------------------------------
(* The order of questions. *)

OrderedNow == Ordered(storage, state.latest, events, answers)
SteadyNow(p) == Steady(pc[p], node[p], dec[p], storage, state.latest, events, answers)

\* Where a command neither waits for a human, nor acts on one, nor calls.
Calm ==
    {"generate", "saving", "review", "confirm", "publish_graph", "publish_prov", "confirmed",
     "end", "scan", "verify", "publish_verification", "complete", "failing"}

\* Settled is about a node's place, role and round.
LEMMA SettledLike ==
    ASSUME NEW x, NEW y, NEW ev, NEW an, Settled(x, ev, an),
           y.at = x.at, y.role = x.role, y.round = x.round
    PROVE  Settled(y, ev, an)
  BY DEF Settled, Newest

\* A command that did not wait goes on to a settled node.
LEMMA CalmSteady ==
    ASSUME NEW at, NEW n, NEW d, NEW newest, NEW recorded, NEW ev, NEW an,
           Steady(at, n, d, newest, recorded, ev, an),
           at \notin {"pending", "asking", "respond"},
           NEW to \in Calm, NEW m, NEW c, Settled(m, ev, an) \/ m = n
    PROVE  Steady(to, m, c, newest, recorded, ev, an)
  BY DEF Steady, Calm

\* A command that did not wait goes on to make a call.
LEMMA CallSteady ==
    ASSUME NEW at, NEW n, NEW d, NEW newest, NEW recorded, NEW ev, NEW an,
           Steady(at, n, d, newest, recorded, ev, an),
           at \notin {"pending", "asking", "respond"},
           NEW to \in {"calling", "answered", "validating", "proposed"}, NEW m, NEW c,
           Settled(m, ev, an) \/ m = n, Newest(m, an)
    PROVE  Steady(to, m, c, newest, recorded, ev, an)
  BY DEF Steady

\* The order of questions is kept by a command that is alone.
LEMMA OrderStep ==
    ASSUME TypeOK, TypeOK', StartInv, LogInv, NEW p \in Commands, CommandInv(p),
           Executor(p) \/ Command(p), Numbered, Numbered',
           OrderedNow, Active(p) => SteadyNow(p)
    PROVE  OrderedNow' /\ (Active(p)' => SteadyNow(p)')
<1>0. /\ node[p] \in Nodes /\ node'[p] \in Nodes
      /\ node[p].at \in Places /\ node[p].role \in Roles
      /\ node[p].round \in Nat /\ node[p].id \in Ids
  BY NodeFields DEF TypeOK, CommandsOK
<1>1. pc[p] \notin {"idle", "ended"} => SteadyNow(p)
  BY DEF Active
<1>2. OrderedNow
  OBVIOUS
<1>11. CASE Discover(p)
  <2>1. /\ node'[p] = StartNode /\ pc'[p] = "generate" /\ state'.latest = Nothing
        /\ storage' \in {Nothing, StartNode} /\ events' = events /\ answers' = answers
        /\ \A r \in Roles : events[r] = <<>>
    BY <1>11
       DEF Discover, StartInv, CommandInv, Go, Update, outside, ghosts, TypeOK,
           CommandsOK, StateOK
  <2>2. \A r : r \in Roles => ~ApprovedLast(events, r)
    BY <2>1 DEF ApprovedLast
  <2>3. StartNode.at = "generate" /\ StartNode.role = "mapping"
    BY NodeMade DEF StartNode
  <2>4. Settled(StartNode, events, answers)
    BY <2>1, <2>2, <2>3 DEF Settled, Roles
  <2>5. Ordered(storage', Nothing, events, answers)
    BY <2>1, <2>2, <2>4 DEF Ordered
  <2>6. Steady("generate", StartNode, dec'[p], storage', Nothing, events, answers)
    BY <2>4 DEF Steady
  <2> QED
    BY <2>1, <2>5, <2>6 DEF OrderedNow, SteadyNow
<1>12. CASE Resume(p)
  <2> DEFINE from == IF state.latest # Nothing THEN state.latest ELSE storage
  <2>1. /\ node'[p] = from /\ pc'[p] = (IF from.at = "ask" THEN "pending" ELSE from.at)
        /\ storage' \in {storage, from} /\ state'.latest = state.latest /\ from # Nothing
        /\ events' = events /\ answers' = answers
    BY <1>12 DEF Resume, GoTo, data, outside, TypeOK, CommandsOK, StateOK
  <2>2. from.at \in Places
    BY <2>1, NodeFields DEF TypeOK, StateOK, Checkpoints
  <2>3. Settled(from, events, answers)
    BY <1>2, <2>1 DEF OrderedNow, Ordered
  <2>4. Ordered(storage', state.latest, events, answers)
    BY <1>2, <2>1, <2>3 DEF OrderedNow, Ordered
  <2>5. /\ state.latest # Nothing /\ Open(state.latest, events) =>
              from.at = "ask" /\ storage' = from
        /\ storage' = from \/ (state.latest # Nothing /\ from = state.latest)
    BY <1>2, <2>1 DEF OrderedNow, Ordered, Open
  <2>6. Open(from, events) => storage' = from
    BY <2>1, <2>5
  <2> HIDE DEF from
  <2>7. Steady(pc'[p], from, dec'[p], storage', state.latest, events, answers)
    BY <2>1, <2>2, <2>3, <2>5, <2>6 DEF Steady, Places, Open
  <2> QED
    BY <2>1, <2>4, <2>7 DEF OrderedNow, SteadyNow
<1>13. CASE Raise(p)
  <2>1. pc'[p] = "ended" /\ storage' = storage /\ events' = events /\ answers' = answers
    BY <1>13 DEF Raise, Go, outside, ghosts, TypeOK, CommandsOK, StateOK
  <2>2. state'.latest \in {storage, state.latest}
    BY <1>13 DEF Raise, Go, outside, ghosts, TypeOK, CommandsOK, StateOK
  <2>3. Ordered(storage', state'.latest, events, answers)
    BY <1>2, <2>1, <2>2 DEF OrderedNow, Ordered
  <2> QED
    BY <2>1, <2>3 DEF OrderedNow, Active
<1>14. CASE Save(p)
  <2>1. /\ pc[p] = "saving" /\ storage' = node[p] /\ node'[p] = node[p] /\ dec'[p] = dec[p]
        /\ state'.latest = state.latest /\ events' = events /\ answers' = answers
        /\ pc'[p] = (IF node[p].at \in {"ask", "end"} THEN "pending" ELSE node[p].at)
    BY <1>14 DEF Save, Go, data, outside, ghosts, TypeOK, CommandsOK, StateOK
  <2>2. SteadyNow(p)
    BY <1>1, <2>1
  <2>3. /\ Settled(node[p], events, answers)
        /\ ~(state.latest # Nothing /\ Open(state.latest, events))
    BY <2>1, <2>2 DEF SteadyNow, Steady
  <2>4. Ordered(node[p], state.latest, events, answers)
    BY <1>2, <2>3 DEF OrderedNow, Ordered
  <2>5. Steady(pc'[p], node[p], dec[p], node[p], state.latest, events, answers)
    BY <1>0, <2>1, <2>3 DEF Steady, Places
  <2> QED
    BY <2>1, <2>4, <2>5 DEF OrderedNow, SteadyNow
<1>15. CASE StreamEnds(p)
  <2>1. /\ pc[p] = "pending" /\ storage' = storage /\ events' = events /\ answers' = answers
        /\ node'[p] = node[p] /\ dec'[p] = dec[p]
    BY <1>15 DEF StreamEnds, Go, outside, ghosts, TypeOK, CommandsOK, StateOK
  <2>2. SteadyNow(p) /\ node[p].at \in {"ask", "end"}
    BY <1>1, <2>1 DEF CommandInv, PlaceOf
  <2>3. CASE storage = Nothing
    <3>1. state' = state /\ pc'[p] = "ended"
      BY <1>15, <2>3 DEF StreamEnds, Go, outside, ghosts, TypeOK, CommandsOK, StateOK
    <3> QED
      BY <1>2, <2>1, <3>1 DEF OrderedNow, Active
  <2>4. CASE storage # Nothing
    <3>1. /\ state'.latest = storage
          /\ pc'[p] = (IF node[p].at = "ask" THEN "asking"
                       ELSE IF dec[p] = "approve" THEN "scan" ELSE "ended")
      BY <1>15, <2>4 DEF StreamEnds, Go, outside, ghosts, TypeOK, CommandsOK, StateOK
    <3>2. Ordered(storage, storage, events, answers)
      BY <1>2 DEF OrderedNow, Ordered
    <3>3. /\ Settled(node[p], events, answers)
          /\ Open(node[p], events) => storage = node[p]
          /\ node[p].at = "end" => storage = node[p]
      BY <2>1, <2>2 DEF SteadyNow, Steady
    <3>4. pc'[p] # "ended" => Steady(pc'[p], node[p], dec[p], storage, storage, events, answers)
      BY <2>2, <3>1, <3>3 DEF Steady, Open
    <3> QED
      BY <2>1, <3>1, <3>2, <3>4 DEF OrderedNow, SteadyNow, Active
  <2> QED
    BY <2>3, <2>4
<1>16. CASE Generate(p)
  <2> DEFINE r == node[p].role
  <2>1. SteadyNow(p) /\ pc[p] = "generate"
    BY <1>1, <1>16 DEF Generate
  <2>2. /\ storage' = storage /\ state'.latest = state.latest
        /\ events' = events /\ answers' = answers
    BY <1>16 DEF Generate, data
  <2>3. CASE RoleCalls(r) >= Limit(r)
    <3>1. pc'[p] = "failing" /\ node'[p] = node[p]
      BY <1>16, <2>3 DEF Generate, Go, data, outside, TypeOK, CommandsOK, StateOK
    <3> QED
      BY <1>2, <2>1, <2>2, <3>1, CalmSteady DEF Calm, SteadyNow, OrderedNow
  <2>4. CASE ~(RoleCalls(r) >= Limit(r))
    <3> DEFINE m == Node("generate", r, Len(props[r]) + 1, Nothing)
    <3>1. pc'[p] = "calling" /\ node'[p] = m
      BY <1>16, <2>4 DEF Generate, Go, data, outside, TypeOK, CommandsOK, StateOK
    <3>2. m.at = "generate" /\ m.role = r /\ m.round = Len(props[r]) + 1
      BY NodeMade
    <3> HIDE DEF m
    <3>3. node[p].at = "generate"
      BY <2>1 DEF CommandInv, PlaceOf
    <3>4. Settled(m, events, answers)
      BY <2>1, <3>2, <3>3 DEF SteadyNow, Steady, Settled
    <3>5. Newest(m, answers)
      <4> SUFFICES ASSUME NEW a \in answers, a[1] = r PROVE a[2] <= Len(props[r]) + 1
        BY <3>2 DEF Newest
      <4>1. a[2] <= Len(props[r]) /\ a[2] \in Nat /\ Len(props[r]) \in Nat
        BY <1>0 DEF LogInv, TypeOK, LogsOK, OthersOK
      <4> QED
        BY <4>1
    <3> QED
      BY <1>2, <2>1, <2>2, <3>1, <3>4, <3>5, CallSteady DEF SteadyNow, OrderedNow
  <2> QED
    BY <2>3, <2>4
<1>17. CASE Answered(p)
  <2>1. /\ pc[p] = "calling" /\ pc'[p] = "answered" /\ node'[p] = node[p]
        /\ storage' = storage /\ state'.latest = state.latest
        /\ events' = events /\ answers' = answers
    BY <1>17 DEF Answered, Go, outside, ghosts, TypeOK, CommandsOK, StateOK
  <2>2. SteadyNow(p)
    BY <1>1, <2>1
  <2>3. Newest(node[p], answers)
    BY <2>1, <2>2 DEF SteadyNow, Steady
  <2> QED
    BY <1>2, <2>1, <2>2, <2>3, CallSteady DEF SteadyNow, OrderedNow
<1>18. CASE LogCall(p)
  <2>1. /\ pc[p] = "answered" /\ pc'[p] = "validating" /\ node'[p] = node[p]
        /\ storage' = storage /\ state'.latest = state.latest
        /\ events' = events /\ answers' = answers
    BY <1>18 DEF LogCall, Go, outside, ghosts, TypeOK, CommandsOK, StateOK
  <2>2. SteadyNow(p)
    BY <1>1, <2>1
  <2>3. Newest(node[p], answers)
    BY <2>1, <2>2 DEF SteadyNow, Steady
  <2> QED
    BY <1>2, <2>1, <2>2, <2>3, CallSteady DEF SteadyNow, OrderedNow
<1>19. CASE CallFails(p)
  <2>1. /\ pc[p] = "calling" /\ pc'[p] = "failing" /\ node'[p] = node[p]
        /\ storage' = storage /\ state'.latest = state.latest
        /\ events' = events /\ answers' = answers
    BY <1>19 DEF CallFails, Fault, Go, ghosts, TypeOK, CommandsOK, StateOK
  <2>2. SteadyNow(p)
    BY <1>1, <2>1
  <2> QED
    BY <1>2, <2>1, <2>2, CalmSteady DEF Calm, SteadyNow, OrderedNow
<1>20. CASE MappingRefused(p)
  <2>1. /\ pc[p] = "validating" /\ pc'[p] = "failing" /\ node'[p] = node[p]
        /\ storage' = storage /\ state'.latest = state.latest
        /\ events' = events /\ answers' = answers
    BY <1>20
       DEF MappingRefused, Refused, Fault, Go, data, ghosts, TypeOK, CommandsOK,
           StateOK
  <2>2. SteadyNow(p)
    BY <1>1, <2>1
  <2> QED
    BY <1>2, <2>1, <2>2, CalmSteady DEF Calm, SteadyNow, OrderedNow
<1>21. CASE GraphRefused(p)
  <2>1. /\ pc[p] = "validating" /\ pc'[p] = "failing" /\ node'[p] = node[p]
        /\ storage' = storage /\ state'.latest = state.latest
        /\ events' = events /\ answers' = answers
    BY <1>21
       DEF GraphRefused, Refused, Fault, Go, data, ghosts, TypeOK, CommandsOK,
           StateOK
  <2>2. SteadyNow(p)
    BY <1>1, <2>1
  <2> QED
    BY <1>2, <2>1, <2>2, CalmSteady DEF Calm, SteadyNow, OrderedNow
<1>22. CASE Propose(p)
  <2>1. PICK id \in Contents : GoTo(p, "proposed", [node[p] EXCEPT !.id = id])
    BY <1>22 DEF Propose
  <2> DEFINE m == [node[p] EXCEPT !.id = id]
  <2>2. /\ pc[p] = "validating" /\ pc'[p] = "proposed" /\ node'[p] = m
        /\ storage' = storage /\ state'.latest = state.latest
        /\ events' = events /\ answers' = answers
    BY <1>22, <2>1 DEF Propose, GoTo, outside, ghosts, TypeOK, CommandsOK, StateOK
  <2>3. m.at = node[p].at /\ m.role = node[p].role /\ m.round = node[p].round
    BY <1>0, NodeNamed DEF Ids
  <2> HIDE DEF m
  <2>4. SteadyNow(p)
    BY <1>1, <2>2
  <2>5. Settled(m, events, answers) /\ Newest(m, answers)
    BY <2>2, <2>3, <2>4, SettledLike DEF SteadyNow, Steady, Newest
  <2> QED
    BY <1>2, <2>2, <2>4, <2>5, CallSteady DEF SteadyNow, OrderedNow
<1>23. CASE Drafted(p)
  <2> DEFINE m == [node[p] EXCEPT !.at = "review"]
  <2>1. /\ pc[p] = "proposed" /\ pc'[p] = "saving" /\ node'[p] = m
        /\ storage' = storage /\ state'.latest = state.latest
        /\ events' = events /\ answers' = answers
    BY <1>23 DEF Drafted, GoTo, outside, ghosts, TypeOK, CommandsOK, StateOK
  <2>2. m.at = "review" /\ m.role = node[p].role /\ m.round = node[p].round
    BY <1>0, NodeMoved DEF Places
  <2> HIDE DEF m
  <2>3. SteadyNow(p)
    BY <1>1, <2>1
  <2>4. node[p].at = "generate"
    BY <2>1 DEF CommandInv, PlaceOf
  <2>5. Settled(m, events, answers)
    BY <2>1, <2>2, <2>3, <2>4 DEF SteadyNow, Steady, Settled, Newest
  <2> QED
    BY <1>2, <2>1, <2>3, <2>5, CalmSteady DEF Calm, SteadyNow, OrderedNow
<1>24. CASE Review(p)
  <2>1. SteadyNow(p) /\ pc[p] = "review"
    BY <1>1, <1>24 DEF Review
  <2>2. /\ storage' = storage /\ state'.latest = state.latest
        /\ events' = events /\ answers' = answers
    BY <1>24 DEF Review, data, ghosts
  <2>3. CASE Go(p, "failing")
    <3>1. pc'[p] = "failing" /\ node'[p] = node[p]
      BY <2>3 DEF Go, GoTo, Update, data, outside, ghosts, TypeOK, CommandsOK, StateOK
    <3> QED
      BY <1>2, <2>1, <2>2, <3>1, CalmSteady DEF Calm, SteadyNow, OrderedNow
  <2>4. CASE GoTo(p, "saving", [node[p] EXCEPT !.at = "ask"])
    <3> DEFINE m == [node[p] EXCEPT !.at = "ask"]
    <3>1. pc'[p] = "saving" /\ node'[p] = m
      BY <2>4 DEF Go, GoTo, Update, data, outside, ghosts, TypeOK, CommandsOK, StateOK
    <3>2. m.at = "ask" /\ m.role = node[p].role /\ m.round = node[p].round
      BY <1>0, NodeMoved DEF Places
    <3> HIDE DEF m
    <3>3. node[p].at = "review"
      BY <2>1 DEF CommandInv, PlaceOf
    <3>4. Settled(m, events, answers)
      BY <2>1, <3>2, <3>3 DEF SteadyNow, Steady, Settled, Newest
    <3> QED
      BY <1>2, <2>1, <2>2, <3>1, <3>4, CalmSteady DEF Calm, SteadyNow, OrderedNow
  <2> QED
    BY <1>24, <2>3, <2>4 DEF Review
<1>25. CASE Answer(p)
  <2> DEFINE n == node[p]  r == node[p].role
  <2>1. PICK d \in Decisions :
           /\ answers' = answers \cup {<<n.role, n.round, n.id, d>>}
           /\ pc' = [pc EXCEPT ![p] = "respond"]
    BY <1>25 DEF Answer
  <2>2. /\ pc[p] = "asking" /\ pc'[p] = "respond" /\ node'[p] = n
        /\ storage' = storage /\ state' = state /\ events' = events
    BY <1>25, <2>1 DEF Answer, data, outside, TypeOK, CommandsOK, StateOK
  <2>3. SteadyNow(p) /\ n.at = "ask" /\ r \in Roles /\ n.round \in Nat /\ Len(events[r]) \in Nat
    BY <1>0, <1>1, <2>2 DEF CommandInv, PlaceOf, TypeOK, LogsOK
  <2>4. ASSUME NEW x \in Nodes, x = storage \/ x = state.latest \/ x = n,
               x.at # "generate", x.role = r
        PROVE  n.round <= x.round
    <3>1. Newest(x, answers)
      BY <1>0, <1>2, <2>3, <2>4, NodeIsSomething
         DEF OrderedNow, Ordered, SteadyNow, Steady, Settled
    <3>2. CASE Open(n, events)
      <4>1. x = n
        BY <2>2, <2>3, <2>4, <3>2, NodeIsSomething DEF SteadyNow, Steady
      <4> QED
        BY <2>3, <4>1
    <3>3. CASE ~Open(n, events)
      <4>1. n.round <= Len(events[r])
        BY <2>3, <3>3 DEF Open
      <4>2. CASE Len(events[r]) = 0
        BY <2>3, <2>4, <4>1, <4>2, NodeFields
      <4>3. CASE Len(events[r]) # 0
        <5> DEFINE e == events[r][Len(events[r])]
        <5>1. Len(events[r]) \in 1 .. Len(events[r])
          BY <2>3, <4>3
        <5>2. e.round = Len(events[r]) /\ <<r, e.round, e.id, e.dec>> \in answers
          BY <2>3, <5>1 DEF LogInv, Numbered
        <5> HIDE DEF e
        <5>3. Len(events[r]) <= x.round
          BY <2>4, <3>1, <5>2 DEF Newest
        <5> QED
          BY <2>3, <2>4, <4>1, <5>3, NodeFields
      <4> QED
        BY <4>2, <4>3
    <3> QED
      BY <3>2, <3>3
  <2>5. ASSUME NEW x \in Nodes, x = storage \/ x = state.latest \/ x = n,
               Settled(x, events, answers)
        PROVE  Settled(x, events, answers')
    BY <2>1, <2>4, <2>5 DEF Settled, Newest
  <2>6. ASSUME NEW s \in Roles, ApprovedLast(events, s), NEW a \in answers', a[1] = s
        PROVE  a[2] <= Len(events[s])
    <3>1. CASE a \in answers
      BY <1>2, <2>6, <3>1 DEF OrderedNow, Ordered
    <3>2. CASE a \notin answers
      <4>1. s = r /\ a[2] = n.round
        BY <2>1, <2>6, <3>2
      <4> QED
        BY <2>3, <2>6, <4>1 DEF SteadyNow, Steady, Settled
    <3> QED
      BY <3>1, <3>2
  <2>7. storage \in Nodes \cup {Nothing} /\ state.latest \in Nodes \cup {Nothing}
    BY DEF TypeOK, StateOK, Checkpoints
  <2>8. Ordered(storage, state.latest, events, answers')
    BY <1>2, <2>5, <2>6, <2>7 DEF OrderedNow, Ordered
  <2>9. Settled(n, events, answers')
    BY <1>0, <2>3, <2>5 DEF SteadyNow, Steady
  <2>10. Steady("respond", n, dec'[p], storage, state.latest, events, answers')
    BY <2>2, <2>3, <2>9 DEF SteadyNow, Steady
  <2> QED
    BY <2>2, <2>8, <2>10 DEF OrderedNow, SteadyNow
<1>26. CASE Respond(p)
  <2> DEFINE n == node[p]  r == node[p].role  k == Len(events[r]) + 1
  <2>1. /\ pc[p] = "respond" /\ storage' = storage /\ state' = state /\ answers' = answers
        /\ node'[p] = n /\ dec'[p] = dec[p]
        /\ pc'[p] \in {"failing", "decided", "publish_mapping"}
    BY <1>26, <1>0, RespondSame DEF Respond, ghosts
  <2>2. /\ r \in Roles /\ Len(events[r]) \in Nat /\ Len(events'[r]) = k
        /\ events'[r][k] = Event(n, dec[p])
        /\ \A s \in Roles \ {r} : events'[s] = events[s]
    BY <1>26, EventAppended
  <2>3. SteadyNow(p) /\ n.at = "ask"
    BY <1>1, <2>1 DEF CommandInv, PlaceOf
  <2>4. n.round = k
    <3>1. k \in 1 .. Len(events'[r])
      BY <2>2
    <3>2. events'[r][k].round = k
      BY <2>2, <3>1 DEF Numbered
    <3> QED
      BY <2>2, <3>2 DEF Event
  <2>5. Open(n, events)
    BY <2>2, <2>3, <2>4 DEF Open
  <2>6. storage = n /\ state.latest = n
    BY <2>1, <2>3, <2>5 DEF SteadyNow, Steady
  <2>7. events'[r] # <<>> /\ LastDecision(events', r) = dec[p]
    BY <2>2 DEF LastDecision, Event
  <2>8. Newest(n, answers) /\ (events["causal"] # <<>> => r = "causal")
    BY <2>3 DEF SteadyNow, Steady, Settled
  <2>9. events'["causal"] # <<>> => r = "causal"
    BY <2>2, <2>8 DEF Roles
  <2>10. n.round <= Len(events'[r])
    BY <2>2, <2>4
  <2>11. Settled(n, events', answers)
    BY <2>3, <2>8, <2>9, <2>10 DEF Settled
  <2>12. ~Open(n, events')
    BY <2>2, <2>4 DEF Open
  <2>13. ASSUME NEW s \in Roles, ApprovedLast(events', s), NEW a \in answers, a[1] = s
         PROVE  a[2] <= Len(events'[s])
    <3>1. CASE s = r
      BY <2>2, <2>4, <2>8, <2>13, <3>1 DEF Newest
    <3>2. CASE s # r
      <4>1. events'[s] = events[s] /\ ApprovedLast(events, s)
        BY <2>2, <2>13, <3>2 DEF ApprovedLast, LastDecision
      <4> QED
        BY <1>2, <2>13, <4>1 DEF OrderedNow, Ordered
    <3> QED
      BY <3>1, <3>2
  <2>14. Ordered(n, n, events', answers)
    BY <2>11, <2>13 DEF Ordered
  <2>15. Steady(pc'[p], n, dec[p], n, n, events', answers)
    BY <2>1, <2>7, <2>11, <2>12 DEF Steady
  <2> QED
    BY <2>1, <2>6, <2>14, <2>15 DEF OrderedNow, SteadyNow
<1>27. CASE PublishMapping(p)
  <2>1. /\ pc[p] = "publish_mapping" /\ node'[p] = node[p] /\ dec'[p] = dec[p]
        /\ pc'[p] \in {"failing", "publish_profile"}
        /\ storage' = storage /\ state'.latest = state.latest
        /\ events' = events /\ answers' = answers
    BY <1>27, PublishStep DEF PublishMapping
  <2>2. SteadyNow(p)
    BY <1>1, <2>1
  <2> QED
    BY <1>2, <2>1, <2>2 DEF Steady, SteadyNow, OrderedNow
<1>28. CASE PublishProfile(p)
  <2>1. /\ pc[p] = "publish_profile" /\ node'[p] = node[p] /\ dec'[p] = dec[p]
        /\ pc'[p] \in {"failing", "decided"}
        /\ storage' = storage /\ state'.latest = state.latest
        /\ events' = events /\ answers' = answers
    BY <1>28, PublishStep DEF PublishProfile
  <2>2. SteadyNow(p)
    BY <1>1, <2>1
  <2> QED
    BY <1>2, <2>1, <2>2 DEF Steady, SteadyNow, OrderedNow
<1>29. CASE Decided(p)
  <2> DEFINE n == node[p]  d == dec[p]
  <2>1. /\ SteadyNow(p) /\ pc[p] = "decided"
        /\ n.at = "ask" /\ LastDecision(events, n.role) = d /\ events[n.role] # <<>>
    BY <1>1, <1>29 DEF Decided, CommandInv, PlaceOf, SteadyNow, Steady
  <2>2. /\ storage' = storage /\ state'.latest = state.latest
        /\ events' = events /\ answers' = answers
    BY <1>29 DEF Decided, GoTo, Update, outside, ghosts, TypeOK, CommandsOK, StateOK
  <2>3. Settled(n, events, answers) /\ n.role \in Roles
    BY <1>0, <2>1 DEF SteadyNow, Steady
  <2>4. ASSUME NEW m, GoTo(p, "saving", m), Settled(m, events, answers)
        PROVE  OrderedNow' /\ (Active(p)' => SteadyNow(p)')
    <3>1. pc'[p] = "saving" /\ node'[p] = m
      BY <2>4 DEF Go, GoTo, Update, data, outside, ghosts, TypeOK, CommandsOK, StateOK
    <3> QED
      BY <1>2, <2>1, <2>2, <2>4, <3>1, CalmSteady DEF Calm, SteadyNow, OrderedNow
  <2>5. CASE d = "approve" /\ n.role = "mapping" /\ GoTo(p, "saving", Node("generate", "causal", 0, Nothing))
    <3>1. events["causal"] = <<>>
      BY <2>3, <2>5 DEF Settled
    <3>2. Settled(Node("generate", "causal", 0, Nothing), events, answers)
      BY <3>1, NodeMade DEF Settled, ApprovedLast
    <3> QED
      BY <2>4, <2>5, <3>2
  <2>6. CASE d = "approve" /\ n.role = "causal" /\ GoTo(p, "saving", [n EXCEPT !.at = "confirm"])
    <3> DEFINE m == [n EXCEPT !.at = "confirm"]
    <3>1. m.at = "confirm" /\ m.role = n.role /\ m.round = n.round
      BY <1>0, NodeMoved DEF Places
    <3> HIDE DEF m
    <3>2. Settled(m, events, answers)
      BY <2>1, <2>3, <3>1 DEF Settled, Newest
    <3> USE DEF m
    <3> QED
      BY <2>4, <2>6, <3>2
  <2>7. CASE d = "revise" /\ GoTo(p, "saving", Node("generate", n.role, 0, Nothing))
    <3>1. Settled(Node("generate", n.role, 0, Nothing), events, answers)
      BY <2>1, <2>3, <2>7, NodeMade DEF Settled, ApprovedLast
    <3> QED
      BY <2>4, <2>7, <3>1
  <2>8. CASE d = "abort" /\ GoTo(p, "saving", [n EXCEPT !.at = "end"])
    <3> DEFINE m == [n EXCEPT !.at = "end"]
    <3>1. m.at = "end" /\ m.role = n.role /\ m.round = n.round
      BY <1>0, NodeMoved DEF Places
    <3> HIDE DEF m
    <3>2. Settled(m, events, answers)
      BY <2>1, <2>3, <3>1 DEF Settled, Newest
    <3> USE DEF m
    <3> QED
      BY <2>4, <2>8, <3>2
  <2> QED
    BY <1>29, <2>5, <2>6, <2>7, <2>8 DEF Decided
<1>30. CASE Confirm(p)
  <2>1. /\ pc[p] = "confirm" /\ node'[p] = node[p] /\ pc'[p] \in {"failing", "publish_graph"}
        /\ storage' = storage /\ state'.latest = state.latest
        /\ events' = events /\ answers' = answers
    BY <1>30, <1>0, ConfirmSame DEF Confirm, data, ghosts
  <2>2. SteadyNow(p)
    BY <1>1, <2>1
  <2> QED
    BY <1>2, <2>1, <2>2, CalmSteady DEF Calm, SteadyNow, OrderedNow
<1>31. CASE PublishGraph(p)
  <2>1. /\ pc[p] = "publish_graph" /\ node'[p] = node[p] /\ pc'[p] \in {"failing", "publish_prov"}
        /\ storage' = storage /\ state'.latest = state.latest
        /\ events' = events /\ answers' = answers
    BY <1>31, PublishStep DEF PublishGraph
  <2>2. SteadyNow(p)
    BY <1>1, <2>1
  <2> QED
    BY <1>2, <2>1, <2>2, CalmSteady DEF Calm, SteadyNow, OrderedNow
<1>32. CASE PublishProvenance(p)
  <2>1. /\ pc[p] = "publish_prov" /\ node'[p] = node[p] /\ pc'[p] \in {"failing", "confirmed"}
        /\ storage' = storage /\ state'.latest = state.latest
        /\ events' = events /\ answers' = answers
    BY <1>32, PublishStep DEF PublishProvenance
  <2>2. SteadyNow(p)
    BY <1>1, <2>1
  <2> QED
    BY <1>2, <2>1, <2>2, CalmSteady DEF Calm, SteadyNow, OrderedNow
<1>33. CASE Approved(p)
  <2> DEFINE m == [node[p] EXCEPT !.at = "end"]
  <2>1. /\ pc[p] = "confirmed" /\ pc'[p] = "saving" /\ node'[p] = m
        /\ storage' = storage /\ state'.latest = state.latest
        /\ events' = events /\ answers' = answers
    BY <1>33 DEF Approved, GoTo, Update, outside, ghosts, TypeOK, CommandsOK, StateOK
  <2>2. m.at = "end" /\ m.role = node[p].role /\ m.round = node[p].round
    BY <1>0, NodeMoved DEF Places
  <2> HIDE DEF m
  <2>3. SteadyNow(p)
    BY <1>1, <2>1
  <2>4. node[p].at = "confirm"
    BY <2>1 DEF CommandInv, PlaceOf
  <2>5. Settled(m, events, answers)
    BY <2>1, <2>2, <2>3, <2>4 DEF SteadyNow, Steady, Settled, Newest
  <2> QED
    BY <1>2, <2>1, <2>3, <2>5, CalmSteady DEF Calm, SteadyNow, OrderedNow
<1>34. CASE Scan(p)
  <2>1. /\ pc[p] = "scan" /\ pc'[p] = "verify" /\ node'[p] = node[p]
        /\ storage' = storage /\ state'.latest = state.latest
        /\ events' = events /\ answers' = answers
    BY <1>34 DEF Scan, Go, data, outside, ghosts, TypeOK, CommandsOK, StateOK
  <2>2. SteadyNow(p)
    BY <1>1, <2>1
  <2> QED
    BY <1>2, <2>1, <2>2, CalmSteady DEF Calm, SteadyNow, OrderedNow
<1>35. CASE VerifyAll(p)
  <2>1. /\ pc[p] = "verify" /\ node'[p] = node[p] /\ pc'[p] \in {"publish_verification", "ended"}
        /\ storage' = storage /\ state'.latest = state.latest
        /\ events' = events /\ answers' = answers
    BY <1>35 DEF VerifyAll, Go, data, outside, ghosts, TypeOK, CommandsOK, StateOK
  <2>2. SteadyNow(p)
    BY <1>1, <2>1
  <2> QED
    BY <1>2, <2>1, <2>2, CalmSteady DEF Calm, SteadyNow, OrderedNow, Active
<1>36. CASE PublishVerification(p)
  <2>1. /\ pc[p] = "publish_verification" /\ node'[p] = node[p] /\ pc'[p] \in {"failing", "complete"}
        /\ storage' = storage /\ state'.latest = state.latest
        /\ events' = events /\ answers' = answers
    BY <1>36, PublishStep DEF PublishVerification
  <2>2. SteadyNow(p)
    BY <1>1, <2>1
  <2> QED
    BY <1>2, <2>1, <2>2, CalmSteady DEF Calm, SteadyNow, OrderedNow
<1>37. CASE WriteCompletion(p)
  <2>1. /\ pc'[p] = "ended"
        /\ storage' = storage /\ state'.latest = state.latest
        /\ events' = events /\ answers' = answers
    BY <1>37 DEF WriteCompletion, Go, data, outside, ghosts, TypeOK, CommandsOK, StateOK
  <2> QED
    BY <1>2, <2>1 DEF OrderedNow, Active
<1> QED
  BY <1>11, <1>12, <1>13, <1>14, <1>15, <1>16, <1>17, <1>18, <1>19, <1>20, <1>21,
     <1>22, <1>23, <1>24, <1>25, <1>26, <1>27, <1>28, <1>29, <1>30, <1>31, <1>32,
     <1>33, <1>34, <1>35, <1>36, <1>37
     DEF Executor, Command

\* Only discover and resume start a command.
LEMMA OnlyStartedAct ==
    ASSUME NEW p \in Commands, Executor(p) \/ Command(p), ~Active(p)
    PROVE  Discover(p) \/ Resume(p)
  BY
     DEF Active, Executor, Command, Raise, Save, StreamEnds, Generate, Answered,
         LogCall, CallFails, MappingRefused, Refused, GraphRefused, Propose, Drafted,
         Review, Answer, Respond, PublishMapping, Publish, PublishProfile, Decided,
         Confirm, PublishGraph, PublishProvenance, Approved, Scan, VerifyAll,
         PublishVerification, WriteCompletion

\* A command that acts is alone, as long as overlap does not say otherwise.
LEMMA ActsAlone ==
    ASSUME StartInv, SoloInv, NEW p \in Commands, Executor(p) \/ Command(p),
           overlap => overlap', ~overlap', NEW q \in Commands \ {p}
    PROVE  ~Active(q)
<1>1. CASE Active(p)
  BY <1>1 DEF SoloInv
<1>2. CASE Discover(p)
  BY <1>2 DEF Discover, StartInv
<1>3. CASE Resume(p)
  BY <1>3 DEF Resume, Active
<1> QED
  BY <1>1, <1>2, <1>3, OnlyStartedAct

\* Events that are numbered now were numbered before.
LEMMA NumberedBefore ==
    ASSUME TypeOK, [Next]_vars, Numbered'
    PROVE  Numbered
<1>1. ASSUME NEW p \in Commands, Respond(p) PROVE Numbered
  <2> SUFFICES ASSUME NEW s \in Roles, NEW i \in 1 .. Len(events[s])
               PROVE  events[s][i].round = i
    BY DEF Numbered
  <2>1. /\ i \in 1 .. Len(events'[s]) /\ events'[s][i] = events[s][i]
    BY <1>1, EventAppended
  <2> QED
    BY <2>1 DEF Numbered
<1>2. CASE events' = events
  BY <1>2 DEF Numbered
<1> QED
  BY <1>1, <1>2, EventsOnlyByRespond

\* The order of questions is inductive.
LEMMA NextOrderInv ==
    ASSUME TypeOK, TypeOK', Growth, StartInv, SoloInv, LogInv, OrderInv,
           \A p \in Commands : CommandInv(p) /\ CommandOrderInv(p), [Next]_vars
    PROVE  OrderInv' /\ \A p \in Commands : CommandOrderInv(p)'
<1> DEFINE Goal == OrderedNow' /\ \A q \in Commands : Active(q)' => SteadyNow(q)'
<1>1. SUFFICES ASSUME ~overlap', Numbered' PROVE Goal
  BY DEF OrderInv, CommandOrderInv, OrderedNow, SteadyNow, Regular
<1>2. (overlap => overlap') /\ ~overlap /\ Numbered
  BY <1>1, NumberedBefore DEF Growth
<1>3. OrderedNow /\ \A q \in Commands : Active(q) => SteadyNow(q)
  BY <1>2 DEF OrderInv, CommandOrderInv, OrderedNow, SteadyNow, Regular
<1>4. ASSUME NEW p \in Commands, Executor(p) \/ Command(p) PROVE Goal
  <2>1. OrderedNow' /\ (Active(p)' => SteadyNow(p)')
    BY <1>1, <1>2, <1>3, <1>4, OrderStep
  <2>2. ASSUME NEW q \in Commands \ {p} PROVE ~Active(q)'
    BY <1>1, <1>2, <1>4, ActsAlone, OthersStay DEF Active
  <2> QED
    BY <2>1, <2>2
<1>5. ASSUME UNCHANGED <<state, storage, events, answers, node, dec>>,
             \A q \in Commands : pc'[q] \in {pc[q], "ended"}
      PROVE  Goal
  <2>1. OrderedNow'
    BY <1>3, <1>5 DEF OrderedNow
  <2>2. ASSUME NEW q \in Commands, Active(q)' PROVE SteadyNow(q)'
    <3>1. pc'[q] = pc[q] /\ Active(q)
      BY <1>5, <2>2 DEF Active
    <3> QED
      BY <1>3, <1>5, <3>1 DEF SteadyNow
  <2> QED
    BY <2>1, <2>2
<1>6. CASE \E e \in Exports : ExportStart(e) \/ ExportWrite(e)
  BY <1>5, <1>6 DEF ExportStart, ExportWrite, data, command, ghosts
<1>7. CASE Kill
  BY <1>5, <1>7 DEF Kill, Go, data, command, ghosts, TypeOK, CommandsOK
<1>8. CASE UNCHANGED vars
  BY <1>5, <1>8 DEF vars, data, command, ghosts
<1> QED
  BY <1>4, <1>6, <1>7, <1>8 DEF Next

-----------------------------------------------------------------------------
(* The invariant, and what follows from it. *)

\* The invariant holds initially.
LEMMA InitIInv == Init => IInv
<1> SUFFICES ASSUME Init PROVE IInv
  OBVIOUS
<1>1. TypeOK
  BY InitTypeOK
<1>2. StartNode.at = "generate" /\ \A p \in Commands : pc[p] = "idle" /\ node[p] = StartNode
  BY NodeMade DEF Init, StartNode
<1>3. CheckpointInv /\ StartInv /\ SoloInv
  BY <1>2 DEF Init, CheckpointInv, StartInv, SoloInv, Active
<1>4. LogInv /\ FileInv /\ ExportInv
  BY DEF Init, LogInv, FileInv, ExportInv, Targets
<1>5. \A r \in Roles : CountInv(r)
  BY InitCountInv
<1>6. \A p \in Commands : CommandInv(p) /\ CommandOrderInv(p)
  BY <1>2 DEF CommandInv, CommandOrderInv, Active, PlaceOf, Places, Endorsed, Stored
<1>7. OrderInv
  <2>1. \A r \in Roles : events[r] = <<>>
    BY DEF Init
  <2> QED
    BY <2>1 DEF Init, OrderInv, Ordered, ApprovedLast
<1> QED
  BY <1>1, <1>3, <1>4, <1>5, <1>6, <1>7 DEF IInv

\* Every step keeps the invariant.
LEMMA NextIInv == IInv /\ [Next]_vars => IInv'
<1> SUFFICES ASSUME IInv, [Next]_vars PROVE IInv'
  OBVIOUS
<1> USE DEF IInv
<1>1. TypeOK'
  BY NextCommandsOK, NextLogsOK, NextStateOK, NextOthersOK DEF TypeOK
<1>2. Growth
  BY Monotone
<1>3. CheckpointInv' /\ \A p \in Commands : CommandInv(p)'
  BY <1>1, <1>2, NextCheckpointInv, NextCommandInv
<1>4. StartInv' /\ SoloInv'
  BY <1>1, NextStartInv, NextSoloInv
<1>5. LogInv' /\ FileInv' /\ ExportInv'
  BY <1>1, <1>2, NextLogInv, NextFileInv, NextExportInv
<1>6. \A r \in Roles : CountInv(r)'
  BY <1>1, NextCountInv
<1>7. OrderInv' /\ \A p \in Commands : CommandOrderInv(p)'
  BY <1>1, <1>2, NextOrderInv
<1> QED
  BY <1>1, <1>3, <1>4, <1>5, <1>6, <1>7

\* The inductive invariant of the offline workflow, for any commands, limits,
\* number of failures and kills.
THEOREM OfflineInvariance == Spec => []IInv
<1>1. Init => IInv
  BY InitIInv
<1>2. IInv /\ [Next]_vars => IInv'
  BY NextIInv
<1> QED
  BY <1>1, <1>2, PTL DEF Spec

\* Every variable keeps its type.
THEOREM OfflineTypeCorrect == Spec => []TypeOK
<1>1. IInv => TypeOK
  BY DEF IInv
<1> QED
  BY <1>1, OfflineInvariance, PTL

\* Whatever is published or exported is what a human was shown and approved,
\* also when commands overlap or are killed: artifacts are written once, from a
\* node a human approved, and an export starts on files that cannot change.
THEOREM PublishedAlwaysShown == Spec => []PublishedIsShown
<1>1. IInv => PublishedIsShown
  BY DEF IInv, FileInv, ExportInv, PublishedIsShown, Targets
<1> QED
  BY <1>1, OfflineInvariance, PTL

\* The provider is asked at most the limit of a role, plus one request for each
\* kill, plus one for each other command when commands overlap: every request
\* is in the log of calls, in flight, or lost with a killed command.
THEOREM CallsAlwaysBounded == Spec => []CallsBounded
<1>1. IInv => CallsBounded
  <2> SUFFICES ASSUME IInv, NEW r \in Roles
               PROVE  requests[r] <= Limit(r) + kills
                                       + (IF overlap THEN Cardinality(Commands) - 1 ELSE 0)
    BY DEF CallsBounded
  <2> DEFINE known == RoleCalls(r) + Cardinality(Flying(r))
             slack == IF overlap THEN Cardinality(Commands) - 1 ELSE 0
  <2>1. requests[r] <= known + kills /\ known <= Limit(r) + slack
    BY DEF IInv, CountInv
  <2>2. known \in Nat /\ requests[r] \in Nat /\ kills \in Nat /\ Limit(r) \in Nat /\ slack \in Int
    <3>1. IsFiniteSet(Flying(r)) /\ Cardinality(Commands) \in Nat
      BY FS_Subset, FS_CardinalityType, OfflineAssumption DEF Flying, OfflineAssumption
    <3>2. Cardinality(Flying(r)) \in Nat /\ RoleCalls(r) \in Nat
      BY <3>1, FS_CardinalityType, CallCounts DEF IInv
    <3>3. requests[r] \in Nat /\ kills \in Nat
      BY DEF IInv, TypeOK, OthersOK
    <3>4. Limit(r) \in Nat
      BY OfflineAssumption DEF Limit, OfflineAssumption
    <3> QED
      BY <3>1, <3>2, <3>3, <3>4
  <2> HIDE DEF known, slack
  <2>3. requests[r] <= Limit(r) + kills + slack
    BY <2>1, <2>2, Z3
  <2> QED
    BY <2>3 DEF slack
<1> QED
  BY <1>1, OfflineInvariance, PTL

\* The invariant gives the soundness of a completion.
LEMMA CompletionFollows == IInv => CompletionSound
<1> SUFFICES ASSUME IInv, Complete, NEW r \in Roles
             PROVE  LET n == Len(events[r]) IN
        /\ \A i \in 1 .. n :
              <<r, i, props[r][i].id, IF i = n THEN "approve" ELSE "revise">> \in answers
        /\ overlap \/ \A a \in answers : a[1] = r => a[2] <= n
        /\ n <= requests[r] /\ n <= RoleCallsConfirmed(r) /\ RoleCalls(r) <= Limit(r)
        /\ file[IF r = "mapping" THEN "mapping" ELSE "graph"] = props[r][n].id
  BY DEF CompletionSound
<1> DEFINE n == Len(events[r])
<1>1. \A s \in Roles : events[s] \in Seq(Events) /\ props[s] \in Seq(Proposals)
  BY DEF IInv, TypeOK, LogsOK
<1>2. \A s \in Roles : ReviewEvents(events[s], props[s])
  BY DEF Complete, Verified
<1>3. n \in Nat /\ n \in 1 .. n /\ n <= Len(props[r]) /\ Len(props[r]) \in Nat
  BY <1>1, <1>2 DEF ReviewEvents
<1>4. ASSUME NEW i \in 1 .. n
      PROVE  <<r, i, props[r][i].id, IF i = n THEN "approve" ELSE "revise">> \in answers
  <2>1. <<r, events[r][i].round, events[r][i].id, events[r][i].dec>> \in answers
    BY DEF IInv, LogInv
  <2>2. /\ events[r][i].round = i /\ events[r][i].id = props[r][i].id
        /\ events[r][i].dec = (IF i = n THEN "approve" ELSE "revise")
    BY <1>2 DEF ReviewEvents
  <2> QED
    BY <2>1, <2>2
<1>5. ASSUME ~overlap PROVE \A a \in answers : a[1] = r => a[2] <= n
  <2>1. Regular
    BY <1>2, <1>5 DEF Regular, Numbered, ReviewEvents
  <2>2. ApprovedLast(events, r)
    BY <1>2 DEF ApprovedLast, LastDecision, ReviewEvents
  <2> QED
    BY <2>1, <2>2 DEF IInv, OrderInv, Ordered
<1>6. n <= RoleCallsConfirmed(r) /\ n <= requests[r]
  <2>1. /\ Len(props[r]) + Cardinality(Validating(r)) <= RoleCallsConfirmed(r)
        /\ RoleCalls(r) + Cardinality(Flying(r)) <= requests[r]
    BY DEF IInv, CountInv
  <2>2. /\ RoleCalls(r) \in Nat /\ RoleCallsConfirmed(r) \in Nat
        /\ RoleCallsConfirmed(r) <= RoleCalls(r)
    BY CallCounts DEF IInv
  <2>3. IsFiniteSet(Flying(r)) /\ IsFiniteSet(Validating(r))
    BY FS_Subset, OfflineAssumption DEF Flying, Validating, OfflineAssumption
  <2>4. Cardinality(Flying(r)) \in Nat /\ Cardinality(Validating(r)) \in Nat
    BY <2>3, FS_CardinalityType
  <2>5. requests[r] \in Nat
    BY DEF IInv, TypeOK, OthersOK
  <2> QED
    BY <1>3, <2>1, <2>2, <2>4, <2>5, Z3
<1>7. RoleCalls(r) <= Limit(r)
  BY DEF Complete, Verified, CallsValid
<1>8. file[IF r = "mapping" THEN "mapping" ELSE "graph"] = props[r][n].id
  <2>1. ApprovedRow(r) = props[r][n]
    BY <1>2, <1>3 DEF ApprovedRow, ReviewEvents
  <2> QED
    BY <2>1 DEF Complete, Verified, Roles
<1> QED
  BY <1>4, <1>5, <1>6, <1>7, <1>8

\* A workspace that verifies as complete tells the whole story: all proposals
\* up to the approved ones were shown, revised and approved in that order,
\* each with a call within the limits, and no human was shown a later one
\* unless commands overlapped.
THEOREM CompletionAlwaysSound == Spec => []CompletionSound
<1> QED
  BY CompletionFollows, OfflineInvariance, PTL

=============================================================================
