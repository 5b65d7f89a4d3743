---------------------------- MODULE OfflineWorkflow ----------------------------
(***************************************************************************)
(* The offline onboarding of h3c/offline: a model proposes a mapping, a     *)
(* human reviews it, a model proposes a causal graph, a human reviews it,   *)
(* the graph is confirmed, the workspace is verified, completed, exported.  *)
(* discover starts it, resume continues it from a checkpoint of the Agent   *)
(* Framework.  Everything lives in one workspace directory for which no     *)
(* command takes a lock; logs are appended, artifacts are written once.     *)
(* Every write is a step, and a command may be killed between two writes.   *)
(***************************************************************************)
EXTENDS Naturals, Sequences, FiniteSets

CONSTANTS
    Commands,     \* the commands: the first runs discover, the others resume
    Exports,      \* export commands, all with the same targets
    Contents,     \* identities of what a model may propose
    MappingCalls, CausalCalls,   \* the call limits of the specification
    MaxTroubles   \* bound: calls that fail, proposals that do not validate, and kills

Nobody == "none"
Nothing == <<>>

ASSUME OfflineAssumption ==
    /\ IsFiniteSet(Commands) /\ Nothing \notin Contents
    /\ MappingCalls \in Nat \ {0} /\ CausalCalls \in Nat \ {0}
    /\ MaxTroubles \in Nat

Roles == {"mapping", "causal"}
ReviewStage(r) == IF r = "mapping" THEN "mapping_review" ELSE "causal_review"
RevisionStage(r) == IF r = "mapping" THEN "mapping_revision" ELSE "causal_revision"
Limit(r) == IF r = "mapping" THEN MappingCalls ELSE CausalCalls

VARIABLES
    state,     \* application_state.json
    calls,     \* model_calls.jsonl: role, sequence number, outcome
    raws,      \* raw_model_io.jsonl: role, sequence number
    props,     \* <role>_proposals.jsonl: round and identity
    events,    \* <role>_review_events.jsonl: round, identity, decision
    file,      \* artifacts written once: mapping, profile, graph, provenance, verification
    done,      \* completion.json: none, the newest file of the workspace, or older than another
    storage,   \* newest checkpoint of the framework: where the workflow goes on
    pc,        \* commands: what each one does next
    node,      \* commands: where it is in the workflow, and about which proposal
    dec,       \* commands: the decision it was given
    seq,       \* commands: the sequence number of its model call
    target,    \* targets of the export
    export,    \* exports: control state
    answers,   \* ghost: what humans answered to what they were shown
    requests,  \* ghost: requests the provider was sent, for each role
    overlap,   \* ghost: whether two commands ever ran at the same time
    faults, kills

data == <<state, calls, raws, props, events, file>>
command == <<pc, node, dec, seq>>
outside == <<target, export, faults, kills>>
ghosts == <<answers, requests, overlap>>
vars == <<data, done, storage, command, outside, ghosts>>

Node(at, r, round, id) == [at |-> at, role |-> r, round |-> round, id |-> id]
StartNode == Node("generate", "mapping", 0, Nothing)

Init ==
    /\ state = [stage |-> Nobody, aborted |-> FALSE, latest |-> Nothing,
                round |-> [r \in Roles |-> 0]]
    /\ calls = <<>> /\ raws = <<>>
    /\ props = [r \in Roles |-> <<>>] /\ events = [r \in Roles |-> <<>>]
    /\ file = [f \in {"mapping", "profile", "graph", "provenance", "verification"} |-> Nothing]
    /\ done = "none" /\ storage = Nothing
    /\ pc = [p \in Commands |-> "idle"] /\ node = [p \in Commands |-> StartNode]
    /\ dec = [p \in Commands |-> Nobody] /\ seq = [p \in Commands |-> 0]
    /\ target = [f \in {"graph", "provenance", "profile"} |-> Nothing]
    /\ export = [e \in Exports |-> "idle"]
    /\ answers = {} /\ requests = [r \in Roles |-> 0] /\ overlap = FALSE
    /\ faults = 0 /\ kills = 0

Trouble == faults + kills < MaxTroubles
Fault == Trouble /\ faults' = faults + 1
Go(p, to) == pc' = [pc EXCEPT ![p] = to] /\ UNCHANGED <<node, dec, seq>>
GoTo(p, to, n) ==
    pc' = [pc EXCEPT ![p] = to] /\ node' = [node EXCEPT ![p] = n] /\ UNCHANGED <<dec, seq>>
(* Any write makes a completion older than another file of the workspace.   *)
Touch == done' = IF done = "fresh" THEN "stale" ELSE done
Update(stage) == state' = [state EXCEPT !.stage = stage]
Log(what, by) == what' = Append(what, by)

(***************************************************************************)
(* The commands.  The framework may save a checkpoint of the first message. *)
(***************************************************************************)
Discover(p) ==
    /\ state.stage = Nobody /\ pc[p] = "idle"
    /\ Update("created") /\ Go(p, "generate")
    /\ storage' \in {Nothing, StartNode}
    /\ Touch
    /\ UNCHANGED <<calls, raws, props, events, file, ghosts, outside>>

Resumable ==
    /\ state.stage \notin {Nobody, "approved", "aborted"} /\ done = "none"
    /\ calls # <<>> => calls[Len(calls)].st \in {"confirmed", "network"}

Resume(p) ==
    LET from == IF state.latest # Nothing THEN state.latest ELSE storage IN
    /\ pc[p] = "idle" /\ Resumable /\ from # Nothing
    /\ GoTo(p, IF from.at = "ask" THEN "pending" ELSE from.at, from)
    /\ storage' \in {storage, from}
    /\ overlap' = (overlap \/ \E q \in Commands : pc[q] \notin {"idle", "ended"})
    /\ Touch
    /\ UNCHANGED <<data, answers, requests, outside>>

(* An exception leaves the stream: the newest checkpoint is recorded.       *)
Raise(p) ==
    /\ pc[p] = "failing"
    /\ state' = IF storage # Nothing THEN [state EXCEPT !.latest = storage] ELSE state
    /\ Go(p, "ended") /\ Touch
    /\ UNCHANGED <<calls, raws, props, events, file, storage, ghosts, outside>>

(* The end of a superstep.                                                  *)
Save(p) ==
    /\ pc[p] = "saving"
    /\ storage' = node[p]
    /\ Go(p, IF node[p].at \in {"ask", "end"} THEN "pending" ELSE node[p].at)
    /\ Touch
    /\ UNCHANGED <<data, ghosts, outside>>

(* The stream is over: with a request for a human or with an output.        *)
StreamEnds(p) ==
    /\ pc[p] = "pending"
    /\ IF storage = Nothing THEN Go(p, "ended") /\ UNCHANGED <<state, done>>
       ELSE /\ state' = [state EXCEPT !.latest = storage] /\ Touch
            /\ Go(p, IF node[p].at = "ask" THEN "asking"
                     ELSE IF dec[p] = "approve" THEN "scan" ELSE "ended")
    /\ UNCHANGED <<calls, raws, props, events, file, storage, ghosts, outside>>

(***************************************************************************)
(* The generating executors.                                               *)
(***************************************************************************)
CallsOf(r) == {i \in 1 .. Len(calls) : calls[i].role = r}
Confirmed(r) == {i \in CallsOf(r) : calls[i].st = "confirmed"}
RoleCallsConfirmed(r) == Cardinality(Confirmed(r))                  \* mutant
RoleCalls(r) == Cardinality(CallsOf(r))

Generate(p) ==
    LET r == node[p].role IN
    /\ pc[p] = "generate"
    /\ IF RoleCalls(r) >= Limit(r) THEN Go(p, "failing") /\ UNCHANGED requests
       ELSE /\ pc' = [pc EXCEPT ![p] = "calling"]
            /\ node' = [node EXCEPT ![p] = Node("generate", r, Len(props[r]) + 1, Nothing)]
            /\ seq' = [seq EXCEPT ![p] = Len(calls) + 1] /\ UNCHANGED dec
            /\ requests' = [requests EXCEPT ![r] = @ + 1]
    /\ UNCHANGED <<data, done, storage, answers, overlap, outside>>

Row(p) == [role |-> node[p].role, seq |-> seq[p]]
CallRow(p, st) == [role |-> node[p].role, seq |-> seq[p], st |-> st]

Answered(p) ==
    /\ pc[p] = "calling"
    /\ Log(raws, Row(p)) /\ Go(p, "answered") /\ Touch
    /\ UNCHANGED <<state, calls, props, events, file, storage, ghosts, outside>>

LogCall(p) ==
    /\ pc[p] = "answered"
    /\ Log(calls, CallRow(p, "confirmed")) /\ Go(p, "validating") /\ Touch
    /\ UNCHANGED <<state, raws, props, events, file, storage, ghosts, outside>>

Failures == {"network", "other"}
CallFails(p) ==
    /\ pc[p] = "calling" /\ Fault
    /\ \E st \in Failures : Log(calls, CallRow(p, st))
    /\ Go(p, "failing") /\ Touch
    /\ UNCHANGED <<state, raws, props, events, file, storage, ghosts, target, export, kills>>

(* A mapping is refused for its points, a graph for its edges or evidence.  *)
Refused(p, r) ==
    /\ pc[p] = "validating" /\ node[p].role = r /\ Fault
    /\ Go(p, "failing")
    /\ UNCHANGED <<data, done, storage, ghosts, target, export, kills>>

MappingRefused(p) == Refused(p, "mapping")
GraphRefused(p) == Refused(p, "causal")

Propose(p) ==
    LET n == node[p] IN
    /\ pc[p] = "validating"
    /\ \E id \in Contents :
          /\ props' = [props EXCEPT ![n.role] = Append(@, [round |-> n.round, id |-> id])]
          /\ GoTo(p, "proposed", [n EXCEPT !.id = id])
    /\ Touch
    /\ UNCHANGED <<state, calls, raws, events, file, storage, ghosts, outside>>

Drafted(p) ==
    LET n == node[p] IN
    /\ pc[p] = "proposed"
    /\ state' = [state EXCEPT !.stage = ReviewStage(n.role), !.round[n.role] = n.round]
    /\ GoTo(p, "saving", [n EXCEPT !.at = "review"]) /\ Touch
    /\ UNCHANGED <<calls, raws, props, events, file, storage, ghosts, outside>>

(***************************************************************************)
(* The reviewing executors.                                                *)
(***************************************************************************)
ProposalRowLast(n) ==                                               \* mutant
    IF props[n.role] = <<>> THEN {} ELSE {props[n.role][Len(props[n.role])].id}
Matching(n) == {i \in 1 .. Len(props[n.role]) : props[n.role][i] = [round |-> n.round, id |-> n.id]}
(* What the review is about, if that is exactly one stored proposal.        *)
ProposalRow(n) == IF Cardinality(Matching(n)) = 1 THEN {n.id} ELSE {}

Review(p) ==
    LET n == node[p] IN
    /\ pc[p] = "review"
    /\ IF ProposalRow(n) = {} THEN Go(p, "failing") ELSE GoTo(p, "saving", [n EXCEPT !.at = "ask"])
    /\ UNCHANGED <<data, done, storage, ghosts, outside>>

(* A human answers what the request shows.                                  *)
Decisions == {"approve", "revise", "abort"}
Event(n, d) == [round |-> n.round, id |-> n.id, dec |-> d]
Answer(p) ==
    LET n == node[p] IN
    /\ pc[p] = "asking"
    /\ \E d \in Decisions :
          /\ answers' = answers \cup {<<n.role, n.round, n.id, d>>}
          /\ pc' = [pc EXCEPT ![p] = "respond"] /\ dec' = [dec EXCEPT ![p] = d]
    /\ UNCHANGED <<node, seq, data, done, storage, requests, overlap, outside>>

Respond(p) ==
    LET n == node[p]  d == dec[p] IN
    /\ pc[p] = "respond"
    /\ events' = [events EXCEPT ![n.role] = Append(@, Event(n, d))]
    /\ \/ n.role = "causal" /\ Go(p, "decided")
       \/ n.role = "mapping" /\ ProposalRow(n) = {} /\ Go(p, "failing")
       \/ n.role = "mapping" /\ \E id \in ProposalRow(n) :
             GoTo(p, IF d = "approve" THEN "publish_mapping" ELSE "decided", [n EXCEPT !.id = id])
    /\ Touch
    /\ UNCHANGED <<state, calls, raws, props, file, storage, ghosts, outside>>

(* An artifact is written once: a second write raises.                      *)
Publish(p, from, name, value, to) ==
    /\ pc[p] = from
    /\ IF file[name] # Nothing THEN Go(p, "failing") /\ UNCHANGED <<file, done>>
       ELSE file' = [file EXCEPT ![name] = value] /\ Go(p, to) /\ Touch
    /\ UNCHANGED <<state, calls, raws, props, events, storage, ghosts, outside>>

PublishMapping(p) ==
    Publish(p, "publish_mapping", "mapping", node[p].id, "publish_profile")
PublishProfile(p) == Publish(p, "publish_profile", "profile", node[p].id, "decided")

Decided(p) ==
    LET n == node[p]  d == dec[p] IN
    /\ pc[p] = "decided"
    /\ \/ /\ d = "approve" /\ n.role = "mapping"
          /\ Update("causal_generation")
          /\ GoTo(p, "saving", Node("generate", "causal", 0, Nothing))
       \/ /\ d = "approve" /\ n.role = "causal"
          /\ Update("confirmation")
          /\ GoTo(p, "saving", [n EXCEPT !.at = "confirm"])
       \/ /\ d = "revise"
          /\ Update(RevisionStage(n.role))
          /\ GoTo(p, "saving", Node("generate", n.role, 0, Nothing))
       \/ /\ d = "abort"
          /\ state' = [state EXCEPT !.stage = "aborted", !.aborted = TRUE]
          /\ GoTo(p, "saving", [n EXCEPT !.at = "end"])
    /\ Touch
    /\ UNCHANGED <<calls, raws, props, events, file, storage, ghosts, outside>>

(***************************************************************************)
(* The confirming executor.                                                *)
(***************************************************************************)
Confirm(p) ==
    /\ pc[p] = "confirm"
    /\ \/ ProposalRow(node[p]) = {} /\ Go(p, "failing")
       \/ \E id \in ProposalRow(node[p]) :
             GoTo(p, "publish_graph", [node[p] EXCEPT !.id = id])
    /\ UNCHANGED <<data, done, storage, ghosts, outside>>

Feedback == Len(SelectSeq(events["causal"], LAMBDA e : e.dec = "revise"))
Provenance(round) == <<round, Feedback>>
PublishGraph(p) == Publish(p, "publish_graph", "graph", node[p].id, "publish_prov")
PublishProvenance(p) ==
    Publish(p, "publish_prov", "provenance", Provenance(node[p].round), "confirmed")

Approved(p) ==
    /\ pc[p] = "confirmed"
    /\ Update("approved")
    /\ GoTo(p, "saving", [node[p] EXCEPT !.at = "end"]) /\ Touch
    /\ UNCHANGED <<calls, raws, props, events, file, storage, ghosts, outside>>

(***************************************************************************)
(* Verification, from the files alone.                                     *)
(***************************************************************************)
CallsValid ==
    /\ calls # <<>> /\ \A i \in 1 .. Len(calls) : calls[i].seq = i
    /\ \A i, j \in 1 .. Len(raws) : i < j => raws[i].seq < raws[j].seq
    /\ \A i \in 1 .. Len(calls) :
          LET mine == {j \in 1 .. Len(raws) : raws[j].seq = i} IN
          IF calls[i].st = "confirmed" THEN \E j \in mine : raws[j].role = calls[i].role
          ELSE calls[i].st = "network" /\ mine = {}
    /\ Len(raws) = Len(SelectSeq(calls, LAMBDA c : c.st = "confirmed"))
    /\ \A r \in Roles : RoleCalls(r) <= Limit(r)

ProposalsValid(r) ==
    props[r] # <<>> /\ \A i \in 1 .. Len(props[r]) : props[r][i].round = i

ReviewEventsAnyRound(e, n) ==                                       \* mutant
    /\ e # <<>> /\ Len(e) <= Len(n)
    /\ \A i \in 1 .. Len(e) : e[i].dec # "revise" => i = Len(e)
    /\ e[Len(e)].dec = "approve"
ReviewEvents(e, n) ==
    /\ e # <<>> /\ Len(e) <= Len(n)
    /\ \A i \in 1 .. Len(e) :
          /\ e[i].round = i /\ e[i].id = n[i].id
          /\ e[i].dec # "revise" => i = Len(e)
    /\ e[Len(e)].dec = "approve"

ApprovedRow(r) == props[r][events[r][Len(events[r])].round]

Verified ==
    /\ CallsValid
    /\ \A r \in Roles : ProposalsValid(r) /\ ReviewEvents(events[r], props[r])
    /\ file["mapping"] = ApprovedRow("mapping").id /\ file["profile"] = ApprovedRow("mapping").id
    /\ file["graph"] = ApprovedRow("causal").id
    /\ file["provenance"] = Provenance(ApprovedRow("causal").round)
    /\ state.stage = "approved" /\ ~state.aborted /\ state.latest # Nothing
    /\ \A r \in Roles : state.round[r] = Len(props[r])

Complete == done = "fresh" /\ file["verification"] # Nothing /\ Verified

(* finalize_workspace: the manifest is replaced, the rest is verified, the  *)
(* verification and then the completion are written.                        *)
Scan(p) ==
    /\ pc[p] = "scan"
    /\ Go(p, "verify") /\ Touch
    /\ UNCHANGED <<data, storage, ghosts, outside>>

VerifyAll(p) ==
    /\ pc[p] = "verify"
    /\ Go(p, IF Verified THEN "publish_verification" ELSE "ended")
    /\ UNCHANGED <<data, done, storage, ghosts, outside>>

PublishVerification(p) ==
    Publish(p, "publish_verification", "verification", <<"passed">>, "complete")

WriteCompletion(p) ==
    /\ pc[p] = "complete"
    /\ done' = "fresh" /\ Go(p, "ended")
    /\ UNCHANGED <<data, storage, ghosts, outside>>

(***************************************************************************)
(* Export, and the end of a command at any point.                          *)
(***************************************************************************)
ExportStart(e) ==
    /\ export[e] = "idle" /\ Complete /\ \A f \in DOMAIN target : target[f] = Nothing
    /\ export' = [export EXCEPT ![e] = "graph"]
    /\ UNCHANGED <<data, done, storage, command, ghosts, target, faults, kills>>

ExportNext(f) == IF f = "graph" THEN "provenance" ELSE IF f = "provenance" THEN "profile" ELSE "ended"
ExportWrite(e) ==
    LET f == export[e] IN
    /\ f \in DOMAIN target
    /\ IF target[f] # Nothing THEN export' = [export EXCEPT ![e] = "ended"] /\ UNCHANGED target
       ELSE /\ target' = [target EXCEPT ![f] = file[f]]
            /\ export' = [export EXCEPT ![e] = ExportNext(f)]
    /\ UNCHANGED <<data, done, storage, command, ghosts, faults, kills>>

Kill ==
    /\ Trouble /\ kills' = kills + 1
    /\ \/ \E p \in Commands : pc[p] \notin {"idle", "ended"} /\ Go(p, "ended") /\ UNCHANGED export
       \/ \E e \in Exports : /\ export[e] \notin {"idle", "ended"}
                             /\ export' = [export EXCEPT ![e] = "ended"] /\ UNCHANGED command
    /\ UNCHANGED <<data, done, storage, ghosts, target, faults>>

Executor(p) ==
    \/ Generate(p) \/ Answered(p) \/ LogCall(p) \/ CallFails(p) \/ MappingRefused(p)
    \/ GraphRefused(p) \/ Propose(p) \/ Drafted(p) \/ Review(p) \/ Respond(p) \/ PublishMapping(p) \/ PublishProfile(p)
    \/ Decided(p) \/ Confirm(p) \/ PublishGraph(p) \/ PublishProvenance(p) \/ Approved(p)

Command(p) ==
    \/ Discover(p) \/ Resume(p) \/ Raise(p) \/ Save(p) \/ StreamEnds(p) \/ Answer(p)
    \/ Scan(p) \/ VerifyAll(p) \/ PublishVerification(p) \/ WriteCompletion(p)

Next ==
    \/ \E p \in Commands : Executor(p) \/ Command(p)
    \/ \E e \in Exports : ExportStart(e) \/ ExportWrite(e)
    \/ Kill

Spec == Init /\ [][Next]_vars

-----------------------------------------------------------------------------
(* A workspace that verifies as complete tells the whole story, whatever    *)
(* was killed, resumed or run twice before: every proposal up to the        *)
(* approved one was shown to a human, who asked for a revision of each but  *)
(* the last and approved that, each has a model call of its own within the  *)
(* limits, and the files hold the approved ones.  A resume may have left    *)
(* later proposals, but no human was shown one, unless two commands ran at  *)
(* the same time.                                                          *)
CompletionSound ==
    Complete => \A r \in Roles : LET n == Len(events[r]) IN
        /\ \A i \in 1 .. n :
              <<r, i, props[r][i].id, IF i = n THEN "approve" ELSE "revise">> \in answers
        /\ overlap \/ \A a \in answers : a[1] = r => a[2] <= n
        /\ n <= requests[r] /\ n <= RoleCallsConfirmed(r) /\ RoleCalls(r) <= Limit(r)
        /\ file[IF r = "mapping" THEN "mapping" ELSE "graph"] = props[r][n].id

(* Whatever is published or exported is what a human was shown and          *)
(* approved, also when two commands answer the same request or a kill       *)
(* makes the workflow ask again; and a profile is exported last.            *)
PublishedIsShown ==
    /\ \A pair \in {<<"mapping", "mapping">>, <<"profile", "mapping">>, <<"graph", "causal">>} :
          file[pair[1]] # Nothing =>
              \E a \in answers : a[1] = pair[2] /\ a[3] = file[pair[1]] /\ a[4] = "approve"
    /\ target["profile"] # Nothing =>
          /\ target["profile"] = file["mapping"] /\ target["graph"] = file["graph"]
          /\ target["provenance"] = file["provenance"]

(* The provider is asked no more often than the limit of a role over all    *)
(* resumptions, but for the requests that are lost with a killed command    *)
(* and one for another command that runs at the same time.                  *)
CallsBounded ==
    \A r \in Roles :
        requests[r] <= Limit(r) + kills + (IF overlap THEN Cardinality(Commands) - 1 ELSE 0)
=============================================================================
