---------------------------- MODULE AgentResponse ---------------------------
(***************************************************************************)
(* One `opencode run`, and what becomes of its standard output: the recheck*)
(* of the control plane before it, the capture and its limit,              *)
(* classify_provider_signal, decode_run_transport (opencode.py),           *)
(* parse_agent_response (protocol.py), the check of who wrote the session, *)
(* and the AgentResult of cli.py, on which the loop of the orchestrator    *)
(* decides.                                                                *)
(***************************************************************************)
EXTENDS ProcessOutcome, ControlPlane

CONSTANTS
  Messages,      \* messages of the sessions OpenCode runs
  Texts,         \* non-blank texts a message may hold
  NdjsonLimit,   \* MAX_NDJSON_LINES
  MaxLines,      \* bound: NDJSON lines the child prints
  MaxTextLines   \* bound: logical lines of the terminal text

VARIABLES
  role,          \* AgentRole of the attempt
  plane,         \* the permission rules of its agent: validated, then rechecked
  sessionOf,     \* the session of each message
  at,            \* what is done next
  lines,         \* the lines captured from stdout
  overflowed,    \* the capture reached RUN_OUTPUT_LIMIT_BYTES
  proc, diag,    \* the ProcessResult and the provider_diagnostic
  transport,     \* the TransportResult, or NoTransport
  text,          \* the logical lines of its terminal text
  response,      \* terminal_response
  author         \* whose agent wrote each message, as the export shows it

vars == <<role, plane, sessionOf, at, lines, overflowed, proc, diag, transport, text,
          response, author>>

-----------------------------------------------------------------------------
(* The lines of stdout.  `other` stands for step_start, tool_use, reasoning*)
(* and error; `invalid` for every line whose own shape is refused.         *)

Sessions == {"s", "t"}

Blank == "BLANK"          \* a completed text of white space only
Partial == "PARTIAL"      \* a text without time.end

TextEvents == [type : {"text"}, message : Messages, text : Texts \cup {Blank, Partial}]
FinishEvents == [type : {"step_finish"}, message : Messages, reason : {"stop", "tool-calls"}]
OtherEvents == [type : {"other"}, message : Messages]
ErrorEvents == [type : {"session.error"}, message : Messages, trusted : BOOLEAN]
Invalid == [type |-> "invalid"]

Events == TextEvents \cup FinishEvents \cup OtherEvents \cup ErrorEvents \cup {Invalid}

(* classify_provider_signal: the first trusted signal, wherever it stands; *)
(* lines that cannot be parsed are skipped.                                *)
ClassifyProviderSignal(out) ==
  IF \E i \in DOMAIN out : out[i].type = "session.error" /\ out[i].trusted
  THEN "overload" ELSE None

-----------------------------------------------------------------------------
(* decode_run_transport, one line at a time.                               *)

NoMessage == "NO MESSAGE"

(* Sessions are finite, and the markers are values of their own.           *)
ASSUME ResponseAssumption ==
  /\ IsFiniteSet(Messages) /\ NoMessage \notin Messages
  /\ Texts \cap {None, Blank, Partial} = {}
  /\ NdjsonLimit \in Nat /\ MaxTextLines \in Nat

Undecoded == [refused |-> FALSE, session |-> None, completed |-> [m \in Messages |-> None],
              last |-> NoMessage, reason |-> "stop", activity |-> FALSE]

Refused(d) == [d EXCEPT !.refused = TRUE]

DecodeFinish(d, e) ==
  [d EXCEPT !.last = e.message, !.reason = e.reason, !.activity = FALSE]

DecodeTextKeepingBlanked(d, e) ==  \* mutation
  IF e.text \in {Partial, Blank} THEN d ELSE [d EXCEPT !.completed[e.message] = e.text]

(* The last completed write wins, and a blank one leaves no candidate.     *)
DecodeText(d, e) ==
  IF e.text = Partial THEN d
  ELSE [d EXCEPT !.completed[e.message] = IF e.text = Blank THEN None ELSE e.text]

InSession(d, e) == [d EXCEPT !.session = sessionOf[e.message]]

DecodeLine(d, e) ==
  IF \/ d.refused \/ e = Invalid
     \/ d.session # None /\ sessionOf[e.message] # d.session
  THEN Refused(d)
  ELSE LET b == InSession(d, e)
           c == [b EXCEPT !.activity = b.last # NoMessage]
       IN CASE e.type = "session.error" -> b
            [] e.type = "step_finish"   -> DecodeFinish(b, e)
            [] e.type = "text"          -> DecodeText(c, e)
            [] e.type = "other"         -> c

Candidates(d) == {m \in Messages : d.completed[m] # None}

(* A concluded step governs when there is one; without any, a lone         *)
(* candidate is trusted.                                                   *)
TerminalMessage(d) ==
  IF d.refused THEN NoMessage
  ELSE IF d.last # NoMessage
  THEN IF ~d.activity /\ d.reason # "tool-calls" /\ d.last \in Candidates(d)
       THEN d.last ELSE NoMessage
  ELSE IF Cardinality(Candidates(d)) = 1 THEN CHOOSE m \in Candidates(d) : TRUE
  ELSE NoMessage

NoTransport == [session |-> None, message |-> NoMessage, text |-> None]

DecodeRunTransport(out) ==
  LET d == FoldLeft(DecodeLine, Undecoded, out)
      m == TerminalMessage(d)
  IN IF Len(out) > NdjsonLimit \/ m = NoMessage THEN NoTransport
     ELSE [session |-> d.session, message |-> m, text |-> d.completed[m]]

-----------------------------------------------------------------------------
(* parse_agent_response.  A logical line belongs to a reserved family or is*)
(* opaque; a reserved line is canonical or malformed.                      *)

Roles == {"ARCHITECT", "CODER", "REVIEWER"}

Opaque == {[family |-> "opaque", value |-> v] : v \in {"prose", "blank"}}
FinalStatus == [family |-> "FINAL_STATUS", value |-> "any"]
AgentStatusLines == {[family |-> "AGENT_STATUS", value |-> v] :
                       v \in {"READY", "COMPLETED", "FAILED", "malformed"}}
ReviewStatusLines == {[family |-> "REVIEW_STATUS", value |-> v] :
                        v \in {"APPROVED", "CHANGES_REQUIRED", "malformed"}}
IssueRefLines == {[family |-> "ISSUE_REF_JSON", value |-> v] :
                    v \in {"ours", "another", "malformed"}}

LogicalLines == Opaque \cup {FinalStatus} \cup AgentStatusLines \cup ReviewStatusLines
                  \cup IssueRefLines

RoleAgentStatuses == [ARCHITECT |-> {"READY", "FAILED"}, CODER |-> {"COMPLETED", "FAILED"},
                      REVIEWER |-> {"FAILED"}]

Indexes(ls, families) == {i \in DOMAIN ls : ls[i].family \in families}
StatusFamilies == {"AGENT_STATUS", "REVIEW_STATUS"}

WellFormed(ls) ==
  /\ Indexes(ls, {"FINAL_STATUS"}) = {}
  /\ \A i \in DOMAIN ls : ls[i].value # "malformed"

MarkerAllowed(marker) ==
  IF marker.family = "AGENT_STATUS" THEN marker.value \in RoleAgentStatuses[role]
  ELSE role = "REVIEWER"

ArchitectReady(marker) == role = "ARCHITECT" /\ marker.value = "READY"

IssueRefAnywhere(ls, marker) ==  \* mutation
  LET refs == Indexes(ls, {"ISSUE_REF_JSON"})
  IN IF ArchitectReady(marker)
     THEN Cardinality(refs) = 1 /\ \A i \in refs : ls[i].value = "ours"
     ELSE refs = {}

(* At most one ISSUE_REF_JSON: right before an architect's READY, which    *)
(* asks for it, and naming the issue of the run.                           *)
IssueRefPlaced(ls, marker) ==
  LET refs == Indexes(ls, {"ISSUE_REF_JSON"})
  IN IF ArchitectReady(marker)
     THEN refs = {Len(ls) - 1} /\ ls[Len(ls) - 1].value = "ours"
     ELSE refs = {}

BodyPresent(ls, marker) ==
  LET end == IF ArchitectReady(marker) THEN Len(ls) - 2 ELSE Len(ls) - 1
  IN ArchitectReady(marker) \/ marker.value \in {"FAILED", "CHANGES_REQUIRED"}
       => \E i \in 1..end : ls[i].value = "prose"

ParseAgentResponse(ls) ==
  LET markers == Indexes(ls, StatusFamilies)
      marker  == Last(ls)
  IN IF /\ WellFormed(ls) /\ markers = {Len(ls)}
        /\ MarkerAllowed(marker) /\ IssueRefPlaced(ls, marker) /\ BodyPresent(ls, marker)
     THEN marker.value ELSE None

-----------------------------------------------------------------------------
(* verify_agent_identity, of the agents the export names.                  *)

ExportedAgents == {"requested", "another"}

AnyMessageVouches(agents) == "requested" \in agents  \* mutation

IdentityVerified(agents) == agents = {"requested"}

-----------------------------------------------------------------------------
Init ==
  /\ role \in Roles
  /\ plane \in RuleLists
  /\ sessionOf = [m \in Messages |-> None]
  /\ at = "recheck" /\ lines = <<>> /\ overflowed = FALSE
  /\ proc = NoResult /\ diag = None
  /\ transport = NoTransport /\ text = <<>> /\ response = None
  /\ author = [m \in Messages |-> None]

(* recheck_control_plane: the agent as OpenCode lists it now, against the  *)
(* one the preflight accepted.  The run of the child makes its sessions.   *)
RecheckControlPlane ==
  /\ at = "recheck"
  /\ plane' \in Listed(plane)
  /\ IF Canonical(plane') = Canonical(plane)
     THEN at' = "child" /\ sessionOf' \in [Messages -> Sessions]
     ELSE at' = "drift" /\ UNCHANGED sessionOf
  /\ UNCHANGED <<role, lines, overflowed, proc, diag, transport, text, response, author>>

(* A line arrives whole, or cut by the end of the child: then it is invalid*)
(* and the last.                                                           *)
ChildPrints ==
  /\ at = "child" /\ ~overflowed /\ Len(lines) < MaxLines
  /\ \E e \in Events : lines' = Append(lines, e)
  /\ UNCHANGED <<role, plane, sessionOf, at, overflowed, proc, diag, transport, text,
                 response, author>>

(* A chunk past the limit: nothing of it, and of what follows, is kept.    *)
CaptureOverflows ==
  /\ at = "child" /\ ~overflowed
  /\ overflowed' = TRUE
  /\ UNCHANGED <<role, plane, sessionOf, at, lines, proc, diag, transport, text, response,
                 author>>

(* A response is looked for only without a provider signal and a timeout.  *)
LookForResponse(signal, p) == signal = None /\ p.outcome # "TIMEOUT"

(* classify_provider_signal, and decode_run_output where a response is     *)
(* looked for; the captured bytes are not looked at again.                 *)
ChildEnds ==
  /\ at = "child"
  /\ proc' \in PossibleResults(TRUE, FALSE)
  /\ diag' = ClassifyProviderSignal(lines)
  /\ transport' = IF LookForResponse(diag', proc') /\ ~overflowed
                  THEN DecodeRunTransport(lines) ELSE NoTransport
  /\ at' = IF transport' = NoTransport THEN "report" ELSE "parse"
  /\ lines' = <<>> /\ overflowed' = FALSE
  /\ UNCHANGED <<role, plane, sessionOf, text, response, author>>

(* The lines of the terminal text, of which nothing was looked at so far.  *)
Parse ==
  /\ at = "parse"
  /\ \E n \in 1..MaxTextLines : text' \in [1..n -> LogicalLines]
  /\ response' = ParseAgentResponse(text')
  /\ at' = "verify"
  /\ UNCHANGED <<role, plane, sessionOf, lines, overflowed, proc, diag, transport, author>>

(* run_export_and_verify_identity of the decoded session: the export names *)
(* the author of every message of that session, printed or not; it may fail*)
(* or be of a shape that is refused.                                       *)
Verify ==
  /\ at = "verify"
  /\ \/ /\ author' \in [Messages -> ExportedAgents]
        /\ \E unseen \in SUBSET ExportedAgents :
             LET agents == unseen \cup
                   {author'[m] : m \in {n \in Messages : sessionOf[n] = transport.session}}
             IN response' = IF IdentityVerified(agents) THEN response ELSE None
     \/ response' = None /\ UNCHANGED author
  /\ at' = "report"
  /\ UNCHANGED <<role, plane, sessionOf, lines, overflowed, proc, diag, transport, text>>

(* A returned AgentResult, or a control plane that drifted.                *)
Over == at \in {"report", "drift"} /\ UNCHANGED vars

Next ==
  \/ RecheckControlPlane
  \/ ChildPrints \/ CaptureOverflows \/ ChildEnds \/ Parse \/ Verify \/ Over

Spec == Init /\ [][Next]_vars

-----------------------------------------------------------------------------
(* What a terminal text is, said of the whole stream instead of line by    *)
(* line: a stream the capture and the decoder let through.                 *)

Positions(type) == {i \in DOMAIN lines : lines[i].type = type}
CompletedAt(m) == {i \in Positions("text") : lines[i].message = m /\ lines[i].text # Partial}
Latest(S) == CHOOSE i \in S : \A j \in S : j <= i

Holds(m, x) == CompletedAt(m) # {} /\ lines[Latest(CompletedAt(m))].text = x /\ x \in Texts

Concluded(m) ==
  LET k == Latest(Positions("step_finish"))
  IN /\ lines[k] = [type |-> "step_finish", message |-> m, reason |-> "stop"]
     /\ \A i \in DOMAIN lines : i > k => lines[i].type = "session.error"

TerminalText(m, x) ==
  /\ Positions("invalid") = {} /\ ~overflowed /\ Len(lines) <= NdjsonLimit
  /\ Holds(m, x)
  /\ \A i \in DOMAIN lines : sessionOf[lines[i].message] = sessionOf[m]
  /\ IF Positions("step_finish") # {} THEN Concluded(m)
     ELSE \A n \in Messages, y \in Texts : Holds(n, y) => n = m

(* The sentences of agent-protocol/1: opaque lines, and at the end what the*)
(* role has to say.                                                        *)
Body == UNION {[1..n -> Opaque] : n \in 0..MaxTextLines - 1}
Prose == {b \in Body : \E i \in DOMAIN b : b[i].value = "prose"}
Agent(v) == <<[family |-> "AGENT_STATUS", value |-> v]>>
Review(v) == <<[family |-> "REVIEW_STATUS", value |-> v]>>
OurIssue == <<[family |-> "ISSUE_REF_JSON", value |-> "ours"]>>

Followed(bodies, end) == {b \o end : b \in bodies}

Sentences ==
  [READY     |-> IF role = "ARCHITECT" THEN Followed(Prose, OurIssue \o Agent("READY")) ELSE {},
   COMPLETED |-> IF role = "CODER" THEN Followed(Body, Agent("COMPLETED")) ELSE {},
   FAILED    |-> Followed(Prose, Agent("FAILED")),
   APPROVED  |-> IF role = "REVIEWER" THEN Followed(Body, Review("APPROVED")) ELSE {},
   CHANGES_REQUIRED |->
     IF role = "REVIEWER" THEN Followed(Prose, Review("CHANGES_REQUIRED")) ELSE {}]

-----------------------------------------------------------------------------
(* No agent runs under permissions other than those the preflight accepted,*)
(* as OpenCode reads them; and the order in which it happens to list grants*)
(* of unrelated directories ends no run.                                   *)
RecheckSeesThePolicy ==
  [][at = "recheck" =>
       /\ at' = "child" => Policy(plane') = Policy(plane)
       /\ SameButForNoise(plane, plane') => at' = "child"]_vars

(* The line-by-line decoder accepts a text exactly when, over a whole      *)
(* stream within its limits, it is the last word of the session: the       *)
(* message that concluded last, with nothing after it, or the only message *)
(* there is; and it returns what that message last held.                   *)
DecodedTextIsTerminal ==
  [][at = "child" /\ at' # at /\ diag' = None /\ proc'.outcome # "TIMEOUT" =>
       IF transport' = NoTransport THEN ~\E m \in Messages, x \in Texts : TerminalText(m, x)
       ELSE /\ TerminalText(transport'.message, transport'.text)
            /\ transport'.session = sessionOf[transport'.message]]_vars

(* The checks of the parser, in their order, accept exactly the sentences  *)
(* of the protocol, and read in each the status it states.                 *)
ResponseFollowsTheGrammar ==
  [][at = "parse" =>
       \A v \in DOMAIN Sentences : response' = v <=> text' \in Sentences[v]]_vars

(* A response the loop acts on (a success or a reported failure) was       *)
(* written by the agent that was asked, in a session where no other agent  *)
(* wrote, by a child that ended by itself, without a provider signal.      *)
ReportedTextIsTheAgentsOwn ==
  LET agent == [proc |-> proc, diag |-> diag, response |-> response]
  IN at = "report" /\ ClassifyAgentResult(agent) \in {"SUCCEEDED", "AGENT_REPORTED_FAILURE"} =>
       /\ sessionOf[transport.message] = transport.session
       /\ \A m \in Messages : sessionOf[m] = transport.session => author[m] = "requested"
       /\ proc.outcome = "SUCCEEDED" /\ diag = None
=============================================================================
