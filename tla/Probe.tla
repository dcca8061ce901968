-------------------------------- MODULE Probe --------------------------------
(***************************************************************************)
(* The capability probe, internal/probe/probe.go: which targets it reaches, *)
(* what it makes of an agent's answer and when a report passes.             *)
(***************************************************************************)
EXTENDS Naturals, Sequences, SequencesExt

CONSTANTS
  MaxResponseBytes,   \* 64 KiB
  MaxDetail           \* 200, the bytes of a detail that are kept

Status == {"pass", "fail", "unknown"}

\* A text by its name, its length, the bytes its characters start at, and whether
\* it is UTF-8: "broken" when it is not, "replaced" when an encoder put U+FFFD for
\* what was not.
Detail(name, bytes, starts) == [name |-> name, bytes |-> bytes, starts |-> starts, utf8 |-> "valid"]
Own(name) == Detail(name, 0, {})

Result(capability, status, detail) == [capability |-> capability, status |-> status, detail |-> detail]

\* endpoint, and validateProbeTarget at registration: the parts a target must and
\* must not have.
endpoint(url) ==
  /\ url.scheme = "https"
  /\ ~url.user
  /\ url.port
  /\ url.path \notin {"", "/"}
  /\ ~url.query

\* publicAddrs: every address the name resolves to must be routable, not only
\* the one that is dialled.
checkRoutable(addr) == addr = "public"
publicAddrs(addrs) == addrs # {} /\ \A a \in addrs : checkRoutable(a)

\* s[:n] + "..." counts bytes; a character that byte n lies in is cut in two.
truncate(s) ==
  [s EXCEPT !.bytes = MaxDetail + 3,
            !.starts = {i \in s.starts : i < MaxDetail} \cup {MaxDetail},
            !.utf8 = IF MaxDetail \in s.starts THEN s.utf8 ELSE "broken"]

\* The first result an agent reports for a capability is the one that counts;
\* capabilities it did not claim are dropped, a status the marketplace does not
\* know is unknown, and a long detail is cut.
normalise(got, claimed) ==
  LET Reported(c) == {i \in DOMAIN got : got[i].capability = c}
      First(c) == got[CHOOSE i \in Reported(c) : \A j \in Reported(c) : i <= j]
      Cut(d) == IF d.bytes > MaxDetail THEN truncate(d) ELSE d
      Of(c) == IF Reported(c) = {} THEN Result(c, "unknown", Own("not reported"))
               ELSE IF First(c).status \notin Status THEN Result(c, "unknown", Own("not recognised"))
               ELSE Result(c, First(c).status, Cut(First(c).detail))
  IN  [i \in DOMAIN claimed |-> Of(claimed[i])]

EndpointFailed(detail) == << Result("probe-endpoint", "fail", detail) >>

\* Run: {} is an error that nothing is recorded for, otherwise the results.  An
\* answer that is not the agent's live one is refused, one that is merely bad is
\* a failed probe; the status line of the response goes into it as it came.
Run(target, answer, agentID, claimed, challenge) ==
  IF ~endpoint(target) \/ ~publicAddrs(answer.addrs) THEN {}
  ELSE IF answer.code # 200 THEN {EndpointFailed(answer.statusLine)}
  ELSE IF answer.bytes > MaxResponseBytes THEN {EndpointFailed(Own("size limit"))}
  ELSE IF ~answer.schema THEN {EndpointFailed(Own("schema"))}
  ELSE IF answer.challenge # challenge THEN {}
  ELSE IF answer.agentID \notin {"", agentID} THEN {}
  ELSE {normalise(answer.results, claimed)}

Passed(results) ==
  results # <<>> /\ \A i \in DOMAIN results : results[i].status = "pass"
=============================================================================
