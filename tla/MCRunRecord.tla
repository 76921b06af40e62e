---------------------------- MODULE MCRunRecord -----------------------------
(***************************************************************************)
(* The reducer under any stream of events, and under the records that the  *)
(* three writers leave.  Each valid contract exercises one of the          *)
(* obligations and their interplay on at most two gates and two policies;  *)
(* the invalid ones are one per check of validate_contract.  The manifests *)
(* have one and two executed steps, required and optional; a Windows step  *)
(* with each kind of waive_reason; a reason on a step that does run here;  *)
(* and two that are refused.                                               *)
(***************************************************************************)
EXTENDS RunWriter

Gate(g, req, app) == [gate |-> g, requirement |-> req, applicability |-> app]
Policy(p, req, prot) ==
  [policy |-> p, artifact |-> "Policy", requirement |-> req, protects |-> prot]
Key(s, p) == [subject |-> s, policy |-> p]

Base == [NoContract EXCEPT !.agent = "Required"]

\* Everything at once, one of each.
Full == [Base EXCEPT
  !.gates = {Gate("g1", "Required", "Applicable")},
  !.policies = {Policy("p1", "Required", {"agent", "g1"})},
  !.sandbox = {Key("agent", "p1")},
  !.candidate = "v1"]
\* Two policies protect the agent: the cross-obligation rule for a non-start.
TwoProtectors == [Base EXCEPT
  !.gates = {Gate("g1", "Required", "Applicable")},
  !.policies = {Policy("p1", "Required", {"agent"}),
                Policy("p2", "Required", {"agent"})}]
\* A required gate beside an optional one; no agent; the verifier sandboxed.
TwoGates == [NoContract EXCEPT
  !.gates = {Gate("g1", "Required", "Applicable"),
             Gate("g2", "Optional", "Applicable")},
  !.policies = {Policy("p1", "Required", {"g1", "g2"})},
  !.sandbox = {Key("verifier", "p2")}]
\* An optional policy, and a gate whose sandbox evidence is required.
SandboxedGate == [NoContract EXCEPT
  !.gates = {Gate("g1", "Required", "Applicable")},
  !.policies = {Policy("p2", "Optional", {})},
  !.sandbox = {Key("g1", "p2"), Key("g1", "p1")}]
\* A required gate waived for this environment.
OneWaived == [Base EXCEPT
  !.gates = {Gate("g1", "Required", "Waived"),
             Gate("g2", "Required", "Applicable")}]

Invalid ==
  { [Base EXCEPT !.candidate = "unsupported"],
    [Base EXCEPT !.repeated = TRUE],
    [Base EXCEPT !.gates = {Gate("g1", "Required", "Applicable"),
                            Gate("g1", "Optional", "Applicable")}],
    [Base EXCEPT !.gates = {Gate("g1", "Required", "WaivedElsewhere")}],
    [Base EXCEPT !.gates = {Gate("g1", "Required", "WaivedBlank")}],
    [Base EXCEPT !.policies = {[Policy("p1", "Required", {}) EXCEPT
                                  !.artifact = "Diff"]}],
    [Base EXCEPT !.policies = {Policy("p1", "Required", {}),
                               Policy("p1", "Optional", {})}],
    [Base EXCEPT !.policies = {Policy("p1", "Optional", {"agent"})}],
    [NoContract EXCEPT !.policies = {Policy("p1", "Required", {"agent"})}],
    [Base EXCEPT !.policies = {Policy("p1", "Required", {"g1"})}],
    [NoContract EXCEPT !.sandbox = {Key("agent", "p1")}],
    [Base EXCEPT !.sandbox = {Key("g1", "p1")}],
    [OneWaived EXCEPT !.sandbox = {Key("g1", "p1")}] }

MCContracts == {NoContract, Full, TwoProtectors, TwoGates, SandboxedGate,
                OneWaived} \cup Invalid
Step(n, req, win, w) ==
  [name |-> n, log |-> n, required |-> req, windows |-> win, waive |-> w]

MCManifests ==
  { <<>>,
    <<Step("g1", TRUE, FALSE, "none"), Step("g2", FALSE, FALSE, "none")>>,
    <<Step("g1", TRUE, TRUE, "reason"), Step("g2", TRUE, FALSE, "reason")>>,
    <<Step("g1", TRUE, FALSE, "none"), Step("g2", TRUE, TRUE, "blank")>>,
    <<Step("g1", FALSE, TRUE, "none")>>,
    <<Step("g1", TRUE, FALSE, "none"), Step("g1", TRUE, FALSE, "none")>>,
    <<Step("g1", TRUE, FALSE, "none"),
      [Step("g2", TRUE, FALSE, "none") EXCEPT !.log = "g1"]>> }

\* A stream that nobody wrote: the events come in any order.
Stream == "stream"

StreamInit ==
  /\ Init
  /\ mode = Stream /\ manifest = <<>>
  /\ pc = 1 /\ alive = FALSE
  /\ steps = <<>> /\ emitted = 0 /\ open_gate = FALSE
  /\ outcome = "none" /\ session = FALSE /\ invoked = FALSE
  /\ attached = FALSE
  /\ disk = [f \in Files |-> "absent"]
  /\ torn = FALSE

StreamNext == mode = Stream /\ Next /\ UNCHANGED writer

RecordSpec ==
  /\ WriterInit \/ StreamInit
  /\ [][(mode \in Modes /\ WriterNext) \/ StreamNext]_allvars
=============================================================================
