----------------------------- MODULE InvokeCall -----------------------------
(***************************************************************************)
(* `o7 invoke` (src/invoke.rs, src/invoke_arliai.rs): calls that share one *)
(* --out directory, each a single question to a backend.  A command-line   *)
(* backend is a process group that is probed for its version, fed, drained *)
(* by reader threads and killed at a timeout; the HTTPS backend is one     *)
(* request.  The answer is classified and the run directory written file   *)
(* by file; a call may be killed between any two steps.                    *)
(*                                                                         *)
(* A process group is its leader, which o7 started, and one descendant     *)
(* that may hold the leader's output pipe and may leave the group.         *)
(***************************************************************************)
EXTENDS Naturals

CONSTANTS
    Calls,      \* invocations of `o7 invoke` with the same --out
    Absent,     \* no such file, no such process, no answer yet
    MaxKills    \* how many of the calls may be killed

\* Nothing is no call, and no word that is compared with it.
ASSUME AbsentIsNothing ==
    Absent \notin Calls \cup {"live", "valid", "violates", "PASS", "FAIL_SCHEMA"}

Backends == {"claude", "codex", "arliai"}
Files == {"prompt.txt", "stdout.raw", "stderr.log", "result.json", "meta.json"}

\* The API keys of the environment o7 was started in, of which the HTTPS backend
\* needs one; strip_provider_api_keys is what a backend's process inherits.
ProviderKeys == {"ARLIAI_API_KEY"}
strip_provider_api_keys(env) == env \ ProviderKeys

\* How a text holds the key: not at all, byte for byte, with JSON escapes that a
\* parser undoes, or in a form no parser undoes (base64, hex, a split).
Echoes == {"none", "verbatim", "escaped", "encoded"}

\* What a finished backend process said: whether it exited with code 0 (1 stands
\* for every other code and for a signal), what the text of its answer amounts
\* to, and how it printed a key.  A marker only counts in a failed call, of which
\* nothing else is looked at: there "valid" stands for every text without one.
Spoken(env) ==
    {s \in [exit : {0, 1}, text : {"valid", "violates", "garbage", "auth", "usage"},
             echo : {"none"} \cup {e \in Echoes : env \cap ProviderKeys # {}}] :
       s.text \in IF s.exit = 0 THEN {"valid", "violates", "garbage"} ELSE {"valid", "auth", "usage"}}

\* ArliOutcome; a status is the class classify_arli tells apart, "rest" every
\* one that blames the provider.  In a body that is never stored the form of an
\* echo makes no difference: it is verbatim.
HttpStatuses == {"2xx", "401", "402", "408", "rest"}
ArliOutcomes ==
    [kind : {"TimedOut", "Redirect", "Transport", "TooLarge"}, echo : {"none"}, text : {"garbage"}]
    \cup [kind : HttpStatuses \ {"2xx"}, echo : {"none", "verbatim"}, text : {"garbage"}]
    \cup [kind : {"2xx"}, echo : Echoes, text : {"valid", "violates", "garbage"}]

VARIABLES
    pc,         \* where each call is
    backend,    \* its --engine
    leader,     \* the process it started: Absent, "live", "dead"
    kid,        \* its descendant: Absent, "live", "escaped", "dead"
    said,       \* Spoken, or an ArliOutcome, or Absent
    timedOut,
    status,     \* the InvokeStatus, Absent before the classification
    value,      \* the JSON value that was extracted: "valid", "violates", Absent
    out,        \* the run directory: each file's writer and how it holds the key
    raced,      \* two calls found the directory empty before either wrote to it
    kills

procVars == <<leader, kid>>
callVars == <<backend, said, timedOut, status, value>>
vars == <<pc, procVars, callVars, out, raced, kills>>

Ended == {"refused", "error", "pass", "fail", "killed"}

-----------------------------------------------------------------------------
Set(f, c, v) == f' = [f EXCEPT ![c] = v]

Goto(c, step) == Set(pc, c, step)

\* A file written by a call: how it holds the credential, and the call's status,
\* which meta.json has.
Write(c, file, key) == out' = [out EXCEPT ![file] = [by |-> c, key |-> key, status |-> status[c]]]

\* A write that failed halfway: the file is there, with some or none of its bytes.
Tear(c, file, key) == out' = [out EXCEPT ![file] = [by |-> c, key |-> key, status |-> Absent]]

NotWritten == [by |-> Absent, key |-> "none", status |-> Absent]

-----------------------------------------------------------------------------
\* run and prepare

\* An unknown engine or profile is refused; so is the HTTPS backend without a
\* model, without a key, or under wire tracing, before anything is written.
Run(c, b) ==
    /\ pc[c] = "idle"
    /\ Set(backend, c, b)
    /\ Goto(c, "empty") \/ Goto(c, "refused")
    /\ UNCHANGED <<procVars, said, timedOut, status, value, out, raced, kills>>

\* Mutant: a directory with files in it is good enough.
ensure_empty_out_bug(c) ==
    /\ pc[c] = "empty"
    /\ Goto(c, "inputs")
    /\ UNCHANGED <<procVars, callVars, out, raced, kills>>

\* ensure_empty_out
ensure_empty_out(c) ==
    /\ pc[c] = "empty"
    /\ \/ /\ \E f \in Files : out[f] # NotWritten
          /\ Goto(c, "refused")
          /\ UNCHANGED raced
       \/ /\ \A f \in Files : out[f] = NotWritten
          /\ Goto(c, "inputs")
          /\ raced' = (raced \/ \E d \in Calls \ {c} : pc[d] \in {"inputs"})
    /\ UNCHANGED <<procVars, callVars, out, kills>>

\* The prompt, the schema and the input manifest are read, then prompt.txt is
\* written; any of it may fail.
prepare(c) ==
    /\ pc[c] = "inputs"
    /\ \/ Goto(c, "error") /\ UNCHANGED out
       \/ Write(c, "prompt.txt", "none") /\ Goto(c, "error")
       \/ /\ Write(c, "prompt.txt", "none")
          /\ Goto(c, IF backend[c] = "arliai" THEN "request" ELSE "probe")
    /\ UNCHANGED <<procVars, callVars, raced, kills>>

-----------------------------------------------------------------------------
\* A process group

Holders(c) == {p \in {leader[c], kid[c]} : p \in {"live", "escaped"}}

\* The leader may start a descendant that inherits its pipes.
ChildForks(c) ==
    /\ leader[c] = "live" /\ kid[c] = Absent
    /\ Set(kid, c, "live")
    /\ UNCHANGED <<pc, leader, callVars, out, raced, kills>>

\* A descendant makes a session of its own: a signal to the group misses it.
KidEscapes(c) ==
    /\ kid[c] = "live"
    /\ Set(kid, c, "escaped")
    /\ UNCHANGED <<pc, leader, callVars, out, raced, kills>>

KidExits(c) ==
    /\ kid[c] \in {"live", "escaped"}
    /\ Set(kid, c, "dead")
    /\ UNCHANGED <<pc, leader, callVars, out, raced, kills>>

\* The leader exits, with what it said on its own.
ChildExits(c) ==
    /\ leader[c] = "live"
    /\ Set(leader, c, "dead")
    /\ IF pc[c] = "probing" THEN UNCHANGED said ELSE \E s \in Spoken(strip_provider_api_keys(ProviderKeys)) : Set(said, c, s)
    /\ UNCHANGED <<pc, kid, backend, timedOut, status, value, out, raced, kills>>

\* A fresh process, or none: the descendant of an earlier one is not its own.
Spawned(c, step) ==
    /\ Set(leader, c, "live")
    /\ Set(kid, c, Absent)
    /\ Goto(c, step)

\* The processes are gone, or live on and have no part in what follows.
Forgotten(c) == Set(leader, c, Absent) /\ Set(kid, c, Absent)

\* detect_version: the probe is polled for five seconds, killed alone when it
\* takes longer, and read to the end of its pipe when it exits.
ProbeStarts(c) ==
    /\ pc[c] = "probe"
    /\ \/ Spawned(c, "probing")
       \/ Goto(c, "spawn") /\ UNCHANGED procVars
    /\ UNCHANGED <<callVars, out, raced, kills>>

ProbePolls(c) ==
    /\ pc[c] = "probing"
    /\ \/ leader[c] = "dead" /\ Goto(c, "version") /\ UNCHANGED procVars
       \/ Goto(c, "spawn") /\ Forgotten(c)
    /\ UNCHANGED <<callVars, out, raced, kills>>

ProbeRead(c) ==
    /\ pc[c] = "version" /\ Holders(c) = {}
    /\ Goto(c, "spawn") /\ Forgotten(c)
    /\ UNCHANGED <<callVars, out, raced, kills>>

\* spawn_with_timeout: the backend starts in a group of its own, is not
\* installed, or cannot be started.
SpawnBackend(c) ==
    /\ pc[c] = "spawn"
    /\ \/ /\ Spawned(c, "polling")
          /\ UNCHANGED status
       \/ /\ Goto(c, "streams")
          /\ Set(status, c, "BLOCKED_NOT_INSTALLED")
          /\ UNCHANGED procVars
       \/ /\ Goto(c, "error")
          /\ UNCHANGED <<procVars, status>>
    /\ UNCHANGED <<backend, said, timedOut, value, out, raced, kills>>

\* The poll loop sees the exit; the group is left as it is.
PollExit(c) ==
    /\ pc[c] = "polling" /\ leader[c] = "dead"
    /\ Goto(c, "join")
    /\ UNCHANGED <<procVars, callVars, out, raced, kills>>

\* Mutant: only the direct child is killed.
PollTimeout_bug(c) ==
    /\ pc[c] = "polling"
    /\ Set(timedOut, c, TRUE)
    /\ Set(leader, c, "dead")
    /\ Goto(c, "join")
    /\ UNCHANGED <<kid, backend, said, status, value, out, raced, kills>>

\* The timeout: the whole group is killed and the leader reaped, even when it
\* has exited since it was last looked at.
PollTimeout(c) ==
    /\ pc[c] = "polling"
    /\ Set(timedOut, c, TRUE)
    /\ Set(leader, c, "dead")
    /\ Set(kid, c, IF kid[c] = "live" THEN "dead" ELSE kid[c])
    /\ Goto(c, "join")
    /\ UNCHANGED <<backend, said, status, value, out, raced, kills>>

\* What RawCall holds of a call that was not killed.  call_claude takes the
\* answer from the pipe; call_codex discards the pipe and reads the file codex
\* was told to write its last message to, which may not be there.
call_claude(s) == {s.text}
call_codex(s)  == {s.text, "garbage"}

\* extract_final_json: the JSON value in a text, one of the two shapes that
\* parse_claude_result_payload accepts.
extract_final_json(text) == IF text \in {"valid", "violates"} THEN text ELSE Absent

\* classify_extracted
classify_extracted(v) ==
    CASE v = Absent -> "FAIL_INVALID_OUTPUT"
      [] v = "valid" -> "PASS"
      [] v = "violates" -> "FAIL_SCHEMA"

\* run_cli's order for a call that was not killed: a marker in a failed call's
\* output (stderr, which both engines have, included), then its exit code, then
\* its answer.
classify_cli(s, text) ==
    CASE s.exit # 0 /\ s.text = "auth" -> "BLOCKED_AUTH"
      [] s.exit # 0 /\ s.text = "usage" -> "BLOCKED_USAGE"
      [] s.exit # 0 /\ s.text \notin {"auth", "usage"} -> "FAIL_INVALID_OUTPUT"
      [] s.exit = 0 -> classify_extracted(extract_final_json(text))

\* The writer and the reader threads are joined, which takes the end of both
\* pipes; the call is then classified, a timeout first.
Join(c) ==
    /\ pc[c] = "join" /\ Holders(c) = {}
    /\ \/ /\ timedOut[c]
          /\ Set(status, c, "BLOCKED_TIMEOUT")
          /\ UNCHANGED value
       \/ /\ ~timedOut[c]
          /\ \E text \in IF backend[c] = "claude" THEN call_claude(said[c]) ELSE call_codex(said[c]) :
               LET st == classify_cli(said[c], text)
               IN  /\ Set(status, c, st)
                   /\ Set(value, c, IF st \in {"PASS", "FAIL_SCHEMA"} THEN text ELSE Absent)
    /\ Goto(c, "streams")
    /\ Forgotten(c)
    /\ UNCHANGED <<backend, said, timedOut, out, raced, kills>>

-----------------------------------------------------------------------------
\* The HTTPS backend

\* One request within its global timeout: no redirect is followed, the body is
\* bounded, every HTTP status comes back as a status.
CallUrl(c) ==
    /\ pc[c] = "request"
    /\ \E o \in ArliOutcomes : Set(said, c, o)
    /\ Goto(c, "classify")
    /\ UNCHANGED <<procVars, backend, timedOut, status, value, out, raced, kills>>

\* contains_subslice compares bytes: the response was a success and its body, as it
\* came, holds the request's credential verbatim.
credential_reflected(o) == o.kind = "2xx" /\ o.echo = "verbatim"

\* classify_arli
classify_arli(o) ==
    CASE o.kind \in {"TimedOut", "408"} -> "BLOCKED_TIMEOUT"
      [] o.kind = "401" -> "BLOCKED_AUTH"
      [] o.kind = "402" -> "BLOCKED_USAGE"
      [] o.kind = "2xx" -> classify_extracted(extract_final_json(o.text))
      [] OTHER -> "BLOCKED_PROVIDER"

ClassifyArli(c) ==
    /\ pc[c] = "classify"
    /\ LET st == IF credential_reflected(said[c]) THEN "BLOCKED_PROVIDER"
                 ELSE classify_arli(said[c])
       IN  /\ Set(status, c, st)
           /\ Set(value, c, IF st \in {"PASS", "FAIL_SCHEMA"} THEN said[c].text ELSE Absent)
    /\ Goto(c, "streams")
    /\ UNCHANGED <<procVars, backend, said, timedOut, out, raced, kills>>

\* Mutant: the body of a failed request is kept for diagnosis.
arli_run_dir_evidence_bug(o) == o.echo

\* arli_run_dir_evidence: how the body that stdout.raw gets holds the key.  The
\* body of a success is stored byte for byte, no other body is.
arli_run_dir_evidence(o) == IF o.kind = "2xx" THEN o.echo ELSE "none"

\* How a value parsed from a text with such an echo holds the key (extract_content
\* and parse_claude_result_payload): decoding undoes the escapes, and the echo may
\* lie outside the value.
Decoded(echo) == {"none", IF echo = "escaped" THEN "verbatim" ELSE echo}

-----------------------------------------------------------------------------
\* The run directory, one file after another; a failed write ends the call

Writes(c, from, to, file, key) ==
    /\ pc[c] = from
    /\ \/ Write(c, file, key) /\ Goto(c, to)
       \/ UNCHANGED out /\ Goto(c, "error")
       \/ Tear(c, file, key) /\ Goto(c, "error")
    /\ UNCHANGED <<procVars, callVars, raced, kills>>

\* A refused response leaves no body.
WriteStdout(c) ==
    Writes(c, "streams", "stderr", "stdout.raw",
           CASE said[c] = Absent -> "none"
             [] said[c] # Absent /\ backend[c] # "arliai" -> said[c].echo
             [] said[c] # Absent /\ backend[c] = "arliai" ->
                  IF credential_reflected(said[c]) THEN "none"
                  ELSE arli_run_dir_evidence(said[c]))

\* What a process printed, or a message that o7 composed.
WriteStderr(c) ==
    Writes(c, "stderr", IF value[c] = Absent THEN "meta" ELSE "result", "stderr.log",
           IF said[c] = Absent \/ backend[c] = "arliai" THEN "none" ELSE said[c].echo)

\* The value that was extracted, serialised anew.
WriteResult(c) ==
    /\ pc[c] = "result"
    /\ \E key \in Decoded(said[c].echo) : Writes(c, "result", "meta", "result.json", key)

\* write_meta is the last write, and the exit code tells PASS from the rest.
WriteMeta(c) ==
    Writes(c, "meta", IF status[c] = "PASS" THEN "pass" ELSE "fail", "meta.json", "none")

-----------------------------------------------------------------------------
\* The call itself is killed; what it wrote stays.  The processes it started may
\* live on, and write to no file of the directory.
Killed(c) ==
    /\ pc[c] \notin Ended \cup {"idle"} /\ kills < MaxKills
    /\ kills' = kills + 1
    /\ Goto(c, "killed")
    /\ Forgotten(c)
    /\ UNCHANGED <<callVars, out, raced>>

Init ==
    /\ pc = [c \in Calls |-> "idle"]
    /\ backend = [c \in Calls |-> "claude"]
    /\ leader = [c \in Calls |-> Absent] /\ kid = [c \in Calls |-> Absent]
    /\ said = [c \in Calls |-> Absent]
    /\ timedOut = [c \in Calls |-> FALSE]
    /\ status = [c \in Calls |-> Absent] /\ value = [c \in Calls |-> Absent]
    /\ out = [f \in Files |-> NotWritten]
    /\ raced = FALSE /\ kills = 0

\* o7's own steps, and those of the processes around it.
Step(c) ==
    \/ ensure_empty_out(c) \/ prepare(c)
    \/ ProbeStarts(c) \/ ProbePolls(c) \/ ProbeRead(c) \/ SpawnBackend(c)
    \/ PollExit(c) \/ PollTimeout(c) \/ Join(c)
    \/ CallUrl(c) \/ ClassifyArli(c)
    \/ WriteStdout(c) \/ WriteStderr(c) \/ WriteResult(c) \/ WriteMeta(c)

Child(c) == ChildForks(c) \/ KidEscapes(c) \/ KidExits(c) \/ ChildExits(c)

Next == \E c \in Calls : Step(c) \/ Child(c) \/ Killed(c) \/ \E b \in Backends : Run(c, b)

\* A call that can go on does; nothing is assumed of the processes it started.
Spec == Init /\ [][Next]_vars /\ \A c \in Calls : WF_vars(Step(c))

-----------------------------------------------------------------------------
\* Properties

\* A run directory with a complete meta.json is one call's: no result.json of an
\* earlier call lies beside the status of a later one, and PASS stands beside a
\* result that satisfies the schema and came from a call that ended by itself, in
\* time and with success.  It is not so of two calls that both found the directory
\* empty before either wrote to it: ensure_empty_out takes no lock, and `raced`
\* excepts what they write over each other.
RunDirIsOneCall ==
    LET m == out["meta.json"]
    IN  m.status # Absent /\ ~raced =>
          /\ \A f \in Files : out[f] = NotWritten \/ out[f].by = m.by
          /\ out["result.json"] # NotWritten <=> m.status \in {"PASS", "FAIL_SCHEMA"}
          /\ m.status = "PASS" =>
               /\ value[m.by] = "valid" /\ ~timedOut[m.by]
               /\ \/ backend[m.by] # "arliai" /\ said[m.by].exit = 0
                  \/ backend[m.by] = "arliai" /\ said[m.by].kind = "2xx"

\* The request's credential reaches the run directory only as docs/o7-invoke.md
\* says it may: never from a command-line backend, never from the body of a
\* response that is no success, never from one that holds it verbatim.  What is
\* left is a successful body that holds it in another form; stdout.raw then has
\* that form, and result.json the decoded one.
CredentialContained ==
    /\ out["stdout.raw"].key # "verbatim"
    /\ \A f \in Files : out[f].key # "none" =>
         LET c == out[f].by
         IN  /\ f \in {"stdout.raw", "result.json"} /\ backend[c] = "arliai"
             /\ said[c].kind = "2xx" /\ said[c].echo \in {"escaped", "encoded"}

\* A call that timed out returns, also when the backend left a descendant with
\* the pipes open: the whole group is killed before the threads are joined.
KillEndsCall ==
    []<>(\A c \in Calls : ~(pc[c] = "join" /\ timedOut[c] /\ kid[c] # "escaped"))

=============================================================================
