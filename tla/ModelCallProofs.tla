-------------------------- MODULE ModelCallProofs ---------------------------
(***************************************************************************)
(* The two commands that ask a model on their own, `o7 invoke` and         *)
(* `o7 judge`: what the run directory of the one and the overlay of the    *)
(* other hold, for every number of calls, workers, files and findings.     *)
(*                                                                         *)
(* o7 invoke.  A call that finds the directory empty while no other is     *)
(* about to write owns it from then on: whoever goes on has written        *)
(* prompt.txt itself, and all the other files are of the same hand         *)
(* (Owned).  What it has written is what the steps behind it write         *)
(* (Progress); the status and the value it writes are those of one answer  *)
(* (Classified), which its own backend gave before it was reaped (Heard).  *)
(* What a file holds of the key is what that answer held of it (Contained).*)
(*                                                                         *)
(* o7 judge.  Every file that was handed out is with one worker or was     *)
(* sent once (Accounts), so when the workers have left and the channel is  *)
(* empty each file has one result.  A result is a skip or what was made of *)
(* an answer (Answered), and what is made of one only says something of    *)
(* the findings of its own file unless it is of the wrong length; what the *)
(* merge overwrites can therefore not be such a finding's verdict.         *)
(***************************************************************************)
EXTENDS InvokeCall, JudgePool, FiniteSetTheorems, SequenceTheorems, TLAPS

-----------------------------------------------------------------------------
(* The invariant *)

\* The steps of a command-line backend, of the HTTPS backend, of the run
\* directory, and the ends that write_meta leads to.
Cli == {"probe", "probing", "version", "spawn", "polling", "join"}
Https == {"request", "classify"}
Filing == {"streams", "stderr", "result", "meta"}
Done == {"pass", "fail"}

\* A call that has nothing of its own in the directory yet, or never will, ...
Before == {"idle", "empty", "inputs"}

\* ... and one whose prompt.txt is there.
Beyond == Cli \cup Https \cup Filing \cup Done

\* What a backend's process may have said.
Heeded == Spoken(strip_provider_api_keys(ProviderKeys))

\* The statuses that come with a value.
Valued == {"PASS", "FAIL_SCHEMA"}

Types ==
    /\ pc \in [Calls -> Before \cup Beyond \cup Ended]
    /\ backend \in [Calls -> Backends]
    /\ leader \in [Calls -> {Absent, "live", "dead"}]
    /\ timedOut \in [Calls -> BOOLEAN]
    /\ DOMAIN said = Calls /\ DOMAIN status = Calls /\ DOMAIN value = Calls
    /\ raced \in BOOLEAN

\* Every file of the directory is some call's.
Signed ==
    /\ DOMAIN out = Files
    /\ \A f \in Files : out[f] # NotWritten => out[f].by \in Calls

\* A call hears what its own kind of backend says, and a backend that was not
\* stopped has said it when it is reaped.
Heard ==
    \A c \in Calls :
        /\ pc[c] = "idle" => said[c] = Absent
        /\ backend[c] = "arliai" =>
             said[c] \in {Absent} \cup ArliOutcomes /\ pc[c] \notin Cli
        /\ backend[c] # "arliai" =>
             said[c] \in {Absent} \cup Heeded /\ pc[c] \notin Https
        /\ leader[c] = "live" => pc[c] \in {"probing", "polling"}
        /\ pc[c] = "classify" => said[c] \in ArliOutcomes
        /\ pc[c] = "polling" /\ leader[c] = "dead" => said[c] \in Heeded
        /\ pc[c] = "join" /\ ~timedOut[c] => said[c] \in Heeded
        /\ timedOut[c] => pc[c] \in {"join"} \cup Filing \cup Ended

\* A PASS is the verdict on an answer that came in time and with success.
Earned(c) ==
    /\ value[c] = "valid" /\ ~timedOut[c]
    /\ \/ backend[c] # "arliai" /\ said[c].exit = 0
       \/ backend[c] = "arliai" /\ said[c].kind = "2xx"

\* Status and value are given together, once.
Classified ==
    \A c \in Calls :
        /\ pc[c] \notin Filing \cup Ended => status[c] = Absent /\ value[c] = Absent
        /\ status[c] \in Valued <=> value[c] # Absent
        /\ pc[c] = "result" => value[c] # Absent
        /\ status[c] = "PASS" => Earned(c)
        /\ value[c] # Absent =>
             \/ backend[c] # "arliai" /\ said[c] \in Heeded
             \/ /\ backend[c] = "arliai" /\ said[c] \in ArliOutcomes
                /\ said[c].kind = "2xx" /\ said[c].echo # "verbatim"

\* Whoever goes on owns the directory.
Owned ==
    /\ \A c, d \in Calls : pc[c] = "inputs" /\ pc[d] = "inputs" => c = d
    /\ \A c \in Calls : pc[c] = "inputs" => \A f \in Files : out[f] = NotWritten
    /\ \A c \in Calls : pc[c] \in Beyond => out["prompt.txt"].by = c
    /\ \A f \in Files : out[f] # NotWritten => out[f].by = out["prompt.txt"].by

\* What the owner has written is what lies behind it.
Progress ==
    /\ \A c \in Calls :
         /\ pc[c] \in Beyond \ Done => out["meta.json"] = NotWritten
         /\ pc[c] \in Beyond \ (Done \cup {"meta"}) => out["result.json"] = NotWritten
         /\ pc[c] = "meta" => (out["result.json"] # NotWritten <=> value[c] # Absent)
    /\ LET m == out["meta.json"]
       IN  m.status # Absent =>
             /\ pc[m.by] \in Done /\ m.status = status[m.by]
             /\ out["result.json"] # NotWritten <=> value[m.by] # Absent

\* What a call may put into a file of the key: what is left of the answer it has.
Holds(c, f, key) ==
    /\ key # "none" =>
         /\ f \in {"stdout.raw", "result.json"} /\ backend[c] = "arliai"
         /\ said[c].kind = "2xx" /\ said[c].echo \in {"escaped", "encoded"}
         /\ pc[c] \in Filing \cup Ended
    /\ f = "stdout.raw" => key # "verbatim"

\* Each file holds no more of it.
Contained == \A f \in Files : Holds(out[f].by, f, out[f].key)

Inv == /\ Types /\ Heard /\ Classified /\ Signed /\ Contained
       /\ ~raced => Owned /\ Progress

\* Nothing has happened and nothing is written.
LEMMA InitInv == Init => Inv
<1> SUFFICES ASSUME Init PROVE Inv
  OBVIOUS
<1> USE AbsentIsNothing DEF Init
<1>1. Types /\ Heard
  BY DEF Types, Heard, Backends, Before, Beyond, Cli, Https, Filing, Done, Ended
<1>2. Classified
  BY DEF Classified, Valued, Filing, Ended
<1>3. Signed /\ Contained
  BY DEF Signed, Contained, Holds, NotWritten
<1>4. Owned /\ Progress
  BY DEF Owned, Progress, Before, Beyond, Cli, Https, Filing, Done, Ended, Files, NotWritten
<1> QED
  BY <1>1, <1>2, <1>3, <1>4 DEF Inv

\* Types are kept.
LEMMA NextTypes ==
    ASSUME Inv, NEW c \in Calls,
           Step(c) \/ Child(c) \/ Killed(c) \/ \E b \in Backends : Run(c, b)
    PROVE  Types'
<1> USE AbsentIsNothing DEF Set, Goto, procVars, callVars
<1>1. ASSUME NEW b \in Backends, Run(c, b) PROVE Types'
  BY <1>1 DEF Inv, Types, Before, Beyond, Cli, Https, Filing, Done, Ended, Backends, Run
<1>2. CASE ensure_empty_out(c)
  BY <1>2, ZenonT(40) DEF Inv, Types,
     Before, Beyond, Cli, Https, Filing, Done, Ended, Backends, ensure_empty_out
<1>3. CASE prepare(c)
  BY <1>3 DEF Inv, Types,
     Before, Beyond, Cli, Https, Filing, Done, Ended, Backends, Write, prepare
<1>4. CASE ProbeStarts(c)
  BY <1>4 DEF Inv, Types,
     Before, Beyond, Cli, Https, Filing, Done, Ended, Backends, Spawned, ProbeStarts
<1>5. CASE ProbePolls(c)
  BY <1>5 DEF Inv, Types,
     Before, Beyond, Cli, Https, Filing, Done, Ended, Backends, Forgotten, ProbePolls
<1>6. CASE ProbeRead(c)
  BY <1>6 DEF Inv, Types,
     Before, Beyond, Cli, Https, Filing, Done, Ended, Backends, Forgotten, ProbeRead
<1>7. CASE SpawnBackend(c)
  BY <1>7 DEF Inv, Types,
     Before, Beyond, Cli, Https, Filing, Done, Ended, Backends, Spawned, SpawnBackend
<1>8. CASE PollExit(c)
  BY <1>8 DEF Inv, Types,
     Before, Beyond, Cli, Https, Filing, Done, Ended, Backends, PollExit
<1>9. CASE PollTimeout(c)
  BY <1>9 DEF Inv, Types,
     Before, Beyond, Cli, Https, Filing, Done, Ended, Backends, PollTimeout
<1>10. CASE Join(c)
  BY <1>10 DEF Inv, Types,
     Before, Beyond, Cli, Https, Filing, Done, Ended, Backends, Forgotten, Join
<1>11. CASE CallUrl(c)
  BY <1>11 DEF Inv, Types,
     Before, Beyond, Cli, Https, Filing, Done, Ended, Backends, CallUrl
<1>12. CASE ClassifyArli(c)
  BY <1>12 DEF Inv, Types,
     Before, Beyond, Cli, Https, Filing, Done, Ended, Backends, ClassifyArli
<1>13. CASE WriteStdout(c)
  BY <1>13 DEF Inv, Types,
     Before, Beyond, Cli, Https, Filing, Done, Ended, Backends, Writes, Write, WriteStdout
<1>14. CASE WriteStderr(c)
  BY <1>14 DEF Inv, Types,
     Before, Beyond, Cli, Https, Filing, Done, Ended, Backends, Writes, Write, WriteStderr
<1>15. CASE WriteResult(c)
  BY <1>15 DEF Inv, Types,
     Before, Beyond, Cli, Https, Filing, Done, Ended, Backends, Writes, Write, WriteResult
<1>16. CASE WriteMeta(c)
  BY <1>16 DEF Inv, Types,
     Before, Beyond, Cli, Https, Filing, Done, Ended, Backends, Writes, Write, WriteMeta
<1>17. CASE ChildForks(c)
  BY <1>17 DEF Inv, Types,
     Before, Beyond, Cli, Https, Filing, Done, Ended, Backends, ChildForks
<1>18. CASE KidEscapes(c)
  BY <1>18 DEF Inv, Types,
     Before, Beyond, Cli, Https, Filing, Done, Ended, Backends, KidEscapes
<1>19. CASE KidExits(c)
  BY <1>19 DEF Inv, Types,
     Before, Beyond, Cli, Https, Filing, Done, Ended, Backends, KidExits
<1>20. CASE ChildExits(c)
  BY <1>20 DEF Inv, Types,
     Before, Beyond, Cli, Https, Filing, Done, Ended, Backends, ChildExits
<1>21. CASE Killed(c)
  BY <1>21 DEF Inv, Types,
     Before, Beyond, Cli, Https, Filing, Done, Ended, Backends, Forgotten, Killed
<1> QED
  BY <1>1, <1>2, <1>3, <1>4, <1>5, <1>6, <1>7, <1>8, <1>9, <1>10, <1>11, <1>12, <1>13,
     <1>14, <1>15, <1>16, <1>17, <1>18, <1>19, <1>20, <1>21 DEF Step, Child

\* What a call has heard is its own backend's answer, and comes before the end.
LEMMA NextHeard ==
    ASSUME Inv, NEW c \in Calls,
           Step(c) \/ Child(c) \/ Killed(c) \/ \E b \in Backends : Run(c, b)
    PROVE  Heard'
<1> USE AbsentIsNothing DEF Set, Goto, procVars, callVars
<1>1. ASSUME NEW b \in Backends, Run(c, b) PROVE Heard'
  BY <1>1 DEF Inv, Types, Heard,
     Before, Beyond, Cli, Https, Filing, Done, Ended, Backends, Run
<1>2. CASE ensure_empty_out(c)
  BY <1>2 DEF Inv, Types, Heard,
     Before, Beyond, Cli, Https, Filing, Done, Ended, Backends, ensure_empty_out
<1>3. CASE prepare(c)
  BY <1>3 DEF Inv, Types, Heard,
     Before, Beyond, Cli, Https, Filing, Done, Ended, Backends, Write, prepare
<1>4. CASE ProbeStarts(c)
  BY <1>4 DEF Inv, Types, Heard,
     Before, Beyond, Cli, Https, Filing, Done, Ended, Backends, Spawned, ProbeStarts
<1>5. CASE ProbePolls(c)
  BY <1>5 DEF Inv, Types, Heard,
     Before, Beyond, Cli, Https, Filing, Done, Ended, Backends, Forgotten, ProbePolls
<1>6. CASE ProbeRead(c)
  BY <1>6 DEF Inv, Types, Heard,
     Before, Beyond, Cli, Https, Filing, Done, Ended, Backends, Forgotten, ProbeRead
<1>7. CASE SpawnBackend(c)
  BY <1>7 DEF Inv, Types, Heard,
     Before, Beyond, Cli, Https, Filing, Done, Ended, Backends, Spawned, SpawnBackend
<1>8. CASE PollExit(c)
  BY <1>8 DEF Inv, Types, Heard,
     Before, Beyond, Cli, Https, Filing, Done, Ended, Backends, PollExit
<1>9. CASE PollTimeout(c)
  BY <1>9 DEF Inv, Types, Heard,
     Before, Beyond, Cli, Https, Filing, Done, Ended, Backends, PollTimeout
<1>10. CASE Join(c)
  BY <1>10 DEF Inv, Types, Heard,
     Before, Beyond, Cli, Https, Filing, Done, Ended, Backends, Forgotten, Join
<1>11. CASE CallUrl(c)
  BY <1>11 DEF Inv, Types, Heard,
     Before, Beyond, Cli, Https, Filing, Done, Ended, Backends, CallUrl
<1>12. CASE ClassifyArli(c)
  BY <1>12 DEF Inv, Types, Heard,
     Before, Beyond, Cli, Https, Filing, Done, Ended, Backends, ClassifyArli
<1>13. CASE WriteStdout(c)
  BY <1>13 DEF Inv, Types, Heard,
     Before, Beyond, Cli, Https, Filing, Done, Ended, Backends, Writes, Write, WriteStdout
<1>14. CASE WriteStderr(c)
  BY <1>14 DEF Inv, Types, Heard,
     Before, Beyond, Cli, Https, Filing, Done, Ended, Backends, Writes, Write, WriteStderr
<1>15. CASE WriteResult(c)
  BY <1>15 DEF Inv, Types, Heard,
     Before, Beyond, Cli, Https, Filing, Done, Ended, Backends, Writes, Write, WriteResult
<1>16. CASE WriteMeta(c)
  BY <1>16 DEF Inv, Types, Heard,
     Before, Beyond, Cli, Https, Filing, Done, Ended, Backends, Writes, Write, WriteMeta
<1>17. CASE ChildForks(c)
  BY <1>17 DEF Inv, Types, Heard,
     Before, Beyond, Cli, Https, Filing, Done, Ended, Backends, ChildForks
<1>18. CASE KidEscapes(c)
  BY <1>18 DEF Inv, Types, Heard,
     Before, Beyond, Cli, Https, Filing, Done, Ended, Backends, KidEscapes
<1>19. CASE KidExits(c)
  BY <1>19 DEF Inv, Types, Heard,
     Before, Beyond, Cli, Https, Filing, Done, Ended, Backends, KidExits
<1>20. CASE ChildExits(c)
  <2>1. backend[c] # "arliai" /\ (pc[c] = "probing" \/ said'[c] \in Heeded)
    BY <1>20 DEF Inv, Types, Heard, Cli, Heeded, ChildExits
  <2> QED
    BY <1>20, <2>1 DEF Inv, Types, Heard, Cli, Filing, Ended, ChildExits
<1>21. CASE Killed(c)
  BY <1>21 DEF Inv, Types, Heard,
     Before, Beyond, Cli, Https, Filing, Done, Ended, Backends, Forgotten, Killed
<1> QED
  BY <1>1, <1>2, <1>3, <1>4, <1>5, <1>6, <1>7, <1>8, <1>9, <1>10, <1>11, <1>12, <1>13,
     <1>14, <1>15, <1>16, <1>17, <1>18, <1>19, <1>20, <1>21 DEF Step, Child

\* Only three steps give a call its status and its value.
LEMMA NextClassified ==
    ASSUME Inv, NEW c \in Calls,
           Step(c) \/ Child(c) \/ Killed(c) \/ \E b \in Backends : Run(c, b)
    PROVE  Classified'
<1> USE AbsentIsNothing DEF Set, Goto, procVars, callVars
<1>1. ASSUME NEW b \in Backends, Run(c, b) PROVE Classified'
  BY <1>1 DEF Inv, Types, Heard, Classified, Earned, Valued,
     Before, Beyond, Cli, Https, Filing, Done, Ended, Run
<1>2. CASE ensure_empty_out(c)
  BY <1>2 DEF Inv, Types, Heard, Classified, Earned, Valued,
     Before, Beyond, Cli, Https, Filing, Done, Ended, ensure_empty_out
<1>3. CASE prepare(c)
  BY <1>3 DEF Inv, Types, Heard, Classified, Earned, Valued,
     Before, Beyond, Cli, Https, Filing, Done, Ended, Write, prepare
<1>4. CASE ProbeStarts(c)
  BY <1>4 DEF Inv, Types, Heard, Classified, Earned, Valued,
     Before, Beyond, Cli, Https, Filing, Done, Ended, Spawned, ProbeStarts
<1>5. CASE ProbePolls(c)
  BY <1>5 DEF Inv, Types, Heard, Classified, Earned, Valued,
     Before, Beyond, Cli, Https, Filing, Done, Ended, ProbePolls
<1>6. CASE ProbeRead(c)
  BY <1>6 DEF Inv, Types, Heard, Classified, Earned, Valued,
     Before, Beyond, Cli, Https, Filing, Done, Ended, ProbeRead
<1>7. CASE SpawnBackend(c)
  BY <1>7 DEF Inv, Types, Heard, Classified, Earned, Valued,
     Before, Beyond, Cli, Https, Filing, Done, Ended, Spawned, SpawnBackend
<1>8. CASE PollExit(c)
  BY <1>8 DEF Inv, Types, Heard, Classified, Earned, Valued,
     Before, Beyond, Cli, Https, Filing, Done, Ended, PollExit
<1>9. CASE PollTimeout(c)
  BY <1>9 DEF Inv, Types, Heard, Classified, Earned, Valued,
     Before, Beyond, Cli, Https, Filing, Done, Ended, PollTimeout
<1>10. CASE Join(c)
  <2>1. timedOut[c] => status'[c] = "BLOCKED_TIMEOUT" /\ value'[c] = Absent
    BY <1>10 DEF Inv, Types, Classified, Filing, Ended, Join
  <2>2. ~timedOut[c] =>
          /\ status'[c] \in Valued <=> value'[c] # Absent
          /\ status'[c] = "PASS" => value'[c] = "valid" /\ said[c].exit = 0 /\ backend[c] # "arliai"
          /\ said[c] \in Heeded /\ backend[c] # "arliai"
    <3> SUFFICES ASSUME ~timedOut[c]
                 PROVE  /\ status'[c] \in Valued <=> value'[c] # Absent
                        /\ status'[c] = "PASS" => /\ value'[c] = "valid" /\ said[c].exit = 0
                                                 /\ backend[c] # "arliai"
      BY <1>10 DEF Inv, Heard, Cli, Join
    <3>1. said[c].exit \in {0, 1} /\ backend[c] # "arliai"
      BY <1>10 DEF Inv, Heard, Heeded, Spoken, Cli, Join
    <3>2. PICK text : /\ status'[c] = classify_cli(said[c], text)
                      /\ value'[c] = IF classify_cli(said[c], text) \in Valued
                                     THEN text ELSE Absent
      BY <1>10 DEF Inv, Types, Classified, Valued, Join
    <3>3. CASE said[c].exit = 0
      <4>1. classify_cli(said[c], text) = classify_extracted(extract_final_json(text))
        BY <3>3 DEF classify_cli
      <4> QED
        BY <3>1, <3>2, <3>3, <4>1 DEF classify_extracted, extract_final_json, Valued
    <3>4. CASE said[c].exit # 0
      <4>1. classify_cli(said[c], text) \in {"BLOCKED_AUTH", "BLOCKED_USAGE", "FAIL_INVALID_OUTPUT"}
        BY <3>4 DEF classify_cli
      <4> QED
        BY <3>2, <4>1 DEF Valued
    <3> QED
      BY <3>3, <3>4
  <2> QED
    BY <1>10, <2>1, <2>2 DEF Inv, Types, Classified, Earned, Valued, Filing, Ended, Join
<1>11. CASE CallUrl(c)
  BY <1>11 DEF Inv, Types, Heard, Classified, Earned, Valued,
     Before, Beyond, Cli, Https, Filing, Done, Ended, CallUrl
<1>12. CASE ClassifyArli(c)
  <2>1. said[c] \in ArliOutcomes /\ backend[c] = "arliai" /\ ~timedOut[c]
    BY <1>12 DEF Inv, Types, Heard, Https, Filing, Ended, ClassifyArli
  <2> DEFINE st == IF credential_reflected(said[c]) THEN "BLOCKED_PROVIDER"
                   ELSE classify_arli(said[c])
  <2>2. /\ status'[c] = st
        /\ value'[c] = IF st \in Valued THEN said[c].text ELSE Absent
    BY <1>12 DEF Inv, Types, Classified, Valued, ClassifyArli
  <2>3. /\ st \in Valued => /\ said[c].kind = "2xx" /\ said[c].text \in {"valid", "violates"}
                             /\ said[c].echo # "verbatim"
        /\ st = "PASS" => said[c].text = "valid"
    BY DEF credential_reflected, classify_arli, classify_extracted, extract_final_json, Valued
  <2> QED
    BY <1>12, <2>1, <2>2, <2>3 DEF Inv, Types, Classified, Earned, Valued, Filing, Ended,
       ClassifyArli
<1>13. CASE WriteStdout(c)
  BY <1>13 DEF Inv, Types, Heard, Classified, Earned, Valued,
     Before, Beyond, Cli, Https, Filing, Done, Ended, Writes, Write, WriteStdout
<1>14. CASE WriteStderr(c)
  BY <1>14 DEF Inv, Types, Heard, Classified, Earned, Valued,
     Before, Beyond, Cli, Https, Filing, Done, Ended, Writes, Write, WriteStderr
<1>15. CASE WriteResult(c)
  BY <1>15 DEF Inv, Types, Heard, Classified, Earned, Valued,
     Before, Beyond, Cli, Https, Filing, Done, Ended, Writes, Write, WriteResult
<1>16. CASE WriteMeta(c)
  BY <1>16 DEF Inv, Types, Heard, Classified, Earned, Valued,
     Before, Beyond, Cli, Https, Filing, Done, Ended, Writes, Write, WriteMeta
<1>17. CASE ChildForks(c)
  BY <1>17 DEF Inv, Types, Heard, Classified, Earned, Valued,
     Before, Beyond, Cli, Https, Filing, Done, Ended, ChildForks
<1>18. CASE KidEscapes(c)
  BY <1>18 DEF Inv, Types, Heard, Classified, Earned, Valued,
     Before, Beyond, Cli, Https, Filing, Done, Ended, KidEscapes
<1>19. CASE KidExits(c)
  BY <1>19 DEF Inv, Types, Heard, Classified, Earned, Valued,
     Before, Beyond, Cli, Https, Filing, Done, Ended, KidExits
<1>20. CASE ChildExits(c)
  BY <1>20 DEF Inv, Types, Heard, Classified, Earned, Valued,
     Before, Beyond, Cli, Https, Filing, Done, Ended, ChildExits
<1>21. CASE Killed(c)
  BY <1>21 DEF Inv, Types, Heard, Classified, Earned, Valued,
     Before, Beyond, Cli, Https, Filing, Done, Ended, Killed
<1> QED
  BY <1>1, <1>2, <1>3, <1>4, <1>5, <1>6, <1>7, <1>8, <1>9, <1>10, <1>11, <1>12, <1>13,
     <1>14, <1>15, <1>16, <1>17, <1>18, <1>19, <1>20, <1>21 DEF Step, Child

-----------------------------------------------------------------------------
(* The run directory *)

\* The other calls, and the answer of this one once it is classified, stay as they
\* are.
Alone(c) ==
    /\ \A d \in Calls \ {c} :
         /\ pc'[d] = pc[d] /\ status'[d] = status[d] /\ value'[d] = value[d]
         /\ backend'[d] = backend[d] /\ said'[d] = said[d]
    /\ pc[c] \in Filing \cup Ended =>
         /\ pc'[c] \in Filing \cup Ended
         /\ status'[c] = status[c] /\ value'[c] = value[c]
         /\ backend'[c] = backend[c] /\ said'[c] = said[c]

\* A step that writes nothing: the call stays where it is, goes on to its answer,
\* or ends.
Aside(c) ==
    /\ Alone(c) /\ UNCHANGED <<out, raced>>
    /\ \/ pc'[c] = pc[c] /\ status'[c] = status[c] /\ value'[c] = value[c]
       \/ pc[c] \notin Done /\ pc'[c] \in Ended \cup {"empty"} /\ pc'[c] \notin Done
       \/ pc[c] \in Cli \cup Https /\ pc'[c] \in Cli \cup Https \cup {"streams"}

\* A step that writes a file, between two places; the write may fail halfway.
WritesFile(c, from, to, f) ==
    /\ Alone(c) /\ pc[c] = from /\ pc'[c] = to /\ UNCHANGED raced
    /\ out'[f] # NotWritten /\ out'[f].by = c /\ Holds(c, f, out'[f].key)
    /\ out'[f].status = IF to = "error" THEN Absent ELSE status[c]
    /\ DOMAIN out' = Files /\ \A g \in Files \ {f} : out'[g] = out[g]

\* What a write leaves.
LEMMA Written ==
    ASSUME Signed, NEW c \in Calls, NEW f \in Files, NEW k, Write(c, f, k) \/ Tear(c, f, k)
    PROVE  /\ out'[f] # NotWritten /\ out'[f].by = c /\ out'[f].key = k
           /\ Write(c, f, k) => out'[f].status = status[c]
           /\ Tear(c, f, k) => out'[f].status = Absent
           /\ DOMAIN out' = Files /\ \A g \in Files \ {f} : out'[g] = out[g]
<1>1. PICK st : out' = [out EXCEPT ![f] = [by |-> c, key |-> k, status |-> st]]
  BY DEF Write, Tear
<1>2. out'[f] = [by |-> c, key |-> k, status |-> st]
  BY <1>1 DEF Signed
<1>3. out'[f] # NotWritten
  BY <1>2, AbsentIsNothing DEF NotWritten
<1>4. DOMAIN out' = Files /\ \A g \in Files \ {f} : out'[g] = out[g]
  BY <1>1 DEF Signed
<1>5. /\ Write(c, f, k) => out'[f].status = status[c]
      /\ Tear(c, f, k) => out'[f].status = Absent
  BY DEF Signed, Write, Tear
<1> QED
  BY <1>2, <1>3, <1>4, <1>5

\* One write of the run directory: done, or failed before or after it began.
LEMMA OneWrite ==
    ASSUME Inv, NEW c \in Calls, NEW from \in Filing, NEW to, NEW f \in Files, NEW k,
           to \in (Filing \cup Ended) \ {"error"}, Holds(c, f, k), Writes(c, from, to, f, k)
    PROVE  Aside(c) \/ WritesFile(c, from, to, f) \/ WritesFile(c, from, "error", f)
<1> USE DEF Set, Goto, callVars
<1>1. pc[c] = from /\ pc \in [Calls -> Before \cup Beyond \cup Ended]
  BY DEF Writes, Inv, Types
<1>2. ASSUME NEW step \in Filing \cup Ended, Goto(c, step) PROVE Alone(c) /\ pc'[c] = step
  BY <1>1, <1>2 DEF Writes, Alone
<1>3. UNCHANGED <<raced, status, value>>
  BY DEF Writes
<1>4. CASE Write(c, f, k) /\ Goto(c, to)
  <2>1. /\ out'[f] # NotWritten /\ out'[f].by = c /\ out'[f].key = k
        /\ out'[f].status = status[c]
        /\ DOMAIN out' = Files /\ \A g \in Files \ {f} : out'[g] = out[g]
    BY <1>4, Written DEF Inv
  <2> QED
    BY <1>1, <1>2, <1>3, <1>4, <2>1 DEF WritesFile
<1>5. CASE UNCHANGED out /\ Goto(c, "error")
  BY <1>1, <1>2, <1>3, <1>5 DEF Aside, Filing, Done, Ended
<1>6. CASE Tear(c, f, k) /\ Goto(c, "error")
  <2>1. /\ out'[f] # NotWritten /\ out'[f].by = c /\ out'[f].key = k
        /\ out'[f].status = Absent
        /\ DOMAIN out' = Files /\ \A g \in Files \ {f} : out'[g] = out[g]
    BY <1>6, Written DEF Inv
  <2> QED
    BY <1>1, <1>2, <1>3, <1>6, <2>1 DEF WritesFile, Ended
<1> QED
  BY <1>4, <1>5, <1>6 DEF Writes

\* A backend's process was started without the key and cannot print it.
LEMMA ProcessKnowsNoKey ==
    ASSUME Inv, NEW c \in Calls, said[c] # Absent, backend[c] # "arliai"
    PROVE  said[c].echo = "none"
<1>1. \A s \in Heeded : s.echo = "none"
  BY DEF Heeded, Spoken, strip_provider_api_keys, ProviderKeys
<1> QED
  BY <1>1 DEF Inv, Heard

\* The three bodies that may hold it.
LEMMA BodiesContained ==
    ASSUME Inv, NEW c \in Calls, pc[c] \in Filing
    PROVE  /\ Holds(c, "stdout.raw",
                    CASE said[c] = Absent -> "none"
                      [] said[c] # Absent /\ backend[c] # "arliai" -> said[c].echo
                      [] said[c] # Absent /\ backend[c] = "arliai" ->
                           IF credential_reflected(said[c]) THEN "none"
                           ELSE arli_run_dir_evidence(said[c]))
           /\ Holds(c, "stderr.log",
                    IF said[c] = Absent \/ backend[c] = "arliai" THEN "none" ELSE said[c].echo)
           /\ value[c] # Absent => \A key \in Decoded(said[c].echo) : Holds(c, "result.json", key)
<1> DEFINE body == CASE said[c] = Absent -> "none"
                     [] said[c] # Absent /\ backend[c] # "arliai" -> said[c].echo
                     [] said[c] # Absent /\ backend[c] = "arliai" ->
                          IF credential_reflected(said[c]) THEN "none"
                          ELSE arli_run_dir_evidence(said[c])
<1>1. said[c] # Absent /\ backend[c] = "arliai" => said[c].echo \in Echoes
  BY DEF Inv, Heard, ArliOutcomes, Echoes
<1>2. body # "none" =>
        /\ backend[c] = "arliai" /\ said[c].kind = "2xx"
        /\ said[c].echo \in {"escaped", "encoded"} /\ body # "verbatim"
  BY <1>1, ProcessKnowsNoKey DEF arli_run_dir_evidence, credential_reflected, Echoes
<1>3. Holds(c, "stdout.raw", body)
  <2> HIDE DEF body
  <2> QED BY <1>2 DEF Holds
<1>4. Holds(c, "stderr.log",
            IF said[c] = Absent \/ backend[c] = "arliai" THEN "none" ELSE said[c].echo)
  BY ProcessKnowsNoKey DEF Holds
<1>5. ASSUME value[c] # Absent, NEW key \in Decoded(said[c].echo)
      PROVE  Holds(c, "result.json", key)
  <2>1. CASE backend[c] # "arliai" /\ said[c] \in Heeded
    <3>1. said[c].echo = "none"
      BY <2>1 DEF Heeded, Spoken, strip_provider_api_keys, ProviderKeys
    <3> QED
      BY <1>5, <3>1 DEF Decoded, Holds
  <2>2. CASE /\ backend[c] = "arliai" /\ said[c] \in ArliOutcomes
             /\ said[c].kind = "2xx" /\ said[c].echo # "verbatim"
    <3>1. said[c].echo \in Echoes
      BY <2>2 DEF ArliOutcomes, Echoes
    <3> QED
      BY <1>5, <2>2, <3>1 DEF Decoded, Holds, Echoes
  <2> QED
    BY <1>5, <2>1, <2>2 DEF Inv, Classified
<1> QED
  BY <1>3, <1>4, <1>5

\* Every step of a call does one of these to the directory.
LEMMA DirSteps ==
    ASSUME Inv, NEW c \in Calls,
           Step(c) \/ Child(c) \/ Killed(c) \/ \E b \in Backends : Run(c, b)
    PROVE  \/ Aside(c)
           \/ ensure_empty_out(c) /\ Alone(c)
           \/ \E to \in {"error", "request", "probe"} : WritesFile(c, "inputs", to, "prompt.txt")
           \/ WritesFile(c, "streams", "stderr", "stdout.raw")
           \/ WritesFile(c, "stderr", IF value[c] = Absent THEN "meta" ELSE "result", "stderr.log")
           \/ WritesFile(c, "result", "meta", "result.json")
           \/ WritesFile(c, "meta", IF status[c] = "PASS" THEN "pass" ELSE "fail", "meta.json")
           \/ \E from \in Filing, f \in Files \ {"prompt.txt"} : WritesFile(c, from, "error", f)
<1> USE DEF Set, Goto, procVars, callVars, Alone
<1>1. ASSUME NEW b \in Backends, Run(c, b) PROVE Aside(c)
  BY <1>1 DEF Inv, Types, Aside, Filing, Done, Ended, Run
<1>2. CASE ensure_empty_out(c)
  BY <1>2 DEF Inv, Types, Filing, Ended, ensure_empty_out
<1>3. CASE prepare(c)
  <2>1. \/ Aside(c)
        \/ /\ Write(c, "prompt.txt", "none")
           /\ \E to \in {"error", "request", "probe"} : pc' = [pc EXCEPT ![c] = to]
           /\ pc[c] = "inputs" /\ Alone(c) /\ UNCHANGED raced
    BY <1>3 DEF Inv, Types, Aside, Done, Ended, Filing, Write, prepare
  <2>2. pc[c] = "inputs" => status[c] = Absent
    BY DEF Inv, Classified, Filing, Ended
  <2>3. Holds(c, "prompt.txt", "none")
    BY DEF Holds
  <2> HIDE DEF Alone
  <2>4. ASSUME NEW to \in {"error", "request", "probe"}, Write(c, "prompt.txt", "none"),
               pc' = [pc EXCEPT ![c] = to], pc[c] = "inputs", Alone(c), UNCHANGED raced
        PROVE  WritesFile(c, "inputs", to, "prompt.txt")
    BY <2>2, <2>3, <2>4, Written DEF Inv, Types, WritesFile, Files
  <2> QED
    BY <2>1, <2>4
<1>4. CASE ProbeStarts(c)
  BY <1>4 DEF Inv, Types, Aside, Cli, Https, Filing, Done, Ended, Spawned, ProbeStarts
<1>5. CASE ProbePolls(c)
  BY <1>5 DEF Inv, Types, Aside, Cli, Https, Filing, Done, Ended, ProbePolls
<1>6. CASE ProbeRead(c)
  BY <1>6 DEF Inv, Types, Aside, Cli, Https, Filing, Done, Ended, ProbeRead
<1>7. CASE SpawnBackend(c)
  BY <1>7 DEF Inv, Types, Aside, Cli, Https, Filing, Done, Ended, Spawned, SpawnBackend
<1>8. CASE PollExit(c)
  BY <1>8 DEF Inv, Types, Aside, Cli, Https, Filing, Done, Ended, PollExit
<1>9. CASE PollTimeout(c)
  BY <1>9 DEF Inv, Types, Aside, Cli, Https, Filing, Done, Ended, PollTimeout
<1>10. CASE Join(c)
  BY <1>10 DEF Inv, Types, Aside, Cli, Https, Filing, Done, Ended, Join
<1>11. CASE CallUrl(c)
  BY <1>11 DEF Inv, Types, Aside, Cli, Https, Filing, Done, Ended, CallUrl
<1>12. CASE ClassifyArli(c)
  BY <1>12 DEF Inv, Types, Aside, Cli, Https, Filing, Done, Ended, ClassifyArli
<1>17. CASE ChildForks(c)
  BY <1>17 DEF Inv, Types, Aside, Cli, Https, Filing, Done, Ended, ChildForks
<1>18. CASE KidEscapes(c)
  BY <1>18 DEF Inv, Types, Aside, Cli, Https, Filing, Done, Ended, KidEscapes
<1>19. CASE KidExits(c)
  BY <1>19 DEF Inv, Types, Aside, Cli, Https, Filing, Done, Ended, KidExits
<1>20. CASE ChildExits(c)
  <2>1. pc[c] \in {"probing", "polling"}
    BY <1>20 DEF Inv, Heard, ChildExits
  <2> QED
    BY <1>20, <2>1 DEF Inv, Types, Aside, Cli, Https, Filing, Done, Ended, ChildExits
<1>21. CASE Killed(c)
  BY <1>21 DEF Inv, Types, Aside, Cli, Https, Filing, Done, Ended, Killed
<1>13. CASE WriteStdout(c)
  <2>1. pc[c] = "streams"
    BY <1>13 DEF WriteStdout, Writes
  <2> QED
    BY <1>13, <2>1, OneWrite, BodiesContained DEF WriteStdout, Filing, Files
<1>14. CASE WriteStderr(c)
  <2>1. pc[c] = "stderr"
    BY <1>14 DEF WriteStderr, Writes
  <2> QED
    BY <1>14, <2>1, OneWrite, BodiesContained DEF WriteStderr, Filing, Files
<1>15. CASE WriteResult(c)
  <2>1. pc[c] = "result"
    BY <1>15 DEF WriteResult
  <2>2. value[c] # Absent
    BY <2>1 DEF Inv, Classified
  <2>3. PICK key \in Decoded(said[c].echo) : Writes(c, "result", "meta", "result.json", key)
    BY <1>15 DEF WriteResult
  <2> QED
    BY <2>1, <2>2, <2>3, OneWrite, BodiesContained DEF Filing, Files
<1>16. CASE WriteMeta(c)
  <2>1. pc[c] = "meta"
    BY <1>16 DEF WriteMeta, Writes
  <2>2. Holds(c, "meta.json", "none")
    BY DEF Holds
  <2> QED
    BY <1>16, <2>1, <2>2, OneWrite DEF WriteMeta, Filing, Ended, Files
<1> QED
  BY <1>1, <1>2, <1>3, <1>4, <1>5, <1>6, <1>7, <1>8, <1>9, <1>10, <1>11, <1>12, <1>13,
     <1>14, <1>15, <1>16, <1>17, <1>18, <1>19, <1>20, <1>21 DEF Step, Child

\* Every file stays some call's and holds no more of the key than that call's answer
\* left.
LEMMA NextSigned ==
    ASSUME Inv, NEW c \in Calls,
           Step(c) \/ Child(c) \/ Killed(c) \/ \E b \in Backends : Run(c, b)
    PROVE  (Signed /\ Contained)'
<1>1. /\ Alone(c)
      /\ UNCHANGED out \/ \E from, to, f : f \in Files /\ WritesFile(c, from, to, f)
  BY DirSteps DEF Aside, WritesFile, ensure_empty_out, Files
<1>2. Signed /\ Contained
  BY DEF Inv
<1>3. ASSUME NEW f \in Files, NEW d \in Calls, NEW key, Holds(d, f, key),
             d # c \/ pc[c] \in Filing \cup Ended
      PROVE  Holds(d, f, key)'
  BY <1>1, <1>3 DEF Holds, Alone
<1>4. ASSUME NEW f \in Files, out'[f] = out[f] PROVE Holds(out[f].by, f, out[f].key)'
  <2>1. CASE out[f].key = "none"
    BY <1>4, <2>1 DEF Holds
  <2>2. CASE out[f].key # "none"
    <3>1. out[f].by \in Calls
      BY <1>2, <2>2 DEF Signed, NotWritten
    <3>2. Holds(out[f].by, f, out[f].key) /\ pc[out[f].by] \in Filing \cup Ended
      BY <1>2, <2>2 DEF Contained, Holds
    <3>3. ASSUME NEW d, d = out[f].by, NEW key, key = out[f].key, Holds(d, f, key)'
          PROVE  Holds(out[f].by, f, out[f].key)'
      BY <1>4, <3>3
    <3> QED
      BY <1>3, <3>1, <3>2, <3>3
  <2> QED
    BY <2>1, <2>2
<1>5. ASSUME NEW from, NEW to, NEW f \in Files, WritesFile(c, from, to, f)
      PROVE  Holds(out[f].by, f, out[f].key)'
  <2>1. out'[f].key # "none" => pc[c] \in Filing \cup Ended
    BY <1>5 DEF Holds, WritesFile
  <2> QED
    BY <1>1, <1>5, <2>1 DEF Holds, WritesFile, Alone
<1>6. CASE UNCHANGED out
  BY <1>2, <1>4, <1>6 DEF Signed, Contained
<1>7. ASSUME NEW from, NEW to, NEW f \in Files, WritesFile(c, from, to, f)
      PROVE  (Signed /\ Contained)'
  <2>1. \A g \in Files : Holds(out[g].by, g, out[g].key)'
    BY <1>4, <1>5, <1>7 DEF WritesFile
  <2> QED
    BY <1>2, <1>7, <2>1 DEF Signed, Contained, WritesFile
<1> QED
  BY <1>1, <1>6, <1>7

\* Whoever goes on owns the directory, and what it has written is behind it.
LEMMA NextOwned ==
    ASSUME Inv, NEW c \in Calls, ~raced',
           Step(c) \/ Child(c) \/ Killed(c) \/ \E b \in Backends : Run(c, b)
    PROVE  (Owned /\ Progress)'
<1> USE DEF Cli, Https, Filing, Done, Ended, Beyond
<1>1. ~raced
  BY DirSteps DEF Inv, Types, Aside, WritesFile, ensure_empty_out
<1>2. Owned /\ Progress /\ Signed /\ Types /\ Classified
  BY <1>1 DEF Inv
<1>3. CASE Aside(c)
  <2>1. Owned'
    BY <1>2, <1>3 DEF Owned, Aside, Alone
  <2>2. Progress'
    <3>1. ASSUME NEW d \in Calls
          PROVE  /\ pc'[d] \in Beyond \ Done => out'["meta.json"] = NotWritten
                 /\ pc'[d] \in Beyond \ (Done \cup {"meta"}) => out'["result.json"] = NotWritten
                 /\ pc'[d] = "meta" => (out'["result.json"] # NotWritten <=> value'[d] # Absent)
      BY <1>2, <1>3 DEF Progress, Aside, Alone
    <3>2. out["meta.json"].status # Absent =>
            LET m == out["meta.json"]
            IN  pc'[m.by] = pc[m.by] /\ status'[m.by] = status[m.by] /\ value'[m.by] = value[m.by]
      BY <1>2, <1>3 DEF Progress, Signed, Files, Aside, Alone, NotWritten
    <3> QED
      BY <1>2, <1>3, <3>1, <3>2 DEF Progress, Aside
  <2> QED
    BY <2>1, <2>2
<1>4. CASE ensure_empty_out(c) /\ Alone(c)
  <2>1. /\ out' = out
        /\ pc'[c] = "inputs" =>
             (\A f \in Files : out[f] = NotWritten) /\ \A d \in Calls \ {c} : pc[d] # "inputs"
        /\ pc[c] = "empty" /\ pc'[c] \in {"inputs", "refused"}
    BY <1>1, <1>2, <1>4 DEF ensure_empty_out, Types, Goto, Set
  <2>2. Owned'
    BY <1>2, <1>4, <2>1 DEF Owned, Alone
  <2>3. out["meta.json"].status # Absent => out["meta.json"].by \in Calls \ {c}
    BY <1>2, <2>1 DEF Progress, Signed, Files, NotWritten
  <2>4. Progress'
    BY <1>2, <1>4, <2>1, <2>3 DEF Progress, Alone
  <2> QED
    BY <2>2, <2>4
<1>5. ASSUME NEW to \in {"error", "request", "probe"}, WritesFile(c, "inputs", to, "prompt.txt")
      PROVE  (Owned /\ Progress)'
  <2>1. \A f \in Files : out[f] = NotWritten
    BY <1>2, <1>5 DEF Owned, WritesFile
  <2>2. \A d \in Calls \ {c} : pc'[d] \notin Beyond \cup {"inputs"}
    <3> SUFFICES ASSUME NEW d \in Calls \ {c}, pc[d] \in Beyond \cup {"inputs"} PROVE FALSE
      BY <1>5 DEF WritesFile, Alone
    <3>1. pc[d] \in Beyond
      BY <1>2, <1>5 DEF Owned, WritesFile
    <3>2. out["prompt.txt"].by = Absent
      BY <2>1 DEF NotWritten, Files
    <3> QED
      BY <1>2, <3>1, <3>2, AbsentIsNothing DEF Owned
  <2>3. \A g \in Files \ {"prompt.txt"} : out'[g] = NotWritten
    BY <1>5, <2>1 DEF WritesFile
  <2> QED
    BY <1>5, <2>2, <2>3 DEF Owned, Progress, WritesFile, Files, NotWritten
<1>6. ASSUME NEW from \in Filing, NEW to, NEW f \in Files \ {"prompt.txt"}, WritesFile(c, from, to, f),
             to \in Filing \cup Done \cup {"error"}
      PROVE  /\ Owned'
             /\ \A d \in Calls \ {c} : pc'[d] \notin Beyond
             /\ out["meta.json"] = NotWritten
  <2>1. out["prompt.txt"].by = c /\ out'["prompt.txt"] = out["prompt.txt"]
    BY <1>2, <1>6 DEF Owned, WritesFile, Files
  <2>2. \A d \in Calls \ {c} : pc'[d] \notin Beyond \cup {"inputs"}
    <3> SUFFICES ASSUME NEW d \in Calls \ {c}, pc[d] \in Beyond \cup {"inputs"} PROVE FALSE
      BY <1>6 DEF WritesFile, Alone
    <3>1. CASE pc[d] \in Beyond
      BY <1>2, <2>1, <3>1 DEF Owned
    <3>2. CASE pc[d] = "inputs"
      <4>1. out["prompt.txt"] = NotWritten
        BY <1>2, <3>2 DEF Owned, Files
      <4> QED
        BY <2>1, <4>1, AbsentIsNothing DEF NotWritten
    <3> QED
      BY <3>1, <3>2
  <2>3. out["meta.json"] = NotWritten
    BY <1>2, <1>6 DEF Progress, WritesFile
  <2>4. Owned'
    BY <1>2, <1>6, <2>1, <2>2 DEF Owned, WritesFile
  <2> QED
    BY <2>2, <2>3, <2>4
<1>7. CASE WritesFile(c, "streams", "stderr", "stdout.raw")
  <2>1. Owned' /\ (\A d \in Calls \ {c} : pc'[d] \notin Beyond) /\ out["meta.json"] = NotWritten
    BY <1>6, <1>7 DEF Files
  <2> QED
    BY <1>2, <1>7, <2>1 DEF Progress, WritesFile, Files, NotWritten
<1>8. CASE WritesFile(c, "stderr", IF value[c] = Absent THEN "meta" ELSE "result", "stderr.log")
  <2>1. Owned' /\ (\A d \in Calls \ {c} : pc'[d] \notin Beyond) /\ out["meta.json"] = NotWritten
    BY <1>6, <1>8 DEF Files
  <2> QED
    <3>1. /\ UNCHANGED <<out["meta.json"], out["result.json"], value[c]>>
          /\ pc'[c] = IF value[c] = Absent THEN "meta" ELSE "result"
      BY <1>8 DEF WritesFile, Alone, Files
    <3>2. out["result.json"] = NotWritten /\ out["meta.json"].status = Absent
      BY <1>2, <1>8, <2>1 DEF Progress, WritesFile, NotWritten
    <3> QED
      BY <2>1, <3>1, <3>2 DEF Progress
<1>9. CASE WritesFile(c, "result", "meta", "result.json")
  <2>1. Owned' /\ (\A d \in Calls \ {c} : pc'[d] \notin Beyond) /\ out["meta.json"] = NotWritten
    BY <1>6, <1>9 DEF Files
  <2> QED
    <3>1. /\ UNCHANGED <<out["meta.json"], value[c]>>
          /\ out'["result.json"] # NotWritten /\ pc'[c] = "meta"
      BY <1>9 DEF WritesFile, Alone, Files
    <3>2. value[c] # Absent /\ out["meta.json"].status = Absent
      BY <1>2, <1>9, <2>1 DEF Classified, WritesFile, NotWritten
    <3> QED
      BY <2>1, <3>1, <3>2 DEF Progress
<1>10. CASE WritesFile(c, "meta", IF status[c] = "PASS" THEN "pass" ELSE "fail", "meta.json")
  <2>1. Owned' /\ (\A d \in Calls \ {c} : pc'[d] \notin Beyond) /\ out["meta.json"] = NotWritten
    BY <1>6, <1>10 DEF Files
  <2> QED
    BY <1>2, <1>10, <2>1 DEF Progress, WritesFile, Alone, Files
<1>11. ASSUME NEW from \in Filing, NEW f \in Files \ {"prompt.txt"},
              WritesFile(c, from, "error", f)
       PROVE  (Owned /\ Progress)'
  <2>1. Owned' /\ (\A d \in Calls \ {c} : pc'[d] \notin Beyond) /\ out["meta.json"] = NotWritten
    BY <1>6, <1>11
  <2>2. out'["meta.json"].status = Absent /\ pc'[c] \notin Beyond
    BY <1>11, <2>1 DEF WritesFile, NotWritten, Files
  <2> QED
    BY <2>1, <2>2 DEF Progress
<1> QED
  BY <1>3, <1>4, <1>5, <1>7, <1>8, <1>9, <1>10, <1>11, DirSteps

\* Each step keeps the invariant.
LEMMA NextInv == Inv /\ [Next]_vars => Inv'
<1> SUFFICES ASSUME Inv, [Next]_vars PROVE Inv'
  OBVIOUS
<1>1. CASE UNCHANGED vars
  BY <1>1 DEF Inv, Types, Heard, Classified, Earned, Signed, Contained, Holds, Owned,
     Progress, vars, procVars, callVars
<1>2. CASE Next
  <2>1. PICK c \in Calls : Step(c) \/ Child(c) \/ Killed(c) \/ \E b \in Backends : Run(c, b)
    BY <1>2 DEF Next
  <2> QED
    BY <2>1, NextTypes, NextHeard, NextClassified, NextSigned, NextOwned DEF Inv
<1> QED
  BY <1>1, <1>2

\* The invariant holds throughout.
LEMMA Invariance == Spec => []Inv
<1> QED
  BY InitInv, NextInv, PTL DEF Spec

\* A run directory with a complete meta.json is one call's, its result.json is there
\* exactly when the status says so, and PASS is the verdict on an answer that came in
\* time and with success, for any number of calls that use the directory one after
\* the other, wherever they are killed or fail (ensure_empty_out, run_cli,
\* write_meta).  Once two calls have found it empty at the same time (raced), nothing
\* is claimed: ensure_empty_out does not keep them apart.
THEOREM RunDirsAreOneCalls == Spec => []RunDirIsOneCall
<1>1. Inv => RunDirIsOneCall
  <2> SUFFICES ASSUME Inv, out["meta.json"].status # Absent, ~raced
               PROVE  LET m == out["meta.json"]
                      IN  /\ \A f \in Files : out[f] = NotWritten \/ out[f].by = m.by
                          /\ out["result.json"] # NotWritten <=> m.status \in {"PASS", "FAIL_SCHEMA"}
                          /\ m.status = "PASS" => Earned(m.by)
    BY DEF RunDirIsOneCall, Earned
  <2>1. out["meta.json"] # NotWritten
    BY DEF NotWritten
  <2>2. out["meta.json"].by \in Calls /\ \A f \in Files : out[f] = NotWritten \/ out[f].by = out["meta.json"].by
    BY <2>1 DEF Inv, Signed, Owned, Files
  <2> QED
    BY <2>2 DEF Inv, Progress, Classified, Valued
<1> QED
  BY <1>1, Invariance, PTL

\* The key of the environment comes into no file from a command-line backend, from a
\* failed response or from a body that holds it verbatim, for any number of calls and
\* whatever is answered; what a successful body holds in another form is stored
\* (strip_provider_api_keys, contains_subslice, arli_run_dir_evidence).
THEOREM CredentialsAreContained == Spec => []CredentialContained
<1>1. Inv => CredentialContained
  BY DEF Inv, Contained, Holds, CredentialContained, Files
<1> QED
  BY <1>1, Invariance, PTL

-----------------------------------------------------------------------------
(* Lists picked from a sequence *)

\* Ascending lists every element of a finite set of numbers once.
LEMMA AscendingLists ==
  ASSUME NEW S \in SUBSET Nat, IsFiniteSet(S)
  PROVE  /\ Cardinality(S) \in Nat
         /\ Ascending(S) \in Bijection(1..Cardinality(S), S)
<1> DEFINE c == Cardinality(S)
           Below(i) == {j \in S : j < i}
           rank == [i \in S |-> Cardinality(Below(i))]
           a == Ascending(S)
<1>1. c \in Nat
  BY FS_CardinalityType
<1>2. \A i \in S : IsFiniteSet(Below(i)) /\ Cardinality(Below(i)) \in 0..(c - 1)
  <2> TAKE i \in S
  <2>1. Below(i) \in SUBSET S /\ Below(i) # S
    OBVIOUS
  <2>2. IsFiniteSet(Below(i)) /\ Cardinality(Below(i)) <= c /\ c # Cardinality(Below(i))
    BY <2>1, FS_Subset
  <2>3. Cardinality(Below(i)) \in Nat
    BY <2>2, FS_CardinalityType
  <2> QED BY <1>1, <2>2, <2>3
<1>3. \A i, k \in S : i < k => Cardinality(Below(i)) # Cardinality(Below(k))
  <2> TAKE i, k \in S
  <2> HAVE i < k
  <2>0. i \in Nat /\ k \in Nat /\ \A j \in S : j < i => j < k
    OBVIOUS
  <2>1. Below(i) \in SUBSET Below(k)
    BY <2>0
  <2>2. i \in Below(k) /\ i \notin Below(i)
    BY <2>0
  <2> QED BY <1>2, <2>1, <2>2, FS_Subset
<1>4. rank \in Injection(S, 0..(c - 1))
  <2>1. rank \in [S -> 0..(c - 1)]
    BY <1>2
  <2>2. \A i, k \in S : rank[i] = rank[k] => i = k
    <3> TAKE i, k \in S
    <3>1. i < k \/ k < i \/ i = k
      OBVIOUS
    <3> QED BY <1>3, <3>1
  <2> QED BY <2>1, <2>2 DEF Injection, IsInjective
<1>5. rank \in Surjection(S, 0..(c - 1))
  <2>1. IsFiniteSet(0..(c - 1)) /\ Cardinality(0..(c - 1)) = c
    <3> HIDE DEF c
    <3>1. c - 1 \in Int /\ ~(0 > c - 1 /\ c # 0)
      BY <1>1
    <3> QED BY <1>1, <3>1, FS_Interval
  <2> HIDE DEF rank
  <2> QED BY <1>4, <2>1, FS_Injection
<1>6. \A n \in 1..c : a[n] \in S /\ rank[a[n]] = n - 1
  <2> TAKE n \in 1..c
  <2>1. n - 1 \in 0..(c - 1)
    BY <1>1
  <2>2. \E i \in S : rank[i] = n - 1
    BY <1>5, <2>1 DEF Surjection
  <2>3. \E i \in S : Cardinality({j \in S : j < i}) = n - 1
    BY <2>2
  <2> QED BY <2>3 DEF Ascending
<1>7. a \in [1..c -> S]
  <2>1. a = [n \in 1..c |-> CHOOSE i \in S : Cardinality({j \in S : j < i}) = n - 1]
    BY DEF Ascending
  <2> HIDE DEF a, c
  <2> QED BY <1>6, <2>1
<1>8. \A m, n \in 1..c : a[m] = a[n] => m = n
  <2> HIDE DEF a, c, rank
  <2> QED BY <1>1, <1>6
<1>9. \A i \in S : \E n \in 1..c : a[n] = i
  <2> TAKE i \in S
  <2>0. rank[i] \in 0..(c - 1)
    BY <1>2
  <2>1. rank[i] + 1 \in 1..c
    <3> HIDE DEF rank, c
    <3> QED BY <1>1, <2>0
  <2>2. rank[a[rank[i] + 1]] = rank[i] /\ a[rank[i] + 1] \in S
    <3> HIDE DEF rank, c, a
    <3> QED BY <1>1, <1>6, <2>0, <2>1
  <2>3. a[rank[i] + 1] = i
    BY <1>4, <2>2 DEF Injection, IsInjective
  <2> QED BY <2>1, <2>3
<1> HIDE DEF a, c
<1>10. a \in Bijection(1..c, S)
  BY <1>7, <1>8, <1>9 DEF Bijection, Injection, IsInjective, Surjection
<1> QED BY <1>1, <1>10 DEF a, c

\* Each of the places that are given is kept once ...
Keeps(s, P) ==
  /\ Cardinality(P) \in Nat
  /\ DOMAIN Pick(s, P) = 1..Cardinality(P)
  /\ Len(Pick(s, P)) = Cardinality(P)
  /\ \A n \in 1..Cardinality(P) : Ascending(P)[n] \in P /\ Pick(s, P)[n] = s[Ascending(P)[n]]
  /\ \A m, n \in 1..Cardinality(P) : Ascending(P)[m] = Ascending(P)[n] => m = n
  /\ \A i \in P : \E n \in 1..Cardinality(P) : Ascending(P)[n] = i

\* ... by Pick.
LEMMA PickKeeps ==
  ASSUME NEW s, NEW P \in SUBSET Nat, IsFiniteSet(P)
  PROVE  Keeps(s, P)
<1>1. Cardinality(P) \in Nat /\ Ascending(P) \in Bijection(1..Cardinality(P), P)
  BY AscendingLists
<1> DEFINE c == Cardinality(P)
           a == Ascending(P)
<1>2. Pick(s, P) = [n \in 1..c |-> s[a[n]]]
  BY DEF Pick
<1> HIDE DEF c, a
<1>3. a \in [1..c -> P] /\ (\A m, n \in 1..c : a[m] = a[n] => m = n)
      /\ (\A i \in P : \E n \in 1..c : a[n] = i)
  BY <1>1 DEF a, c, Bijection, Injection, IsInjective, Surjection
<1>4. DOMAIN Pick(s, P) = 1..c /\ Len(Pick(s, P)) = c
  BY <1>1, <1>2 DEF c
<1> QED BY <1>1, <1>2, <1>3, <1>4 DEF Keeps, a, c

-----------------------------------------------------------------------------
(* Sequences of anything *)

\* A sequence of whatever its elements are.
IsSeq(s) == s \in Seq(Range(s))

\* Its domain is an interval.
LEMMA SeqShape ==
  ASSUME NEW s, IsSeq(s)
  PROVE  Len(s) \in Nat /\ DOMAIN s = 1..Len(s)
BY LenProperties DEF IsSeq

\* An appended element is the last, and the others stay where they were.
LEMMA AppendShape ==
  ASSUME NEW s, NEW e, IsSeq(s)
  PROVE  /\ IsSeq(Append(s, e)) /\ Append(s, e) # << >>
         /\ Len(Append(s, e)) = Len(s) + 1 /\ Len(s) \in Nat
         /\ DOMAIN s = 1..Len(s) /\ DOMAIN Append(s, e) = 1..(Len(s) + 1)
         /\ \A i \in 1..Len(s) : Append(s, e)[i] = s[i]
         /\ Append(s, e)[Len(s) + 1] = e
<1> DEFINE R == Range(s) \cup {e}
<1>1. s \in Seq(R) /\ e \in R
  BY SeqMonotonic DEF IsSeq
<1> HIDE DEF R
<1>2. /\ Append(s, e) \in Seq(R) /\ Append(s, e) # << >>
      /\ Len(Append(s, e)) = Len(s) + 1
      /\ \A i \in 1..Len(s) : Append(s, e)[i] = s[i]
      /\ Append(s, e)[Len(s) + 1] = e
  BY <1>1, AppendProperties
<1>3. IsSeq(Append(s, e))
  BY <1>2, SeqOfRange DEF IsSeq
<1> QED BY <1>2, <1>3, SeqShape

\* What is sent goes to the end of what was sent, merged or not.
LEMMA SendShape ==
  ASSUME NEW m, NEW c, NEW e, IsSeq(m), IsSeq(c)
  PROVE  /\ IsSeq(m \o c) /\ IsSeq(Append(c, e))
         /\ m \o Append(c, e) = Append(m \o c, e)
<1> DEFINE R == Range(m) \cup Range(c) \cup {e}
<1>1. m \in Seq(R) /\ c \in Seq(R) /\ e \in R
  BY SeqMonotonic DEF IsSeq
<1> HIDE DEF R
<1>2. m \o c \in Seq(R) /\ Append(c, e) \in Seq(R) /\ m \o Append(c, e) \in Seq(R)
      /\ Append(m \o c, e) \in Seq(R)
  BY <1>1, ConcatProperties, AppendProperties
<1>3. m \o Append(c, e) = Append(m \o c, e)
  <2>1. Len(m \o Append(c, e)) = Len(Append(m \o c, e))
    BY <1>1, <1>2, ConcatProperties, AppendProperties
  <2>2. ASSUME NEW i \in 1..Len(m \o Append(c, e))
        PROVE  (m \o Append(c, e))[i] = Append(m \o c, e)[i]
    BY <1>1, <1>2, <2>2
  <2> QED BY <1>2, <2>1, <2>2, SeqEqual
<1> QED BY <1>2, <1>3, SeqOfRange DEF IsSeq

\* Merging a result changes nothing in the sequence of what was sent.
LEMMA MergeShape ==
  ASSUME NEW m, NEW c, IsSeq(m), IsSeq(c), c # << >>
  PROVE  /\ IsSeq(Append(m, Head(c))) /\ IsSeq(Tail(c))
         /\ Append(m, Head(c)) \o Tail(c) = m \o c
<1> DEFINE R == Range(m) \cup Range(c)
<1>1. m \in Seq(R) /\ c \in Seq(R)
  BY SeqMonotonic DEF IsSeq
<1> HIDE DEF R
<1>2. /\ Head(c) \in R /\ Tail(c) \in Seq(R) /\ Len(Tail(c)) = Len(c) - 1
      /\ Len(c) \in Nat \ {0} /\ Head(c) = c[1]
      /\ \A i \in 1..Len(Tail(c)) : Tail(c)[i] = c[i + 1]
  BY <1>1, HeadTailProperties, EmptySeq
<1>3. /\ Append(m, Head(c)) \in Seq(R) /\ Len(Append(m, Head(c))) = Len(m) + 1
      /\ \A i \in 1..Len(m) : Append(m, Head(c))[i] = m[i]
      /\ Append(m, Head(c))[Len(m) + 1] = c[1] /\ Len(m) \in Nat
  BY <1>1, <1>2, AppendProperties
<1> DEFINE a == Append(m, Head(c))
           t == Tail(c)
<1>4. /\ a \o t \in Seq(R) /\ Len(a \o t) = Len(m) + 1 + (Len(c) - 1)
      /\ \A i \in 1..(Len(a) + Len(t)) : (a \o t)[i] = IF i <= Len(a) THEN a[i] ELSE t[i - Len(a)]
  BY <1>2, <1>3, ConcatProperties
<1>5. /\ m \o c \in Seq(R) /\ Len(m \o c) = Len(m) + Len(c)
      /\ \A i \in 1..(Len(m) + Len(c)) : (m \o c)[i] = IF i <= Len(m) THEN m[i] ELSE c[i - Len(m)]
  BY <1>1, ConcatProperties
<1>6. Len(a \o t) = Len(m \o c)
  BY <1>2, <1>3, <1>4, <1>5
<1>7. ASSUME NEW i \in 1..Len(a \o t)
      PROVE  (a \o t)[i] = (m \o c)[i]
  BY <1>2, <1>3, <1>4, <1>5
<1>8. a \o t = m \o c
  BY <1>4, <1>5, <1>6, <1>7, SeqEqual
<1> QED BY <1>2, <1>3, <1>8, SeqOfRange DEF IsSeq

-----------------------------------------------------------------------------
(* From findings to work *)

\* What is picked from a sequence is a sequence of its elements.
LEMMA PickOf ==
  ASSUME NEW F, NEW s \in Seq(F), NEW P \in SUBSET DOMAIN s
  PROVE  /\ Pick(s, P) \in Seq(F)
         /\ Len(Pick(s, P)) = Cardinality(P) /\ Cardinality(P) \in Nat
         /\ DOMAIN Pick(s, P) = 1..Len(Pick(s, P))
         /\ \A n \in DOMAIN Pick(s, P) : Ascending(P)[n] \in P
                                         /\ Pick(s, P)[n] = s[Ascending(P)[n]]
         /\ \A m, n \in DOMAIN Pick(s, P) : Ascending(P)[m] = Ascending(P)[n] => m = n
         /\ \A i \in P : \E n \in DOMAIN Pick(s, P) : Ascending(P)[n] = i
<1>1. P \in SUBSET Nat /\ IsFiniteSet(P)
  <2>1. Len(s) \in Nat /\ DOMAIN s = 1..Len(s)
    OBVIOUS
  <2>2. IsFiniteSet(1..Len(s))
    BY <2>1, FS_Interval
  <2> QED BY <2>1, <2>2, FS_Subset
<1>2. \A n \in 1..Cardinality(P) : s[Ascending(P)[n]] \in F
  <2>1. \A n \in 1..Cardinality(P) : Ascending(P)[n] \in DOMAIN s
    BY <1>1, PickKeeps DEF Keeps
  <2> QED BY <2>1
<1>3. Pick(s, P) \in Seq(F)
  <2> DEFINE c == Cardinality(P)
             a == Ascending(P)
  <2>1. c \in Nat /\ Pick(s, P) = [n \in 1..c |-> s[a[n]]]
    BY <1>1, PickKeeps DEF Pick, Keeps
  <2> HIDE DEF a, c
  <2> QED BY <1>2, <2>1 DEF a, c
<1> QED BY <1>1, <1>3, PickKeeps DEF Keeps

\* The first occurrences of a sequence's keys have different keys, and every key
\* occurs among them.
LEMMA FirstSeenDistinct ==
  ASSUME NEW K, NEW keys \in Seq(K)
  PROVE  /\ FirstSeen(keys) \in SUBSET DOMAIN keys
         /\ \A i, j \in FirstSeen(keys) : keys[i] = keys[j] => i = j
<1>1. Len(keys) \in Nat /\ DOMAIN keys = 1..Len(keys)
  OBVIOUS
<1>2. FirstSeen(keys) \in SUBSET DOMAIN keys
  BY DEF FirstSeen
<1>3. ASSUME NEW i \in FirstSeen(keys), NEW j \in FirstSeen(keys), keys[i] = keys[j]
      PROVE  i = j
  <2>1. i \in 1..Len(keys) /\ j \in 1..Len(keys)
    BY <1>1, <1>2
  <2>2. ~(i < j) /\ ~(j < i)
    BY <1>1, <1>3, <2>1 DEF FirstSeen
  <2> QED BY <1>1, <2>1, <2>2
<1> QED BY <1>2, <1>3

\* Each representative is one of the findings, and no two have the same id.
LEMMA Deduped ==
  ASSUME NEW s \in Seq(Finding)
  PROVE  /\ Dedupe(s) \in Seq(Finding)
         /\ \A n \in DOMAIN Dedupe(s) : \E i \in DOMAIN s : Dedupe(s)[n] = s[i]
         /\ \A m, n \in DOMAIN Dedupe(s) :
               finding_id(Dedupe(s)[m]) = finding_id(Dedupe(s)[n]) => m = n
<1> DEFINE keys == [i \in DOMAIN s |-> finding_id(s[i])]
           P == FirstSeen(keys)
<1>1. keys \in Seq(Range(keys)) /\ DOMAIN keys = DOMAIN s
  <2>1. Len(s) \in Nat /\ DOMAIN s = 1..Len(s)
    OBVIOUS
  <2>2. keys = [i \in 1..Len(s) |-> finding_id(s[i])]
    BY <2>1
  <2>3. \A i \in 1..Len(s) : keys[i] \in Range(keys)
    BY <2>1 DEF Range
  <2> HIDE DEF keys
  <2>4. DOMAIN keys = 1..Len(s) /\ keys \in [1..Len(s) -> Range(keys)]
    BY <2>2, <2>3
  <2> QED BY <2>1, <2>4
<1>2. P \in SUBSET DOMAIN s /\ (\A i, j \in P : keys[i] = keys[j] => i = j)
  <2> HIDE DEF keys
  <2> QED BY <1>1, FirstSeenDistinct
<1>3. Dedupe(s) = Pick(s, P)
  BY DEF Dedupe
<1>4. \A i \in P : keys[i] = finding_id(s[i])
  BY <1>2
<1> HIDE DEF P, keys
<1> QED
  BY <1>2, <1>3, <1>4, PickOf

\* A path is a string.
LEMMA FindingPath ==
  ASSUME NEW f \in Finding
  PROVE  f.path \in STRING
BY DEF Finding

\* The files are paths, no two the same.
LEMMA Grouped ==
  ASSUME NEW of \in Seq(Finding), NEW max \in Nat
  PROVE  /\ Group(of, max) \in Seq(STRING)
         /\ \A m, n \in DOMAIN Group(of, max) : Group(of, max)[m] = Group(of, max)[n] => m = n
<1> DEFINE keys == [i \in DOMAIN of |-> of[i].path]
           P == FirstSeen(keys)
           seen == Pick(of, P)
           paths == [n \in DOMAIN seen |-> seen[n].path]
<1>1. keys \in Seq(STRING) /\ DOMAIN keys = DOMAIN of
  <2>1. Len(of) \in Nat /\ DOMAIN of = 1..Len(of)
    OBVIOUS
  <2>2. \A i \in 1..Len(of) : of[i].path \in STRING
    BY <2>1, FindingPath
  <2>3. keys = [i \in 1..Len(of) |-> of[i].path]
    BY <2>1
  <2> HIDE DEF keys
  <2> QED BY <2>1, <2>2, <2>3
<1>2. P \in SUBSET DOMAIN of /\ (\A i, j \in P : keys[i] = keys[j] => i = j)
  <2> HIDE DEF keys
  <2> QED BY <1>1, FirstSeenDistinct
<1>3. \A i \in P : keys[i] = of[i].path
  BY <1>2
<1>4. /\ seen \in Seq(Finding) /\ Len(seen) \in Nat /\ DOMAIN seen = 1..Len(seen)
      /\ \A m, n \in DOMAIN seen : seen[m].path = seen[n].path => m = n
  <2> HIDE DEF P, keys
  <2> QED BY <1>2, <1>3, PickOf
<1>5. /\ paths \in Seq(STRING) /\ Len(paths) \in Nat /\ DOMAIN paths = 1..Len(paths)
      /\ \A m, n \in DOMAIN paths : paths[m] = paths[n] => m = n
  <2> HIDE DEF seen
  <2>1. \A n \in 1..Len(seen) : seen[n].path \in STRING
    BY <1>4, FindingPath
  <2>2. paths = [n \in 1..Len(seen) |-> seen[n].path]
    BY <1>4
  <2> HIDE DEF paths
  <2>3. paths \in Seq(STRING) /\ Len(paths) = Len(seen) /\ DOMAIN paths = 1..Len(seen)
    BY <1>4, <2>1, <2>2
  <2> QED BY <1>4, <2>2, <2>3
<1>6. Group(of, max) = IF max > 0 /\ Len(paths) > max THEN SubSeq(paths, 1, max) ELSE paths
  BY DEF Group
<1> HIDE DEF paths
<1>7. CASE max > 0 /\ Len(paths) > max
  <2>1. Group(of, max) = SubSeq(paths, 1, max)
    BY <1>6, <1>7
  <2>2. \A i \in 1..max : paths[i] \in STRING
    BY <1>5, <1>7
  <2>3. /\ SubSeq(paths, 1, max) \in Seq(STRING) /\ Len(SubSeq(paths, 1, max)) = max
        /\ \A i \in 1..max : SubSeq(paths, 1, max)[i] = paths[i]
    BY <1>5, <1>7, <2>2
  <2> QED BY <1>5, <1>7, <2>1, <2>3
<1>8. CASE ~(max > 0 /\ Len(paths) > max)
  BY <1>5, <1>6, <1>8
<1> QED BY <1>7, <1>8

-----------------------------------------------------------------------------
(* The inductive invariant *)

\* What was sent, merged or not.
Results == merged \o channel

\* A worker with a file; a worker that was never started, or has left.
Busy(w) == wpc[w] \in {"source", "again", "call", "spoken"}

Idle(w) == wpc[w] \in {"none", "left"}

\* What a worker may have read.
Reply == [file : STRING \cup {None}, for : STRING \cup {None}, text : Answers]

JudgeTypes ==
  /\ job \in [findings : Inputs, only : Only, max_files : MaxFiles,
              dry_run : BOOLEAN, provider : Providers]
  /\ files \in Seq(STRING)
  /\ main \in {"read", "pool", "merge", "meta", "ok", "partial", "error"}
  /\ next \in Nat \ {0}
  /\ wpc \in [Workers -> {"none", "claim", "source", "again", "call", "spoken", "left"}]
  /\ wfile \in [Workers -> STRING \cup {None}]
  /\ stamp \in [Workers -> Stamps \cup {None}]
  /\ \A w \in Workers : wpc[w] = "spoken" \/ (wpc[w] = "call" /\ job.provider = "codex")
                          => stamp[w] \in Stamps
  /\ tmp \in [Stamps -> {None} \cup [for : STRING \cup {None}, text : Answers]]
  /\ replies \in Seq(Reply)
  /\ IsSeq(channel) /\ IsSeq(merged)

\* Before the pool nothing happened; after it nobody works any more.
Phases ==
  /\ main = "read" => /\ reps = << >> /\ files = << >> /\ next = 1 /\ replies = << >>
                      /\ channel = << >> /\ merged = << >>
                      /\ \A w \in Workers : wpc[w] = "none"
  /\ main # "read" => /\ reps = Dedupe(Selected(job.findings, job.only))
                      /\ files = Group(reps, job.max_files)
  /\ main \notin {"read", "pool"} => \A w \in Workers : Idle(w)
  /\ main = "pool" => (\E w \in Workers : wpc[w] # "none") \/ Len(files) = 0
  /\ \A w \in Workers : wpc[w] = "left" => next > Len(files)
  /\ main \in {"merge", "meta", "partial"} \/ (main = "ok" /\ ~job.dry_run) => next > Len(files)
  /\ main \in {"meta", "partial"} \/ (main = "ok" /\ ~job.dry_run) => channel = << >>
  /\ overlay # None => /\ overlay = verdicts(merged) /\ channel = << >>
                       /\ main \in {"meta", "ok", "partial", "error"}

\* Every file handed out is with one worker or was sent once.
Claimed == {i \in DOMAIN files : i < next}

Accounts ==
  /\ \A j \in DOMAIN Results : \E i \in Claimed : Results[j].file = files[i]
  /\ \A j, k \in DOMAIN Results : Results[j].file = Results[k].file => j = k
  /\ \A w \in Workers : Busy(w) => \E i \in Claimed : wfile[w] = files[i]
  /\ \A v, w \in Workers : Busy(v) /\ Busy(w) /\ wfile[v] = wfile[w] => v = w
  /\ \A w \in Workers : Busy(w) => \A j \in DOMAIN Results : Results[j].file # wfile[w]
  /\ \A i \in Claimed : \/ \E j \in DOMAIN Results : Results[j].file = files[i]
                        \/ \E w \in Workers : Busy(w) /\ wfile[w] = files[i]

\* What was sent is what was made of an answer, or a skip.
Made(a) == Judged(Selected(job.findings, job.only), reps, a.file, a.for, a.text)

Answered ==
  /\ \A j \in DOMAIN replies : replies[j].text # None =>
        \E k \in DOMAIN Results : Results[k] = Made(replies[j])
  /\ \A k \in DOMAIN Results :
        \/ Results[k] = Skipped(Results[k].file)
        \/ \E j \in DOMAIN replies : replies[j].text # None /\ Results[k] = Made(replies[j])

JudgeInv == JudgeTypes /\ Phases /\ Accounts /\ Answered /\ EveryFileAccounted

\* What is made of an answer depends on the job and the representatives only.
LEMMA MadeSame ==
  ASSUME UNCHANGED <<job, reps>>
  PROVE  \A a : Made(a)' = Made(a)
BY DEF Made

\* --only keeps findings.
LEMMA SelectedSeq ==
  ASSUME NEW s \in Seq(Finding), NEW only
  PROVE  Selected(s, only) \in Seq(Finding)
BY PickOf DEF Selected

\* The work a job comes to.
LEMMA JobWork ==
  ASSUME JudgeTypes
  PROVE  LET sel == Selected(job.findings, job.only)
             of == Dedupe(sel)
             g == Group(of, job.max_files)
         IN  /\ job.findings \in Seq(Finding) /\ sel \in Seq(Finding) /\ of \in Seq(Finding)
             /\ g \in Seq(STRING) /\ \A m, n \in DOMAIN g : g[m] = g[n] => m = n
<1>1. job.findings \in Seq(Finding) /\ job.max_files \in Nat
  BY JudgeAssumption DEF JudgeTypes
<1>2. Selected(job.findings, job.only) \in Seq(Finding)
  BY <1>1, SelectedSeq
<1>3. Dedupe(Selected(job.findings, job.only)) \in Seq(Finding)
  BY <1>2, Deduped
<1> QED BY <1>1, <1>2, <1>3, Grouped

\* Nothing is read, handed out or written yet.
LEMMA JudgeInitInv == JudgeInit => JudgeInv
<1> SUFFICES ASSUME JudgeInit PROVE JudgeInv
  OBVIOUS
<1> USE DEF JudgeInit
<1>0. << >> \in Seq(Range(<< >>)) /\ << >> \o << >> = << >> /\ DOMAIN << >> = {}
  OBVIOUS
<1>1. JudgeTypes
  BY <1>0 DEF JudgeTypes, IsSeq
<1>2. Phases
  BY DEF Phases
<1>3. Accounts /\ Answered
  <2>1. DOMAIN Results = {} /\ DOMAIN replies = {} /\ DOMAIN files = {}
    BY <1>0 DEF Results
  <2>2. \A w \in Workers : ~Busy(w)
    BY DEF Busy
  <2> QED BY <2>1, <2>2 DEF Accounts, Answered, Claimed
<1>4. EveryFileAccounted
  BY DEF EveryFileAccounted
<1> QED BY <1>1, <1>2, <1>3, <1>4 DEF JudgeInv

-----------------------------------------------------------------------------
(* What a step of a worker amounts to *)

\* What a worker leaves to the main thread.
Elsewhere == UNCHANGED <<job, reps, files, main, merged, overlay, meta>>

\* A worker takes the next file, leaves, goes on with its file,
\* gives it up, or judges it.
Takes(w) ==
  /\ wpc[w] = "claim" /\ next <= Len(files) /\ next' = next + 1
  /\ wfile' = [wfile EXCEPT ![w] = files[next]] /\ wpc' = [wpc EXCEPT ![w] = "source"]
  /\ UNCHANGED <<channel, replies>>

Leaves(w) ==
  /\ wpc[w] = "claim" /\ next > Len(files) /\ next' = next + 1
  /\ wpc' = [wpc EXCEPT ![w] = "left"]
  /\ UNCHANGED <<wfile, channel, replies>>

GoesOn(w) ==
  /\ Busy(w)
  /\ \E s \in {"again", "call", "spoken"} : wpc' = [wpc EXCEPT ![w] = s]
  /\ UNCHANGED <<next, wfile, channel, replies>>

Skips(w) ==
  /\ Busy(w) /\ wpc' = [wpc EXCEPT ![w] = "claim"]
  /\ channel' = Append(channel, Skipped(wfile[w]))
  /\ replies' = replies \/ \E a \in Reply : a.text = None /\ replies' = Append(replies, a)
  /\ UNCHANGED <<next, wfile>>

Judges(w) ==
  /\ Busy(w) /\ wpc' = [wpc EXCEPT ![w] = "claim"]
  /\ \E a \in Reply : /\ a.file = wfile[w] /\ a.text # None
                       /\ replies' = Append(replies, a) /\ channel' = Append(channel, Made(a))
  /\ UNCHANGED <<next, wfile>>

\* An answer that was read leads to a skip or to a judged file.
LEMMA Delivers ==
  ASSUME JudgeTypes, NEW w \in Workers, Busy(w), NEW answer,
         answer.for \in STRING \cup {None}, answer.text \in Answers,
         Deliver(w, answer), UNCHANGED <<next, wfile>>
  PROVE  Skips(w) \/ Judges(w)
<1> DEFINE a == [file |-> wfile[w], for |-> answer.for, text |-> answer.text]
<1>1. a \in Reply
  BY DEF JudgeTypes, Reply
<1>2. a.file = wfile[w] /\ a.for = answer.for /\ a.text = answer.text
  OBVIOUS
<1>3. replies' = Append(replies, a) /\ wpc' = [wpc EXCEPT ![w] = "claim"]
  BY DEF Deliver, Send, Proceed
<1> HIDE DEF a
<1>4. CASE answer.text = None
  <2>1. channel' = Append(channel, Skipped(wfile[w]))
    BY <1>4 DEF Deliver, Send
  <2> QED BY <1>1, <1>2, <1>3, <1>4, <2>1 DEF Skips
<1>5. CASE answer.text # None
  <2>1. channel' = Append(channel, Made(a))
    BY <1>2, <1>5 DEF Deliver, Send, Made
  <2> QED BY <1>1, <1>2, <1>3, <1>5, <2>1 DEF Judges
<1> QED BY <1>4, <1>5

\* A failed call leads to another attempt or to a skip.
LEMMA Fails ==
  ASSUME JudgeTypes, NEW w \in Workers, Busy(w), CallFailed(w), UNCHANGED <<next, wfile, replies>>
  PROVE  GoesOn(w) \/ Skips(w)
BY DEF CallFailed, GoesOn, Skips, Send, Proceed

\* Every step of a worker is one of these five, by a worker that still runs.
LEMMA WorkerStep ==
  ASSUME JudgeTypes, NEW w \in Workers, Work(w)
  PROVE  /\ Elsewhere /\ ~Idle(w)
         /\ Takes(w) \/ Leaves(w) \/ GoesOn(w) \/ Skips(w) \/ Judges(w)
<1> USE DEF Elsewhere, Idle, At, jobVars, mainVars
<1>1. CASE Claim(w)
  BY <1>1 DEF Claim, Takes, Leaves, Proceed
<1>2. CASE SourceSkipped(w)
  BY <1>2 DEF SourceSkipped, Send, Proceed, Skips, Busy
<1>3. CASE CallBackend(w)
  BY <1>3 DEF CallBackend, Proceed, GoesOn, Busy
<1>4. CASE BackendFails(w)
  <2>1. Busy(w) /\ CallFailed(w) /\ UNCHANGED <<next, wfile, replies>>
    BY <1>4 DEF BackendFails, Busy
  <2>2. Elsewhere /\ ~Idle(w)
    BY <1>4 DEF BackendFails
  <2> QED BY <2>1, <2>2, Fails
<1>5. CASE CodexSilent(w)
  BY <1>5 DEF CodexSilent, Proceed, GoesOn, Busy
<1>6. CASE CodexRead(w)
  <2>1. Elsewhere /\ ~Idle(w) /\ Busy(w) /\ UNCHANGED <<next, wfile>>
    BY <1>6 DEF CodexRead, Busy
  <2>2. CASE tmp[stamp[w]] # None /\ Deliver(w, tmp[stamp[w]])
    <3>1. stamp[w] \in Stamps
      BY <1>6 DEF CodexRead, JudgeTypes
    <3>2. tmp[stamp[w]] \in [for : STRING \cup {None}, text : Answers]
      BY <2>2, <3>1 DEF JudgeTypes
    <3>3. tmp[stamp[w]].for \in STRING \cup {None} /\ tmp[stamp[w]].text \in Answers
      BY <3>2
    <3> QED BY <2>1, <2>2, <3>3, Delivers
  <2>3. CASE CallFailed(w) /\ UNCHANGED replies
    BY <2>1, <2>3, Fails
  <2> QED BY <1>6, <2>2, <2>3 DEF CodexRead
<1>7. ASSUME NEW text \in Answers, ClaudeAnswers(w, text)
      PROVE  Elsewhere /\ ~Idle(w) /\ (Skips(w) \/ Judges(w))
  <2>1. /\ Elsewhere /\ ~Idle(w) /\ Busy(w) /\ UNCHANGED <<next, wfile>>
        /\ Deliver(w, [for |-> wfile[w], text |-> text])
    BY <1>7 DEF ClaudeAnswers, Busy
  <2>2. wfile[w] \in STRING \cup {None}
    BY DEF JudgeTypes
  <2> QED BY <2>1, <2>2, Delivers
<1>8. ASSUME NEW text \in Answers, CodexWrites(w, text)
      PROVE  Elsewhere /\ ~Idle(w) /\ GoesOn(w)
  BY <1>8 DEF CodexWrites, Proceed, GoesOn, Busy
<1> QED BY <1>1, <1>2, <1>3, <1>4, <1>5, <1>6, <1>7, <1>8 DEF Work

\* A worker keeps the types.
LEMMA WorkTypes ==
  ASSUME JudgeTypes, NEW w \in Workers, Work(w)
  PROVE  JudgeTypes'
<1> DEFINE Stamped == /\ stamp \in [Workers -> Stamps \cup {None}]
                      /\ \A v \in Workers :
                            wpc[v] = "spoken" \/ (wpc[v] = "call" /\ job.provider = "codex")
                              => stamp[v] \in Stamps
                      /\ tmp \in [Stamps -> {None} \cup [for : STRING \cup {None}, text : Answers]]
<1>0. /\ job' = job /\ wpc \in [Workers -> {"none", "claim", "source", "again", "call", "spoken", "left"}]
      /\ wfile \in [Workers -> STRING \cup {None}] /\ job.provider \in Providers
  BY WorkerStep DEF Elsewhere, JudgeTypes
<1>1. Stamped
  BY DEF JudgeTypes
<1>2. Stamped'
  <2> USE DEF At, Proceed
  <2>1. CASE Claim(w)
    BY <1>0, <1>1, <2>1 DEF Claim
  <2>2. CASE SourceSkipped(w)
    BY <1>0, <1>1, <2>2 DEF SourceSkipped, Send
  <2>3. CASE CallBackend(w)
    <3>1. CASE job.provider = "codex"
      BY <1>0, <1>1, <2>3, <3>1 DEF CallBackend
    <3>2. CASE job.provider # "codex"
      BY <1>0, <1>1, <2>3, <3>2 DEF CallBackend
    <3> QED BY <3>1, <3>2
  <2>4. CASE BackendFails(w)
    <3>1. wpc' = [wpc EXCEPT ![w] = "again"] \/ wpc' = [wpc EXCEPT ![w] = "claim"]
      BY <2>4 DEF BackendFails, CallFailed, Send
    <3>2. /\ stamp' = [stamp EXCEPT ![w] = None]
          /\ tmp' = tmp \/ (stamp[w] # None /\ tmp' = [tmp EXCEPT ![stamp[w]] = None])
      BY <2>4 DEF BackendFails
    <3> QED BY <1>0, <1>1, <3>1, <3>2
  <2>5. CASE CodexSilent(w)
    BY <1>0, <1>1, <2>5 DEF CodexSilent
  <2>6. CASE CodexRead(w)
    <3>1. wpc' = [wpc EXCEPT ![w] = "again"] \/ wpc' = [wpc EXCEPT ![w] = "claim"]
      BY <2>6 DEF CodexRead, CallFailed, Deliver, Send
    <3>2. stamp' = [stamp EXCEPT ![w] = None] /\ tmp' = [tmp EXCEPT ![stamp[w]] = None]
      BY <2>6 DEF CodexRead
    <3> QED BY <1>0, <1>1, <3>1, <3>2
  <2>7. ASSUME NEW text \in Answers, ClaudeAnswers(w, text) PROVE Stamped'
    BY <1>0, <1>1, <2>7 DEF ClaudeAnswers, Deliver, Send
  <2>8. ASSUME NEW text \in Answers, CodexWrites(w, text) PROVE Stamped'
    <3>1. /\ wpc' = [wpc EXCEPT ![w] = "spoken"] /\ stamp' = stamp /\ stamp[w] \in Stamps
          /\ tmp' = [tmp EXCEPT ![stamp[w]] = [for |-> wfile[w], text |-> text]]
      BY <1>1, <2>8 DEF CodexWrites
    <3>2. [for |-> wfile[w], text |-> text] \in [for : STRING \cup {None}, text : Answers]
      BY <1>0
    <3> QED BY <1>0, <1>1, <3>1, <3>2
  <2> QED BY <2>1, <2>2, <2>3, <2>4, <2>5, <2>6, <2>7, <2>8 DEF Work
<1>3. Elsewhere
  BY WorkerStep
<1>4. next' \in Nat \ {0}
  BY WorkerStep DEF JudgeTypes, Takes, Leaves, GoesOn, Skips, Judges
<1>5. wpc' \in [Workers -> {"none", "claim", "source", "again", "call", "spoken", "left"}]
  BY <1>0, WorkerStep DEF Takes, Leaves, GoesOn, Skips, Judges
<1>6. wfile' \in [Workers -> STRING \cup {None}]
  <2>1. CASE Takes(w)
    <3>1. files[next] \in STRING
      BY <2>1 DEF JudgeTypes, Takes
    <3> QED BY <1>0, <2>1, <3>1 DEF Takes
  <2>2. CASE wfile' = wfile
    BY <1>0, <2>2
  <2> QED BY <2>1, <2>2, WorkerStep DEF Leaves, GoesOn, Skips, Judges
<1>7. replies' \in Seq(Reply)
  <2>0. replies \in Seq(Reply)
    BY DEF JudgeTypes
  <2>1. replies' = replies \/ \E a \in Reply : replies' = Append(replies, a)
    BY WorkerStep DEF Takes, Leaves, GoesOn, Skips, Judges
  <2> QED BY <2>0, <2>1, AppendProperties
<1>8. IsSeq(channel')
  <2>0. IsSeq(channel)
    BY DEF JudgeTypes
  <2>1. channel' = channel \/ \E r : channel' = Append(channel, r)
    BY WorkerStep DEF Takes, Leaves, GoesOn, Skips, Judges
  <2> QED BY <2>0, <2>1, AppendShape
<1>9. /\ job' \in [findings : Inputs, only : Only, max_files : MaxFiles,
                   dry_run : BOOLEAN, provider : Providers]
      /\ files' \in Seq(STRING) /\ IsSeq(merged')
      /\ main' \in {"read", "pool", "merge", "meta", "ok", "partial", "error"}
  BY <1>3 DEF JudgeTypes, Elsewhere
<1> QED
  BY <1>2, <1>4, <1>5, <1>6, <1>7, <1>8, <1>9 DEF JudgeTypes, IsSeq

\* A worker keeps the order of the phases.
LEMMA WorkPhases ==
  ASSUME JudgeTypes, Phases, NEW w \in Workers, Work(w)
  PROVE  Phases' /\ main = "pool"
<1>1. Elsewhere /\ ~Idle(w)
  BY WorkerStep
<1>2. main = "pool"
  BY <1>1 DEF Phases, Idle
<1>3. main' = "pool" /\ overlay' = overlay /\ files' = files /\ job' = job /\ reps' = reps
  BY <1>1, <1>2 DEF Elsewhere
<1>4. \E v \in Workers : wpc'[v] # "none"
  BY WorkerStep DEF JudgeTypes, Takes, Leaves, GoesOn, Skips, Judges
<1>5. \A v \in Workers : wpc'[v] = "left" => next' > Len(files')
  <2>1. Len(files) \in Nat /\ next \in Nat /\ next' \in {next, next + 1}
    BY WorkerStep DEF JudgeTypes, Takes, Leaves, GoesOn, Skips, Judges
  <2>2. \A v \in Workers : wpc'[v] = "left" => wpc[v] = "left" \/ next > Len(files)
    BY WorkerStep DEF JudgeTypes, Takes, Leaves, GoesOn, Skips, Judges
  <2> QED BY <1>3, <2>1, <2>2 DEF Phases
<1>6. reps' = Dedupe(Selected(job'.findings, job'.only)) /\ files' = Group(reps', job'.max_files)
  BY <1>2, <1>3 DEF Phases
<1>7. overlay = None
  BY <1>2 DEF Phases
<1> QED BY <1>2, <1>3, <1>4, <1>5, <1>6, <1>7 DEF Phases

\* What is made of an answer is for the answer's file and no skip.
LEMMA MadeShape ==
  ASSUME NEW a
  PROVE  Made(a).file = a.file /\ Made(a).skipped = FALSE
BY DEF Made, Judged

\* A skip has its file and no verdicts.
LEMMA SkippedShape ==
  ASSUME NEW f
  PROVE  Skipped(f).file = f /\ Skipped(f).skipped = TRUE /\ Skipped(f).verdicts = << >>
BY DEF Skipped

\* What a worker sends is one result more, for its own file.
LEMMA WorkSends ==
  ASSUME JudgeTypes, NEW w \in Workers, Work(w), Skips(w) \/ Judges(w)
  PROVE  \E r : /\ Results' = Append(Results, r) /\ r.file = wfile[w]
                /\ \/ r = Skipped(r.file) /\ Skips(w)
                   \/ \E a \in Reply : a.text # None /\ replies' = Append(replies, a) /\ r = Made(a)
<1>1. merged' = merged
  BY WorkerStep DEF Elsewhere
<1>2. ASSUME NEW r, channel' = Append(channel, r)
      PROVE  Results' = Append(Results, r)
  BY <1>1, <1>2, SendShape DEF JudgeTypes, Results
<1>3. CASE Skips(w)
  <2>1. channel' = Append(channel, Skipped(wfile[w]))
    BY <1>3 DEF Skips
  <2> QED BY <1>2, <1>3, <2>1, SkippedShape
<1>4. CASE Judges(w)
  <2>1. PICK a \in Reply : /\ a.file = wfile[w] /\ a.text # None
                           /\ replies' = Append(replies, a) /\ channel' = Append(channel, Made(a))
    BY <1>4 DEF Judges
  <2> QED BY <1>2, <2>1, MadeShape
<1> QED BY <1>3, <1>4

\* The results are a sequence.
LEMMA ResultsSeq ==
  ASSUME JudgeTypes
  PROVE  IsSeq(Results) /\ DOMAIN Results = 1..Len(Results) /\ Len(Results) \in Nat
<1>1. IsSeq(merged \o channel)
  BY SendShape DEF JudgeTypes
<1> QED BY <1>1, SeqShape DEF Results

\* Whoever sends gives its file away; whoever claims gets one that nobody had.
LEMMA WorkAccounts ==
  ASSUME JudgeTypes, Phases, Accounts, NEW w \in Workers, Work(w)
  PROVE  Accounts'
<1>0. /\ Elsewhere /\ files' = files /\ merged' = merged
      /\ wpc \in [Workers -> {"none", "claim", "source", "again", "call", "spoken", "left"}]
      /\ wfile \in [Workers -> STRING \cup {None}] /\ next \in Nat \ {0}
      /\ Len(files) \in Nat /\ DOMAIN files = 1..Len(files)
  BY WorkerStep DEF Elsewhere, JudgeTypes
<1>d. \A m, n \in DOMAIN files : files[m] = files[n] => m = n
  <2>1. main # "read"
    BY WorkPhases
  <2> QED BY <2>1, JobWork DEF Phases
<1>1. CASE Takes(w)
  <2>1. Results' = Results
    BY <1>0, <1>1 DEF Results, Takes
  <2>2. /\ next \in DOMAIN files /\ next \notin Claimed /\ Claimed' = Claimed \cup {next}
        /\ Claimed \subseteq DOMAIN files
    BY <1>0, <1>1 DEF Takes, Claimed
  <2>3. /\ ~Busy(w) /\ Busy(w)' /\ wfile'[w] = files[next]
        /\ \A v \in Workers \ {w} : Busy(v)' = Busy(v) /\ wfile'[v] = wfile[v]
    BY <1>0, <1>1 DEF Takes, Busy
  <2>4. \A i \in Claimed : files[i] # files[next]
    BY <1>d, <2>2
  <2>5. /\ \A j \in DOMAIN Results : Results[j].file # files[next]
        /\ \A v \in Workers : Busy(v) => wfile[v] # files[next]
    BY <2>4 DEF Accounts
  <2> HIDE DEF Claimed, Busy, Results
  <2>6. \A j \in DOMAIN Results' : \E i \in Claimed' : Results'[j].file = files'[i]
    BY <1>0, <2>1, <2>2 DEF Accounts
  <2>7. \A v \in Workers : Busy(v)' => \E i \in Claimed' : wfile'[v] = files'[i]
    BY <1>0, <2>2, <2>3 DEF Accounts
  <2>8. \A u, v \in Workers : Busy(u)' /\ Busy(v)' /\ wfile'[u] = wfile'[v] => u = v
    BY <2>3, <2>5 DEF Accounts
  <2>9. \A v \in Workers : Busy(v)' => \A j \in DOMAIN Results' : Results'[j].file # wfile'[v]
    BY <2>1, <2>3, <2>5 DEF Accounts
  <2>10. \A i \in Claimed' : \/ \E j \in DOMAIN Results' : Results'[j].file = files'[i]
                            \/ \E v \in Workers : Busy(v)' /\ wfile'[v] = files'[i]
    <3>1. ASSUME NEW i \in Claimed, NEW v \in Workers, Busy(v), wfile[v] = files[i]
          PROVE  Busy(v)' /\ wfile'[v] = files[i]
      BY <2>3, <3>1
    <3> QED BY <1>0, <2>1, <2>2, <2>3, <3>1 DEF Accounts
  <2> QED BY <2>1, <2>6, <2>7, <2>8, <2>9, <2>10 DEF Accounts
<1>2. CASE Leaves(w) \/ GoesOn(w)
  <2>1. Results' = Results /\ wfile' = wfile
    BY <1>0, <1>2 DEF Results, Leaves, GoesOn
  <2>2. Claimed' = Claimed
    BY <1>0, <1>2 DEF Leaves, GoesOn, Claimed
  <2>3. \A v \in Workers : Busy(v)' = Busy(v)
    BY <1>0, <1>2 DEF Leaves, GoesOn, Busy
  <2> QED BY <1>0, <2>1, <2>2, <2>3 DEF Accounts
<1>3. CASE Skips(w) \/ Judges(w)
  <2>1. PICK r : Results' = Append(Results, r) /\ r.file = wfile[w]
    BY <1>3, WorkSends
  <2> DEFINE n == Len(Results)
  <2>2. /\ n \in Nat /\ DOMAIN Results = 1..n /\ DOMAIN Results' = 1..(n + 1)
        /\ Results'[n + 1] = r /\ \A j \in 1..n : Results'[j] = Results[j]
    BY <2>1, ResultsSeq, AppendShape
  <2>3. Claimed' = Claimed /\ wfile' = wfile
    BY <1>0, <1>3 DEF Skips, Judges, Claimed
  <2>4. Busy(w) /\ ~Busy(w)' /\ \A v \in Workers \ {w} : Busy(v)' = Busy(v)
    BY <1>0, <1>3 DEF Skips, Judges, Busy
  <2> HIDE DEF n, Claimed, Busy, Results
  <2>5. \A j \in DOMAIN Results' : j \in DOMAIN Results \/ j = n + 1
    BY <2>2
  <2>6. \A j \in DOMAIN Results' : \E i \in Claimed' : Results'[j].file = files'[i]
    BY <1>0, <2>1, <2>2, <2>3, <2>4, <2>5 DEF Accounts
  <2>7. \A j, k \in DOMAIN Results' : Results'[j].file = Results'[k].file => j = k
    BY <2>1, <2>2, <2>4, <2>5 DEF Accounts
  <2>8. \A v \in Workers : Busy(v)' => \E i \in Claimed' : wfile'[v] = files'[i]
    BY <1>0, <2>3, <2>4 DEF Accounts
  <2>9. \A u, v \in Workers : Busy(u)' /\ Busy(v)' /\ wfile'[u] = wfile'[v] => u = v
    BY <2>3, <2>4 DEF Accounts
  <2>10. \A v \in Workers : Busy(v)' => \A j \in DOMAIN Results' : Results'[j].file # wfile'[v]
    BY <2>1, <2>2, <2>3, <2>4, <2>5 DEF Accounts
  <2>11. \A i \in Claimed' : \/ \E j \in DOMAIN Results' : Results'[j].file = files'[i]
                            \/ \E v \in Workers : Busy(v)' /\ wfile'[v] = files'[i]
    <3>1. ASSUME NEW i \in Claimed, NEW j \in DOMAIN Results, Results[j].file = files[i]
          PROVE  j \in DOMAIN Results' /\ Results'[j].file = files'[i]
      BY <1>0, <2>2, <3>1
    <3>2. ASSUME NEW i \in Claimed, wfile[w] = files[i]
          PROVE  n + 1 \in DOMAIN Results' /\ Results'[n + 1].file = files'[i]
      BY <1>0, <2>1, <2>2, <3>2
    <3>3. ASSUME NEW i \in Claimed, NEW v \in Workers, Busy(v), v # w, wfile[v] = files[i]
          PROVE  Busy(v)' /\ wfile'[v] = files'[i]
      BY <1>0, <2>3, <2>4, <3>3
    <3> QED BY <2>3, <3>1, <3>2, <3>3 DEF Accounts
  <2> QED BY <2>6, <2>7, <2>8, <2>9, <2>10, <2>11 DEF Accounts
<1> QED BY <1>1, <1>2, <1>3, WorkerStep

\* A worker's result is a skip or comes with the answer it was made of.
LEMMA WorkAnswered ==
  ASSUME JudgeTypes, Answered, NEW w \in Workers, Work(w)
  PROVE  Answered'
<1>0. UNCHANGED <<job, reps>> /\ merged' = merged /\ replies \in Seq(Reply)
  BY WorkerStep DEF Elsewhere, JudgeTypes
<1>m. \A a : Made(a)' = Made(a)
  BY <1>0, MadeSame
<1>1. CASE Takes(w) \/ Leaves(w) \/ GoesOn(w)
  <2>1. Results' = Results /\ replies' = replies
    BY <1>0, <1>1 DEF Results, Takes, Leaves, GoesOn
  <2> QED BY <1>m, <2>1 DEF Answered
<1>2. CASE Skips(w) \/ Judges(w)
  <2>1. PICK r : /\ Results' = Append(Results, r)
                 /\ \/ r = Skipped(r.file) /\ Skips(w)
                    \/ \E a \in Reply : a.text # None /\ replies' = Append(replies, a) /\ r = Made(a)
    BY <1>2, WorkSends
  <2> DEFINE n == Len(Results)
             m == Len(replies)
  <2>2. /\ n \in Nat /\ DOMAIN Results = 1..n /\ DOMAIN Results' = 1..(n + 1)
        /\ Results'[n + 1] = r /\ \A j \in 1..n : Results'[j] = Results[j]
    BY <2>1, ResultsSeq, AppendShape
  <2>3. m \in Nat /\ DOMAIN replies = 1..m
    BY <1>0
  <2>4. /\ DOMAIN replies' = 1..m \/ DOMAIN replies' = 1..(m + 1)
        /\ \A j \in 1..m : replies'[j] = replies[j]
        /\ m + 1 \in DOMAIN replies' /\ replies'[m + 1].text # None =>
               r = Made(replies'[m + 1])
        /\ r = Skipped(r.file) \/ (m + 1 \in DOMAIN replies' /\ replies'[m + 1].text # None
                                   /\ r = Made(replies'[m + 1]))
    <3>1. CASE \E a \in Reply : a.text # None /\ replies' = Append(replies, a) /\ r = Made(a)
      BY <1>0, <2>3, <3>1, AppendProperties
    <3>2. CASE r = Skipped(r.file) /\ replies' = replies
      BY <2>3, <3>2
    <3>3. CASE r = Skipped(r.file) /\ \E a \in Reply : a.text = None /\ replies' = Append(replies, a)
      BY <1>0, <2>3, <3>3, AppendProperties
    <3> QED BY <2>1, <3>1, <3>2, <3>3 DEF Skips
  <2> HIDE DEF n, m, Results, Made
  <2>5. ASSUME NEW j \in DOMAIN replies', replies'[j].text # None
        PROVE  \E k \in DOMAIN Results' : Results'[k] = Made(replies'[j])
    <3>1. CASE j \in 1..m
      <4>1. j \in DOMAIN replies /\ replies'[j] = replies[j]
        BY <2>3, <2>4, <3>1
      <4>2. PICK k \in DOMAIN Results : Results[k] = Made(replies[j])
        BY <2>5, <4>1 DEF Answered
      <4>3. k \in DOMAIN Results' /\ Results'[k] = Results[k]
        BY <2>2, <4>2
      <4> QED BY <4>1, <4>2, <4>3
    <3>2. CASE j = m + 1
      BY <2>2, <2>4, <2>5, <3>2
    <3> QED BY <2>3, <2>4, <3>1, <3>2
  <2>6. ASSUME NEW k \in DOMAIN Results'
        PROVE  \/ Results'[k] = Skipped(Results'[k].file)
               \/ \E j \in DOMAIN replies' : replies'[j].text # None
                                            /\ Results'[k] = Made(replies'[j])
    <3>1. CASE k \in 1..n
      <4>1. k \in DOMAIN Results /\ Results'[k] = Results[k]
        BY <2>2, <3>1
      <4>2. CASE Results[k] = Skipped(Results[k].file)
        BY <4>1, <4>2
      <4>3. CASE \E j \in DOMAIN replies : replies[j].text # None /\ Results[k] = Made(replies[j])
        <5>1. PICK j \in DOMAIN replies : replies[j].text # None /\ Results[k] = Made(replies[j])
          BY <4>3
        <5>2. j \in DOMAIN replies' /\ replies'[j] = replies[j]
          BY <2>3, <2>4, <5>1
        <5> QED BY <4>1, <5>1, <5>2
      <4> QED BY <4>1, <4>2, <4>3 DEF Answered
    <3>2. CASE k = n + 1
      BY <2>2, <2>4, <3>2
    <3> QED BY <2>2, <3>1, <3>2
  <2> QED BY <1>m, <2>5, <2>6 DEF Answered
<1> QED BY <1>1, <1>2, WorkerStep

-----------------------------------------------------------------------------
(* The main thread's steps *)

\* Some worker is started if there is a file.
LEMMA CrewStarts ==
  ASSUME NEW crew \in SUBSET Workers, NEW n \in Nat,
         Cardinality(crew) = Min({Cardinality(Workers), n})
  PROVE  n = 0 \/ \E w \in Workers : w \in crew
<1> SUFFICES ASSUME n # 0 PROVE crew # {}
  OBVIOUS
<1>1. IsFiniteSet(Workers) /\ Workers # {}
  BY JudgeAssumption
<1>2. Cardinality(Workers) \in Nat /\ Cardinality(Workers) # 0
  BY <1>1, FS_CardinalityType, FS_EmptySet
<1> DEFINE c == Cardinality(Workers)
<1> HIDE DEF c
<1>3. Min({c, n}) \in {c, n}
  <2>1. \E x \in {c, n} : \A y \in {c, n} : x =< y
    BY <1>2 DEF c
  <2> QED BY <2>1 DEF Min
<1> QED BY <1>2, <1>3, FS_EmptySet DEF c

\* The inputs become the work, and some worker is started on it.
LEMMA StartInv ==
  ASSUME JudgeInv, Start
  PROVE  JudgeInv'
<1>0. JudgeTypes /\ Phases /\ Accounts /\ Answered
  BY DEF JudgeInv
<1>1. /\ main = "read" /\ UNCHANGED <<job, next, wfile, stamp, tmp, replies, channel, merged, overlay, meta>>
      /\ reps' = Dedupe(Selected(job.findings, job.only)) /\ files' = Group(reps', job.max_files)
      /\ main' \in {"error", "ok", "pool"} /\ (main' = "ok" => job.dry_run)
  BY DEF Start
<1>2. /\ reps = << >> /\ files = << >> /\ next = 1 /\ replies = << >> /\ channel = << >> /\ merged = << >>
      /\ overlay = None /\ \A w \in Workers : wpc[w] = "none"
  BY <1>0, <1>1 DEF Phases
<1>3. files' \in Seq(STRING) /\ Len(files') \in Nat
  BY <1>0, <1>1, JobWork
<1>4. \/ wpc' = wpc /\ main' # "pool"
      \/ /\ main' = "pool"
         /\ \E crew \in SUBSET Workers :
               /\ Cardinality(crew) = Min({Cardinality(Workers), Len(files')})
               /\ wpc' = [w \in Workers |-> IF w \in crew THEN "claim" ELSE "none"]
  BY DEF Start
<1>5. /\ wpc' \in [Workers -> {"none", "claim", "source", "again", "call", "spoken", "left"}]
      /\ \A w \in Workers : wpc'[w] \in {"none", "claim"}
      /\ main' # "pool" => \A w \in Workers : wpc'[w] = "none"
      /\ main' = "pool" => (\E w \in Workers : wpc'[w] # "none") \/ Len(files') = 0
  <2>1. CASE wpc' = wpc /\ main' # "pool"
    BY <1>0, <1>2, <2>1 DEF JudgeTypes
  <2>2. ASSUME main' = "pool", NEW crew \in SUBSET Workers,
               Cardinality(crew) = Min({Cardinality(Workers), Len(files')}),
               wpc' = [w \in Workers |-> IF w \in crew THEN "claim" ELSE "none"]
        PROVE  /\ wpc' \in [Workers -> {"none", "claim", "source", "again", "call", "spoken", "left"}]
               /\ \A w \in Workers : wpc'[w] \in {"none", "claim"}
               /\ (\E w \in Workers : wpc'[w] # "none") \/ Len(files') = 0
    <3>1. Len(files') = 0 \/ \E w \in Workers : w \in crew
      BY <1>3, <2>2, CrewStarts
    <3> QED BY <2>2, <3>1
  <2> QED BY <1>4, <2>1, <2>2
<1>6. JudgeTypes'
  BY <1>0, <1>1, <1>3, <1>5 DEF JudgeTypes, IsSeq
<1>7. Phases'
  BY <1>1, <1>2, <1>5 DEF Phases, Idle
<1>8. Results' = << >> /\ replies' = << >> /\ Claimed' = {}
  <2>1. Results' = << >>
    BY <1>1, <1>2 DEF Results
  <2>2. Claimed' = {}
    BY <1>1, <1>2, <1>3 DEF Claimed
  <2> QED BY <1>1, <1>2, <2>1, <2>2
<1>9. \A w \in Workers : ~Busy(w)'
  BY <1>5 DEF Busy
<1>10. Accounts' /\ Answered'
  BY <1>8, <1>9 DEF Accounts, Answered
<1>11. EveryFileAccounted'
  BY <1>1 DEF EveryFileAccounted
<1> QED BY <1>6, <1>7, <1>10, <1>11 DEF JudgeInv

\* When the scope ends every file was handed out.
LEMMA JoinInv ==
  ASSUME JudgeInv, JoinWorkers
  PROVE  JudgeInv'
<1>0. JudgeTypes /\ Phases /\ Accounts /\ Answered
  BY DEF JudgeInv
<1>1. /\ main = "pool" /\ main' = "merge" /\ \A w \in Workers : Idle(w)
      /\ UNCHANGED <<job, reps, files, next, wpc, wfile, attempt, stamp, tmp, replies, merged,
                     overlay, meta, channel>>
  BY DEF JoinWorkers, Idle, jobVars, workerVars
<1>2. next > Len(files)
  BY <1>0, <1>1 DEF Phases, JudgeTypes, Idle
<1>3. JudgeTypes'
  BY <1>0, <1>1 DEF JudgeTypes, IsSeq
<1>4. Phases'
  <2>1. overlay = None
    BY <1>0, <1>1 DEF Phases
  <2> QED BY <1>0, <1>1, <1>2, <2>1 DEF Phases, Idle
<1>5. Accounts' /\ Answered'
  <2>1. Results' = Results /\ Claimed' = Claimed /\ \A w \in Workers : Busy(w)' = Busy(w)
    BY <1>1 DEF Results, Claimed, Busy
  <2>2. \A a : Made(a)' = Made(a)
    BY <1>1, MadeSame
  <2> QED BY <1>0, <1>1, <2>1, <2>2 DEF Accounts, Answered
<1>6. EveryFileAccounted'
  BY <1>1 DEF EveryFileAccounted
<1> QED BY <1>3, <1>4, <1>5, <1>6 DEF JudgeInv

\* A merged result is still one of the results, at the same place.
LEMMA MergeInv ==
  ASSUME JudgeInv, Merge
  PROVE  JudgeInv'
<1>0. JudgeTypes /\ Phases /\ Accounts /\ Answered
  BY DEF JudgeInv
<1>1. /\ main = "merge" /\ main' = "merge" /\ channel # << >>
      /\ merged' = Append(merged, Head(channel)) /\ channel' = Tail(channel)
      /\ UNCHANGED <<job, reps, files, next, wpc, wfile, attempt, stamp, tmp, replies, overlay, meta>>
  BY DEF Merge, jobVars, workerVars
<1>2. IsSeq(merged') /\ IsSeq(channel') /\ Results' = Results
  BY <1>0, <1>1, MergeShape DEF JudgeTypes, Results
<1>3. JudgeTypes'
  BY <1>0, <1>1, <1>2 DEF JudgeTypes, IsSeq
<1>4. Phases'
  <2>1. overlay = None
    BY <1>0, <1>1 DEF Phases
  <2> QED BY <1>0, <1>1, <2>1 DEF Phases, Idle
<1>5. Accounts' /\ Answered'
  <2>1. Claimed' = Claimed /\ \A w \in Workers : Busy(w)' = Busy(w)
    BY <1>1 DEF Claimed, Busy
  <2>2. \A a : Made(a)' = Made(a)
    BY <1>1, MadeSame
  <2> HIDE DEF Results
  <2> QED BY <1>0, <1>1, <1>2, <2>1, <2>2 DEF Accounts, Answered
<1>6. EveryFileAccounted'
  BY <1>1 DEF EveryFileAccounted
<1> QED BY <1>3, <1>4, <1>5, <1>6 DEF JudgeInv

\* The overlay is made of all results.
LEMMA WriteOverlayInv ==
  ASSUME JudgeInv, WriteOverlay
  PROVE  JudgeInv'
<1>0. JudgeTypes /\ Phases /\ Accounts /\ Answered
  BY DEF JudgeInv
<1>1. /\ main = "merge" /\ main' \in {"meta", "error"} /\ channel = << >>
      /\ overlay' \in {None, verdicts(merged)}
      /\ UNCHANGED <<job, reps, files, next, wpc, wfile, attempt, stamp, tmp, replies, merged,
                     channel, meta>>
  BY DEF WriteOverlay, jobVars, workerVars
<1>3. JudgeTypes'
  BY <1>0, <1>1 DEF JudgeTypes, IsSeq
<1>4. Phases'
  <2>1. verdicts(merged)' = verdicts(merged)
    BY <1>1
  <2> QED BY <1>0, <1>1, <2>1 DEF Phases, Idle
<1>5. Accounts' /\ Answered'
  <2>1. Results' = Results /\ Claimed' = Claimed /\ \A w \in Workers : Busy(w)' = Busy(w)
    BY <1>1 DEF Results, Claimed, Busy
  <2>2. \A a : Made(a)' = Made(a)
    BY <1>1, MadeSame
  <2> HIDE DEF Results
  <2> QED BY <1>0, <1>1, <2>1, <2>2 DEF Accounts, Answered
<1>6. EveryFileAccounted'
  BY <1>1 DEF EveryFileAccounted
<1> QED BY <1>3, <1>4, <1>5, <1>6 DEF JudgeInv

\* When the channel is empty and nobody works, what was merged is what was sent.
LEMMA AllMerged ==
  ASSUME JudgeTypes, channel = << >>
  PROVE  merged = Results /\ IsSeq(merged) /\ Len(merged) \in Nat /\ DOMAIN merged = 1..Len(merged)
<1>1. IsSeq(merged)
  BY DEF JudgeTypes
<1>2. merged \o << >> = merged
  BY <1>1 DEF IsSeq
<1> QED BY <1>1, <1>2, SeqShape DEF Results

\* Two lists without repetitions of the same things ...
SameThings(g, m, h, n) ==
  /\ \A i \in 1..n : \E j \in 1..m : g[j] = h[i]
  /\ \A j \in 1..m : \E i \in 1..n : g[j] = h[i]
  /\ \A j, k \in 1..m : g[j] = g[k] => j = k
  /\ \A i, k \in 1..n : h[i] = h[k] => i = k

\* ... are equally long.
LEMMA SameCount ==
  ASSUME NEW m \in Nat, NEW n \in Nat, NEW g, NEW h, SameThings(g, m, h, n)
  PROVE  m = n
<1> DEFINE of == [j \in 1..m |-> CHOOSE i \in 1..n : g[j] = h[i]]
<1>1. \A j \in 1..m : of[j] \in 1..n /\ g[j] = h[of[j]]
  BY DEF SameThings
<1>2. of \in [1..m -> 1..n]
  BY <1>1
<1> HIDE DEF of
<1>3. \A j, k \in 1..m : of[j] = of[k] => j = k
  BY <1>1 DEF SameThings
<1>4. \A i \in 1..n : \E j \in 1..m : of[j] = i
  <2> TAKE i \in 1..n
  <2>1. PICK j \in 1..m : g[j] = h[i]
    BY DEF SameThings
  <2>2. of[j] \in 1..n /\ h[of[j]] = h[i]
    BY <1>1, <2>1
  <2> QED BY <2>2 DEF SameThings
<1>5. of \in Bijection(1..m, 1..n)
  BY <1>2, <1>3, <1>4 DEF Bijection, Injection, IsInjective, Surjection
<1>6. Cardinality(1..n) = m
  BY <1>5, FS_CountingElements DEF ExistsBijection
<1>7. Cardinality(1..n) = n
  BY FS_Interval
<1> QED BY <1>6, <1>7

\* Each file has one result then, and each result a file of its own.
LEMMA OneResultPerFile ==
  ASSUME JudgeTypes, Phases, Accounts, channel = << >>, next > Len(files), main # "read",
         \A w \in Workers : Idle(w)
  PROVE  /\ \A i \in DOMAIN files : \E j \in DOMAIN merged : merged[j].file = files[i]
         /\ \A j \in DOMAIN merged : \E i \in DOMAIN files : merged[j].file = files[i]
         /\ Len(merged) = Len(files)
<1>0. /\ merged = Results /\ IsSeq(merged) /\ Len(merged) \in Nat /\ DOMAIN merged = 1..Len(merged)
  BY AllMerged
<1>1. files \in Seq(STRING) /\ Len(files) \in Nat /\ DOMAIN files = 1..Len(files) /\ next \in Nat
  BY DEF JudgeTypes
<1>2. \A m, n \in DOMAIN files : files[m] = files[n] => m = n
  BY JobWork DEF Phases
<1>3. Claimed = DOMAIN files
  BY <1>1 DEF Claimed
<1>4. \A w \in Workers : ~Busy(w)
  BY DEF Idle, Busy
<1>5. /\ \A i \in DOMAIN files : \E j \in DOMAIN merged : merged[j].file = files[i]
      /\ \A j \in DOMAIN merged : \E i \in DOMAIN files : merged[j].file = files[i]
      /\ \A j, k \in DOMAIN merged : merged[j].file = merged[k].file => j = k
  BY <1>0, <1>3, <1>4 DEF Accounts
<1> DEFINE m == Len(merged)
           n == Len(files)
           g == [j \in 1..m |-> merged[j].file]
<1>6. \A j \in 1..m : g[j] = merged[j].file
  OBVIOUS
<1>7. m \in Nat /\ n \in Nat /\ DOMAIN merged = 1..m /\ DOMAIN files = 1..n
  BY <1>0, <1>1
<1> HIDE DEF g, m, n
<1>8. SameThings(g, m, files, n)
  <2>1. /\ \A i \in 1..n : \E j \in 1..m : merged[j].file = files[i]
        /\ \A j \in 1..m : \E i \in 1..n : merged[j].file = files[i]
        /\ \A j, k \in 1..m : merged[j].file = merged[k].file => j = k
        /\ \A i, k \in 1..n : files[i] = files[k] => i = k
    BY <1>2, <1>5, <1>7, Zenon
  <2>2. \A i \in 1..n : \E j \in 1..m : g[j] = files[i]
    BY <1>6, <2>1
  <2>3. \A j \in 1..m : \E i \in 1..n : g[j] = files[i]
    BY <1>6, <2>1
  <2>4. \A j, k \in 1..m : g[j] = g[k] => j = k
    BY <1>6, <2>1
  <2> QED BY <2>1, <2>2, <2>3, <2>4 DEF SameThings
<1>9. m = n
  BY <1>7, <1>8, SameCount
<1> QED BY <1>5, <1>9 DEF m, n

\* The results that are no skips are as many as the files with an answer.
LEMMA SkipsCounted ==
  ASSUME JudgeTypes, Accounts, Answered, channel = << >>
  PROVE  LET answered == {replies[j].file : j \in {k \in DOMAIN replies : replies[k].text # None}}
             skips == {i \in DOMAIN merged : merged[i].skipped}
         IN  /\ Cardinality(skips) \in Nat
             /\ Cardinality(answered) = Len(merged) - Cardinality(skips)
             /\ Cardinality(skips) = 0 <=> skips = {}
<1>0. /\ merged = Results /\ IsSeq(merged) /\ Len(merged) \in Nat /\ DOMAIN merged = 1..Len(merged)
  BY AllMerged
<1> DEFINE D == 1..Len(merged)
           skips == {i \in D : merged[i].skipped}
           answered == {replies[j].file : j \in {k \in DOMAIN replies : replies[k].text # None}}
           U == D \ skips
           f == [k \in U |-> merged[k].file]
<1>1. IsFiniteSet(D) /\ Cardinality(D) = Len(merged)
  BY <1>0, FS_Interval
<1>2. skips \in SUBSET D
  OBVIOUS
<1>3. IsFiniteSet(skips) /\ Cardinality(skips) \in Nat /\ (Cardinality(skips) = 0 <=> skips = {})
  <2> HIDE DEF skips, D
  <2> QED BY <1>1, <1>2, FS_Subset, FS_CardinalityType, FS_EmptySet
<1>4. IsFiniteSet(U) /\ Cardinality(U) = Len(merged) - Cardinality(skips)
  <2>1. D \cap skips = skips
    BY <1>2
  <2>2. /\ IsFiniteSet(D \ skips)
        /\ Cardinality(D \ skips) = Cardinality(D) - Cardinality(D \cap skips)
    <3> HIDE DEF skips, D
    <3> QED BY <1>1, FS_Difference, Zenon
  <2> HIDE DEF skips, D
  <2> QED BY <1>1, <2>1, <2>2, Zenon
<1>5. \A k \in U : \E j \in DOMAIN replies : replies[j].text # None /\ merged[k].file = replies[j].file
  <2> TAKE k \in U
  <2>1. k \in DOMAIN Results /\ ~merged[k].skipped /\ merged[k] = Results[k]
    BY <1>0
  <2>2. merged[k] # Skipped(merged[k].file)
    BY <2>1, SkippedShape
  <2>3. PICK j \in DOMAIN replies : replies[j].text # None /\ merged[k] = Made(replies[j])
    BY <2>1, <2>2 DEF Answered
  <2>4. merged[k].file = replies[j].file
    BY <2>3, MadeShape
  <2> QED BY <2>3, <2>4
<1>6. \A j \in DOMAIN replies : replies[j].text # None => \E k \in U : merged[k].file = replies[j].file
  <2> TAKE j \in DOMAIN replies
  <2> HAVE replies[j].text # None
  <2>1. PICK k \in DOMAIN Results : Results[k] = Made(replies[j])
    BY DEF Answered
  <2>2. merged[k].file = replies[j].file /\ merged[k].skipped = FALSE /\ k \in D
    BY <1>0, <2>1, MadeShape
  <2> QED BY <2>2
<1>7. \A j, k \in U : merged[j].file = merged[k].file => j = k
  BY <1>0 DEF Accounts
<1>8. f \in Bijection(U, answered)
  <2>1. f \in [U -> answered]
    BY <1>5
  <2>2. \A a \in answered : \E k \in U : f[k] = a
    BY <1>6
  <2> HIDE DEF U, answered
  <2>3. \A j, k \in U : f[j] = f[k] => j = k
    BY <1>7
  <2> HIDE DEF f
  <2> QED BY <2>1, <2>2, <2>3 DEF Bijection, Injection, IsInjective, Surjection
<1>9. Cardinality(answered) = Cardinality(U)
  <2> HIDE DEF U, answered, f
  <2> QED BY <1>4, <1>8, FS_Bijection DEF ExistsBijection
<1> QED BY <1>0, <1>3, <1>4, <1>9

\* The counters and the exit code are those of the results.
LEMMA WriteMetaInv ==
  ASSUME JudgeInv, WriteJudgeMeta
  PROVE  JudgeInv'
<1>0. JudgeTypes /\ Phases /\ Accounts /\ Answered
  BY DEF JudgeInv
<1>1. /\ main = "meta" /\ main' \in {"ok", "partial", "error"}
      /\ UNCHANGED <<job, reps, files, next, wpc, wfile, attempt, stamp, tmp, replies, merged,
                     overlay, channel>>
  BY DEF WriteJudgeMeta, jobVars, workerVars
<1>2. channel = << >> /\ next > Len(files) /\ \A w \in Workers : Idle(w)
  BY <1>0, <1>1 DEF Phases
<1>3. JudgeTypes'
  BY <1>0, <1>1 DEF JudgeTypes, IsSeq
<1>4. Phases'
  <2>1. verdicts(merged)' = verdicts(merged)
    BY <1>1
  <2> QED BY <1>0, <1>1, <1>2, <2>1 DEF Phases, Idle
<1>5. Accounts' /\ Answered'
  <2>1. Results' = Results /\ Claimed' = Claimed /\ \A w \in Workers : Busy(w)' = Busy(w)
    BY <1>1 DEF Results, Claimed, Busy
  <2>2. \A a : Made(a)' = Made(a)
    BY <1>1, MadeSame
  <2> HIDE DEF Results
  <2> QED BY <1>0, <1>1, <2>1, <2>2 DEF Accounts, Answered
<1>6. EveryFileAccounted'
  <2> DEFINE answered == {replies[j].file : j \in {k \in DOMAIN replies : replies[k].text # None}}
             skips == {i \in DOMAIN merged : merged[i].skipped}
             s == Cardinality(skips)
             All == \A i \in DOMAIN files : \E j \in DOMAIN replies :
                        replies[j].file = files[i] /\ replies[j].text # None
  <2> SUFFICES ASSUME main' # "error" PROVE EveryFileAccounted'
    BY <1>1 DEF EveryFileAccounted
  <2>1. /\ s \in Nat /\ Cardinality(answered) = Len(merged) - s /\ (s = 0 <=> skips = {})
    BY <1>0, <1>2, SkipsCounted
  <2>2. /\ \A i \in DOMAIN files : \E j \in DOMAIN merged : merged[j].file = files[i]
        /\ \A j \in DOMAIN merged : \E i \in DOMAIN files : merged[j].file = files[i]
        /\ Len(merged) = Len(files) /\ Len(files) \in Nat
    BY <1>0, <1>1, <1>2, OneResultPerFile DEF JudgeTypes
  <2>3. skips = {} <=> All
    <3>0. merged = Results
      BY <1>0, <1>2, AllMerged
    <3>1. ASSUME skips = {}, NEW i \in DOMAIN files
          PROVE  \E j \in DOMAIN replies : replies[j].file = files[i] /\ replies[j].text # None
      <4>1. PICK j \in DOMAIN merged : merged[j].file = files[i]
        BY <2>2
      <4>2. merged[j] # Skipped(merged[j].file)
        BY <3>1, SkippedShape
      <4>3. PICK l \in DOMAIN replies : replies[l].text # None /\ merged[j] = Made(replies[l])
        BY <1>0, <3>0, <4>2 DEF Answered
      <4>4. merged[j].file = replies[l].file
        BY <4>3, MadeShape
      <4> QED BY <4>1, <4>3, <4>4
    <3>2. ASSUME All, NEW k \in DOMAIN merged
          PROVE  ~merged[k].skipped
      <4>1. PICK j \in DOMAIN replies : replies[j].file = merged[k].file /\ replies[j].text # None
        BY <2>2, <3>2
      <4>2. PICK l \in DOMAIN merged : merged[l] = Made(replies[j])
        BY <1>0, <3>0, <4>1 DEF Answered
      <4>3. merged[l].file = merged[k].file /\ merged[l].skipped = FALSE
        BY <4>1, <4>2, MadeShape
      <4> QED BY <1>0, <3>0, <4>3 DEF Accounts
    <3> QED BY <3>1, <3>2
  <2>4. /\ meta' = [files_judged |-> Len(files) - s, files_skipped |-> s,
                    findings_malformed |-> findings_malformed(merged), ids_total |-> Len(reps)]
        /\ main' = IF s > 0 THEN "partial" ELSE "ok"
    BY DEF WriteJudgeMeta, files_skipped
  <2>5. meta'.files_judged = Len(files) - s /\ meta'.files_skipped = s
    BY <2>4
  <2> HIDE DEF answered, skips, s, All
  <2>6. (main' = "ok") = All
    <3>1. main' = "ok" <=> s = 0
      BY <2>1, <2>4
    <3>2. s = 0 <=> All
      BY <2>1, <2>3
    <3>3. All \in BOOLEAN
      BY DEF All
    <3> QED BY <3>1, <3>2, <3>3
  <2>7. meta'.files_judged = Cardinality(answered) /\ meta'.files_judged + meta'.files_skipped = Len(files)
    BY <2>1, <2>2, <2>5
  <2> QED BY <1>1, <2>2, <2>6, <2>7 DEF EveryFileAccounted, answered, All
<1> QED BY <1>3, <1>4, <1>5, <1>6 DEF JudgeInv

\* A worker keeps the invariant.
LEMMA WorkInv ==
  ASSUME JudgeInv, NEW w \in Workers, Work(w)
  PROVE  JudgeInv'
<1>1. JudgeTypes' /\ Phases' /\ Accounts' /\ Answered' /\ main = "pool"
  BY WorkTypes, WorkPhases, WorkAccounts, WorkAnswered DEF JudgeInv
<1>2. main' = "pool"
  BY <1>1, WorkerStep DEF Elsewhere, JudgeInv
<1> QED BY <1>1, <1>2 DEF JudgeInv, EveryFileAccounted

\* So does a step that changes nothing.
LEMMA JudgeStutters ==
  ASSUME JudgeInv, UNCHANGED poolVars
  PROVE  JudgeInv'
<1>0. /\ UNCHANGED <<job, reps, files, next, wpc, wfile, attempt, stamp, tmp, replies, main, merged,
                     overlay, meta, channel>>
  BY DEF poolVars, jobVars, workerVars, mainVars
<1>1. JudgeTypes'
  BY <1>0 DEF JudgeInv, JudgeTypes, IsSeq
<1>2. Phases'
  <2>1. verdicts(merged)' = verdicts(merged)
    BY <1>0
  <2> QED BY <1>0, <2>1 DEF JudgeInv, Phases, Idle
<1>3. Accounts' /\ Answered'
  <2>1. Results' = Results /\ Claimed' = Claimed /\ \A w \in Workers : Busy(w)' = Busy(w)
    BY <1>0 DEF Results, Claimed, Busy
  <2>2. \A a : Made(a)' = Made(a)
    BY <1>0, MadeSame
  <2> HIDE DEF Results
  <2> QED BY <1>0, <2>1, <2>2 DEF Accounts, Answered, JudgeInv
<1>4. EveryFileAccounted'
  BY <1>0 DEF JudgeInv, EveryFileAccounted
<1> QED BY <1>1, <1>2, <1>3, <1>4 DEF JudgeInv

\* Every reachable state of `o7 judge` has its files accounted for and its results
\* made of the answers that were read (run 516-593).
THEOREM JudgeInductive == JudgeSpec => []JudgeInv
<1>1. JudgeInv /\ [JudgeNext]_poolVars => JudgeInv'
  <2> SUFFICES ASSUME JudgeInv, [JudgeNext]_poolVars PROVE JudgeInv'
    OBVIOUS
  <2> QED BY StartInv, JoinInv, MergeInv, WriteOverlayInv, WriteMetaInv, WorkInv, JudgeStutters
          DEF JudgeNext
<1> QED BY <1>1, JudgeInitInv, PTL DEF JudgeSpec

\* However the workers interleave and whatever the backends do, a run that ends
\* with ok or partial has merged one result per file, and its exit code and counters
\* tell how many files were answered by an array of verdicts, be it an empty or a short
\* one (run 516-593 and 621-659).
THEOREM FilesAccounted == JudgeSpec => []EveryFileAccounted
<1>1. JudgeInv => EveryFileAccounted
  BY DEF JudgeInv
<1> QED BY <1>1, JudgeInductive, PTL

-----------------------------------------------------------------------------
(* What the overlay is made of *)

\* The largest of one number.
LEMMA OneMax ==
  ASSUME NEW n \in Nat
  PROVE  Max({n}) = n
BY DEF Max

\* An id that one verdict has is in the overlay with that verdict.
LEMMA VerdictsAt ==
  ASSUME NEW results, NEW k \in Nat, k \in DOMAIN results, NEW i \in Nat, NEW id,
         i \in DOMAIN results[k].verdicts, results[k].verdicts[i].id = id,
         \A l \in DOMAIN results : \A m \in DOMAIN results[l].verdicts :
            results[l].verdicts[m].id = id => l = k /\ m = i
  PROVE  id \in DOMAIN verdicts(results) /\ verdicts(results)[id] = results[k].verdicts[i]
<1> DEFINE Of(x, r) == {m \in DOMAIN r.verdicts : r.verdicts[m].id = x}
           With(x) == {l \in DOMAIN results : Of(x, results[l]) # {}}
           ids == UNION {{r.verdicts[m].id : m \in DOMAIN r.verdicts} : r \in Range(results)}
           Last(x) == LET r == results[Max(With(x))] IN r.verdicts[Max(Of(x, r))]
<1>1. verdicts(results) = [x \in ids |-> Last(x)]
  BY DEF verdicts
<1>2. id \in ids
  <2>1. results[k] \in Range(results)
    BY DEF Range
  <2> QED BY <2>1
<1>3. Of(id, results[k]) = {i}
  OBVIOUS
<1>4. With(id) = {k}
  OBVIOUS
<1>5. Last(id) = results[k].verdicts[i]
  <2>1. Max(With(id)) = k
    BY <1>4, OneMax
  <2>2. Max(Of(id, results[k])) = i
    BY <1>3, OneMax
  <2> QED BY <2>1, <2>2
<1> HIDE DEF ids, Last
<1> QED BY <1>1, <1>2, <1>5

\* An id that no verdict has is not in the overlay.
LEMMA VerdictsWithout ==
  ASSUME NEW results, NEW id,
         \A l \in DOMAIN results : \A m \in DOMAIN results[l].verdicts :
            results[l].verdicts[m].id # id
  PROVE  id \notin DOMAIN verdicts(results)
<1> DEFINE ids == UNION {{r.verdicts[m].id : m \in DOMAIN r.verdicts} : r \in Range(results)}
<1>1. DOMAIN verdicts(results) = ids
  BY DEF verdicts
<1>2. id \notin ids
  BY DEF Range
<1> QED BY <1>1, <1>2

\* No two findings have the same id.
Distinct(of) == \A m, n \in DOMAIN of : finding_id(of[m]) = finding_id(of[n]) => m = n

\* The findings of a file are representatives with its path, each once.
LEMMA FileFindings ==
  ASSUME NEW of \in Seq(Finding), NEW file,
         Distinct(of)
  PROVE  LET fif == by_file(of, file)
         IN  /\ fif \in Seq(Finding) /\ Len(fif) \in Nat /\ DOMAIN fif = 1..Len(fif)
             /\ \A n \in DOMAIN fif : fif[n].path = file /\ \E i \in DOMAIN of : fif[n] = of[i]
             /\ \A m, n \in DOMAIN fif : finding_id(fif[m]) = finding_id(fif[n]) => m = n
<1> DEFINE P == {i \in DOMAIN of : of[i].path = file}
           a == Ascending(P)
           fif == Pick(of, P)
<1>1. P \in SUBSET DOMAIN of /\ \A i \in P : of[i].path = file
  OBVIOUS
<1>2. by_file(of, file) = fif
  BY DEF by_file
<1> HIDE DEF P
<1>3. /\ fif \in Seq(Finding) /\ DOMAIN fif = 1..Len(fif)
      /\ \A n \in DOMAIN fif : a[n] \in P /\ fif[n] = of[a[n]]
      /\ \A m, n \in DOMAIN fif : a[m] = a[n] => m = n
  BY <1>1, PickOf
<1> HIDE DEF fif, a
<1>4. \A n \in DOMAIN fif : fif[n].path = file /\ \E i \in DOMAIN of : fif[n] = of[i]
  BY <1>1, <1>3
<1>5. \A m, n \in DOMAIN fif : finding_id(fif[m]) = finding_id(fif[n]) => m = n
  BY <1>1, <1>3 DEF Distinct
<1>6. Len(fif) \in Nat
  BY <1>3
<1> QED BY <1>2, <1>3, <1>4, <1>5, <1>6

\* A class is kept if it is one of the three.
LEMMA ValidClass ==
  ASSUME NEW class
  PROVE  normalized_class(class) # None <=> class \in Classes
BY JudgeAssumption DEF normalized_class, Classes

\* The verdicts of an answer are the valid ones, each with the id of the finding at
\* its place ...
ByPosition(selected, of, file, from, raws) ==
  LET fif == by_file(of, file)
      vs == Judged(selected, of, file, from, raws).verdicts
  IN  /\ DOMAIN vs \subseteq Nat
      /\ \A i \in DOMAIN vs :
            /\ vs[i].at \in DOMAIN fif /\ raws[vs[i].at].class \in Classes
            /\ vs[i].id = finding_id(fif[vs[i].at]) /\ vs[i].from = from
            /\ vs[i].lines = lines_by_id(selected, vs[i].id)
      /\ \A i, m \in DOMAIN vs : vs[i].at = vs[m].at => i = m
      /\ \A n \in DOMAIN fif : raws[n].class \in Classes => \E i \in DOMAIN vs : vs[i].at = n

\* ... if the answer has one per finding.
LEMMA JudgedByPosition ==
  ASSUME NEW selected, NEW of \in Seq(Finding), NEW file, NEW from, NEW R, NEW raws \in Seq(R),
         Distinct(of), Len(raws) = Len(by_file(of, file))
  PROVE  ByPosition(selected, of, file, from, raws)
<1> DEFINE fif == by_file(of, file)
           paired == pair_verdicts(raws, fif, of)
           P == {i \in DOMAIN paired : normalized_class(paired[i][2].class) # None}
           good == Pick(paired, P)
           vs == Judged(selected, of, file, from, raws).verdicts
           a == Ascending(P)
<1>1. /\ fif \in Seq(Finding) /\ Len(fif) \in Nat /\ DOMAIN fif = 1..Len(fif)
      /\ \A m, n \in DOMAIN fif : finding_id(fif[m]) = finding_id(fif[n]) => m = n
  BY FileFindings
<1>2. DOMAIN raws = 1..Len(fif)
  OBVIOUS
<1>3. /\ paired = [i \in DOMAIN raws |-> <<finding_id(fif[i]), raws[i], i>>]
  BY DEF pair_verdicts
<1>4. vs = [i \in DOMAIN good |->
              [id |-> good[i][1], class |-> good[i][2].class, from |-> from,
               at |-> good[i][3], lines |-> lines_by_id(selected, good[i][1])]]
  BY DEF Judged
<1> HIDE DEF fif, vs, paired
<1>5. /\ DOMAIN paired = 1..Len(fif) /\ P \in SUBSET (1..Len(fif))
      /\ \A i \in 1..Len(fif) : /\ paired[i][1] = finding_id(fif[i]) /\ paired[i][2] = raws[i]
                                /\ paired[i][3] = i
  BY <1>2, <1>3
<1>6. \A i \in 1..Len(fif) : i \in P <=> raws[i].class \in Classes
  BY <1>5, ValidClass
<1>7. P \in SUBSET Nat /\ IsFiniteSet(P)
  <2>1. IsFiniteSet(1..Len(fif)) /\ 1..Len(fif) \in SUBSET Nat
    BY <1>1, FS_Interval
  <2> HIDE DEF P
  <2> QED BY <1>5, <2>1, FS_Subset
<1> HIDE DEF P
<1>8. /\ DOMAIN good = 1..Cardinality(P)
      /\ \A n \in DOMAIN good : a[n] \in P /\ good[n] = paired[a[n]]
      /\ \A m, n \in DOMAIN good : a[m] = a[n] => m = n
      /\ \A i \in P : \E n \in DOMAIN good : a[n] = i
  <2>1. Keeps(paired, P)
    BY <1>7, PickKeeps
  <2> QED BY <2>1 DEF Keeps
<1> HIDE DEF good, a
<1>9. /\ DOMAIN vs = DOMAIN good
      /\ \A i \in DOMAIN good : /\ vs[i].id = good[i][1] /\ vs[i].from = from /\ vs[i].at = good[i][3]
                                /\ vs[i].lines = lines_by_id(selected, good[i][1])
  BY <1>4
<1>10. DOMAIN vs \subseteq Nat
  BY <1>7, <1>8, <1>9, FS_CardinalityType
<1>11. ASSUME NEW i \in DOMAIN vs
       PROVE  /\ vs[i].at = a[i] /\ a[i] \in P /\ a[i] \in 1..Len(fif)
              /\ vs[i].id = finding_id(fif[a[i]]) /\ vs[i].from = from
              /\ vs[i].lines = lines_by_id(selected, vs[i].id)
  <2>1. /\ i \in DOMAIN good /\ vs[i].id = good[i][1] /\ vs[i].from = from /\ vs[i].at = good[i][3]
        /\ vs[i].lines = lines_by_id(selected, good[i][1])
    BY <1>9
  <2>2. a[i] \in P /\ a[i] \in 1..Len(fif) /\ good[i] = paired[a[i]]
    BY <1>5, <1>8, <2>1
  <2>3. good[i][1] = finding_id(fif[a[i]]) /\ good[i][3] = a[i]
    BY <1>5, <2>2
  <2> QED BY <2>1, <2>2, <2>3
<1>12. \A i \in DOMAIN vs :
                   /\ vs[i].at \in DOMAIN fif /\ raws[vs[i].at].class \in Classes
                   /\ vs[i].id = finding_id(fif[vs[i].at]) /\ vs[i].from = from
                   /\ vs[i].lines = lines_by_id(selected, vs[i].id)
  BY <1>1, <1>6, <1>11
<1>13. \A i, m \in DOMAIN vs : vs[i].at = vs[m].at => i = m
  BY <1>8, <1>9, <1>11
<1>14. \A n \in DOMAIN fif : raws[n].class \in Classes => \E i \in DOMAIN vs : vs[i].at = n
  <2> SUFFICES ASSUME NEW n \in DOMAIN fif, raws[n].class \in Classes
               PROVE  \E i \in DOMAIN vs : vs[i].at = n
    OBVIOUS
  <2>1. PICK i \in DOMAIN good : a[i] = n
    BY <1>1, <1>6, <1>8
  <2> QED BY <1>9, <1>11, <2>1
<1> QED BY <1>10, <1>12, <1>13, <1>14 DEF ByPosition, fif, vs

\* The verdicts of an answer have ids that their echoes name ...
ByKey(selected, of, file, from, raws) ==
  LET vs == Judged(selected, of, file, from, raws).verdicts
  IN  \A i \in DOMAIN vs : \E n \in DOMAIN raws : vs[i].id = key_to_id(of, raws[n].echo)

\* ... if the answer is of any other length.
LEMMA JudgedByKey ==
  ASSUME NEW selected, NEW of \in Seq(Finding), NEW file, NEW from, NEW R, NEW raws \in Seq(R),
         Len(raws) # Len(by_file(of, file))
  PROVE  ByKey(selected, of, file, from, raws)
<1> DEFINE Id(i) == key_to_id(of, raws[i].echo)
           all == [i \in DOMAIN raws |-> <<Id(i), raws[i], i>>]
           Q == {i \in DOMAIN raws : Id(i) # None}
           paired == Pick(all, Q)
           P == {i \in DOMAIN paired : normalized_class(paired[i][2].class) # None}
           good == Pick(paired, P)
           vs == Judged(selected, of, file, from, raws).verdicts
<1>1. pair_verdicts(raws, by_file(of, file), of) = paired
  BY DEF pair_verdicts
<1>2. vs = [i \in DOMAIN good |->
              [id |-> good[i][1], class |-> good[i][2].class, from |-> from,
               at |-> good[i][3], lines |-> lines_by_id(selected, good[i][1])]]
  BY <1>1 DEF Judged
<1>3. IsFiniteSet(DOMAIN raws) /\ DOMAIN raws \in SUBSET Nat /\ Q \in SUBSET DOMAIN raws
  <2>1. Len(raws) \in Nat /\ DOMAIN raws = 1..Len(raws)
    OBVIOUS
  <2>2. IsFiniteSet(1..Len(raws))
    BY <2>1, FS_Interval
  <2> QED BY <2>1, <2>2
<1>4. \A n \in DOMAIN raws : all[n][1] = Id(n)
  OBVIOUS
<1> HIDE DEF Id, all, Q, vs, P
<1>5. Q \in SUBSET Nat /\ IsFiniteSet(Q)
  BY <1>3, FS_Subset
<1>6. /\ DOMAIN paired = 1..Cardinality(Q) /\ Cardinality(Q) \in Nat
      /\ \A n \in DOMAIN paired : \E p \in DOMAIN raws : paired[n] = all[p]
  <2>0. Keeps(all, Q)
    BY <1>5, PickKeeps
  <2>1. /\ DOMAIN paired = 1..Cardinality(Q) /\ Cardinality(Q) \in Nat
        /\ \A n \in 1..Cardinality(Q) : Ascending(Q)[n] \in Q /\ paired[n] = all[Ascending(Q)[n]]
    BY <2>0 DEF Keeps
  <2> HIDE DEF paired
  <2>2. ASSUME NEW n \in DOMAIN paired
        PROVE  \E p \in DOMAIN raws : paired[n] = all[p]
    <3>1. Ascending(Q)[n] \in DOMAIN raws /\ paired[n] = all[Ascending(Q)[n]]
      BY <1>3, <2>1
    <3> QED BY <3>1
  <2> QED BY <2>1, <2>2
<1> HIDE DEF paired
<1>7. P \in SUBSET Nat /\ IsFiniteSet(P) /\ P \in SUBSET DOMAIN paired
  <2>1. P \in SUBSET DOMAIN paired
    BY DEF P
  <2>2. IsFiniteSet(1..Cardinality(Q)) /\ 1..Cardinality(Q) \in SUBSET Nat
    BY <1>6, FS_Interval
  <2> QED BY <1>6, <2>1, <2>2, FS_Subset
<1>8. \A n \in DOMAIN good : \E p \in DOMAIN paired : good[n] = paired[p]
  <2>0. Keeps(paired, P)
    BY <1>7, PickKeeps
  <2>1. /\ DOMAIN good = 1..Cardinality(P)
        /\ \A n \in 1..Cardinality(P) : Ascending(P)[n] \in P /\ good[n] = paired[Ascending(P)[n]]
    BY <2>0 DEF Keeps
  <2> HIDE DEF good
  <2> TAKE n \in DOMAIN good
  <2>2. Ascending(P)[n] \in DOMAIN paired /\ good[n] = paired[Ascending(P)[n]]
    BY <1>7, <2>1
  <2> QED BY <2>2
<1> HIDE DEF good
<1>9. DOMAIN vs = DOMAIN good /\ \A i \in DOMAIN good : vs[i].id = good[i][1]
  BY <1>2
<1>10. \A i \in DOMAIN vs : \E n \in DOMAIN raws : vs[i].id = Id(n)
  BY <1>4, <1>6, <1>8, <1>9
<1> QED BY <1>10 DEF ByKey, vs, Id

\* Findings with one id are in one file.
LEMMA SamePath ==
  ASSUME NEW f, NEW g, finding_id(f) = finding_id(g)
  PROVE  f.path = g.path
BY DEF finding_id

\* The lines of a finding that counts are those of all findings with its id.
LEMMA LinesCounted ==
  ASSUME NEW findings \in Seq(Finding), NEW only, NEW id,
         NEW k \in DOMAIN Selected(findings, only), finding_id(Selected(findings, only)[k]) = id
  PROVE  Len(lines_by_id(Selected(findings, only), id)) =
           Cardinality({m \in DOMAIN findings : finding_id(findings[m]) = id})
<1> DEFINE P == {i \in DOMAIN findings : only = None \/ findings[i].path = only}
           sel == Selected(findings, only)
           a == Ascending(P)
           I == {i \in DOMAIN sel : finding_id(sel[i]) = id}
           M == {m \in DOMAIN findings : finding_id(findings[m]) = id}
           same == Pick(sel, I)
           h == [i \in I |-> a[i]]
<1>1. P \in SUBSET DOMAIN findings
  OBVIOUS
<1>2. /\ sel \in Seq(Finding) /\ DOMAIN sel = 1..Len(sel)
      /\ \A n \in DOMAIN sel : a[n] \in P /\ sel[n] = findings[a[n]]
      /\ \A m, n \in DOMAIN sel : a[m] = a[n] => m = n
      /\ \A i \in P : \E n \in DOMAIN sel : a[n] = i
  <2>1. sel = Pick(findings, P)
    BY DEF Selected
  <2> HIDE DEF P, sel
  <2> QED BY <1>1, <2>1, PickOf
<1>3. k \in DOMAIN sel /\ finding_id(sel[k]) = id
  OBVIOUS
<1> HIDE DEF sel, a
<1>4. \A m \in M : m \in P
  <2> TAKE m \in M
  <2>1. finding_id(findings[m]) = finding_id(findings[a[k]]) /\ a[k] \in P
    BY <1>2, <1>3
  <2> QED BY <2>1, SamePath
<1>5. I \in SUBSET DOMAIN sel /\ I \in SUBSET Nat /\ IsFiniteSet(I)
  <2>1. IsFiniteSet(1..Len(sel)) /\ 1..Len(sel) \in SUBSET Nat
    BY <1>2, FS_Interval
  <2>2. I \in SUBSET DOMAIN sel
    OBVIOUS
  <2> HIDE DEF I
  <2> QED BY <1>2, <2>1, <2>2, FS_Subset
<1>6. h \in Bijection(I, M)
  <2>1. h \in [I -> M]
    BY <1>2
  <2>2. \A m \in M : \E i \in I : a[i] = m
    BY <1>2, <1>4
  <2>3. \A i, j \in I : a[i] = a[j] => i = j
    BY <1>2
  <2> HIDE DEF I, M
  <2>4. /\ \A m \in M : \E i \in I : h[i] = m
        /\ \A i, j \in I : h[i] = h[j] => i = j
    BY <2>2, <2>3
  <2> HIDE DEF h
  <2> QED BY <2>1, <2>4 DEF Bijection, Injection, IsInjective, Surjection
<1>7. Cardinality(M) = Cardinality(I)
  <2> HIDE DEF I, M, h
  <2> QED BY <1>5, <1>6, FS_Bijection DEF ExistsBijection
<1>8. Len(lines_by_id(sel, id)) = Cardinality(I)
  <2>1. lines_by_id(sel, id) = [i \in DOMAIN same |-> same[i].line]
    BY DEF lines_by_id
  <2> HIDE DEF I
  <2>2. DOMAIN same = 1..Cardinality(I) /\ Cardinality(I) \in Nat
    <3>1. Keeps(sel, I)
      BY <1>5, PickKeeps
    <3> QED BY <3>1 DEF Keeps
  <2> HIDE DEF same
  <2> QED BY <2>1, <2>2
<1> QED BY <1>7, <1>8 DEF sel

\* An answer with an array is a sequence of verdicts.
LEMMA AnswerSeq ==
  ASSUME NEW text \in Answers, text # None
  PROVE  text \in Seq(Raws)
<1>0. text \in UNION {[1..n -> Raws] : n \in 0..MaxVerdicts}
  BY DEF Answers
<1>1. PICK n \in 0..MaxVerdicts : text \in [1..n -> Raws]
  BY <1>0, Zenon
<1>2. n \in Nat
  BY JudgeAssumption
<1> QED BY <1>1, <1>2

\* Another file's answer, of the wrong length, names an id.
NamedBesides(j, id) ==
  \E k \in DOMAIN replies \ {j} :
     /\ replies[k].text # None
     /\ Len(replies[k].text) # Len(by_file(reps, replies[k].file))
     /\ \E p \in DOMAIN replies[k].text : key_to_id(reps, replies[k].text[p].echo) = id

\* The answer to a file has one verdict per finding, the n-th has the id, and no
\* other answer names it.
Unchallenged(j, n, id) ==
  /\ j \in DOMAIN replies /\ replies[j].text # None
  /\ Len(replies[j].text) = Len(by_file(reps, replies[j].file))
  /\ n \in DOMAIN by_file(reps, replies[j].file)
  /\ id = finding_id(by_file(reps, replies[j].file)[n])
  /\ ~NamedBesides(j, id)

\* The verdicts an id can have come from its own file's answer, unless another
\* answer names it.
LEMMA VerdictsOfId ==
  ASSUME JudgeInv, channel = << >>, main # "read",
         NEW j, NEW n, NEW id, Unchallenged(j, n, id),
         NEW l \in DOMAIN merged, NEW m \in DOMAIN merged[l].verdicts,
         merged[l].verdicts[m].id = id
  PROVE  merged[l].file = replies[j].file
<1>0. JudgeTypes /\ Phases /\ Accounts /\ Answered
  BY DEF JudgeInv
<1>a. /\ j \in DOMAIN replies /\ replies[j].text # None
      /\ Len(replies[j].text) = Len(by_file(reps, replies[j].file))
      /\ n \in DOMAIN by_file(reps, replies[j].file)
      /\ id = finding_id(by_file(reps, replies[j].file)[n])
      /\ ~NamedBesides(j, id)
  BY DEF Unchallenged
<1> DEFINE sel == Selected(job.findings, job.only)
<1>1. reps \in Seq(Finding) /\ Distinct(reps)
  <2>1. reps = Dedupe(sel) /\ sel \in Seq(Finding)
    BY <1>0, JobWork DEF Phases
  <2> HIDE DEF sel
  <2> QED BY <2>1, Deduped DEF Distinct
<1>2. merged = Results
  BY <1>0, AllMerged
<1>3. merged[l] # Skipped(merged[l].file)
  <2>1. DOMAIN << >> = {}
    OBVIOUS
  <2> QED BY <2>1, SkippedShape
<1>4. PICK k \in DOMAIN replies : replies[k].text # None /\ merged[l] = Made(replies[k])
  BY <1>0, <1>2, <1>3 DEF Answered
<1> DEFINE fif == by_file(reps, replies[k].file)
           raws == replies[k].text
<1>5. raws \in Seq(Raws)
  <2>1. replies[k] \in Reply
    BY <1>0 DEF JudgeTypes
  <2> QED BY <1>4, <2>1, AnswerSeq DEF Reply
<1>6. merged[l].verdicts = Judged(sel, reps, replies[k].file, replies[k].for, raws).verdicts
  BY <1>4 DEF Made
<1>7. merged[l].file = replies[k].file
  BY <1>4, MadeShape
<1>8. CASE Len(raws) # Len(fif)
  <2> HIDE DEF sel, raws
  <2>0. ByKey(sel, reps, replies[k].file, replies[k].for, raws)
    BY <1>1, <1>5, <1>8, JudgedByKey
  <2>1. \E p \in DOMAIN raws : id = key_to_id(reps, raws[p].echo)
    BY <1>6, <2>0 DEF ByKey
  <2> USE DEF raws
  <2>2. k # j
    BY <1>a, <1>8
  <2> QED BY <1>a, <1>4, <1>8, <2>1, <2>2 DEF NamedBesides
<1>9. CASE Len(raws) = Len(fif)
  <2> HIDE DEF sel, raws
  <2>0. ByPosition(sel, reps, replies[k].file, replies[k].for, raws)
    BY <1>1, <1>5, <1>9, JudgedByPosition
  <2>1. \E p \in DOMAIN fif : id = finding_id(fif[p])
    BY <1>6, <2>0 DEF ByPosition
  <2>2. PICK p \in DOMAIN fif : finding_id(fif[p]) = finding_id(by_file(reps, replies[j].file)[n])
    BY <1>a, <2>1
  <2>3. fif[p].path = replies[k].file
    BY <1>1, FileFindings
  <2>4. by_file(reps, replies[j].file)[n].path = replies[j].file
    BY <1>a, <1>1, FileFindings
  <2> QED BY <1>7, <2>2, <2>3, <2>4, SamePath
<1> QED BY <1>8, <1>9

\* What the overlay says of a finding whose file was answered one verdict each and
\* that no other answer names.
LEMMA OverlayOfFinding ==
  ASSUME JudgeInv, overlay # None, OwnAnswers,
         NEW j, NEW n, NEW id, Unchallenged(j, n, id)
  PROVE  IF replies[j].text[n].class \in Classes
         THEN id \in DOMAIN overlay
              /\ overlay[id].from = replies[j].file /\ overlay[id].at = n
              /\ Len(overlay[id].lines) =
                   Cardinality({m \in DOMAIN job.findings : finding_id(job.findings[m]) = id})
         ELSE id \notin DOMAIN overlay
<1>0. JudgeTypes /\ Phases /\ Accounts /\ Answered
  BY DEF JudgeInv
<1>a. /\ j \in DOMAIN replies /\ replies[j].text # None
      /\ Len(replies[j].text) = Len(by_file(reps, replies[j].file))
      /\ n \in DOMAIN by_file(reps, replies[j].file)
      /\ id = finding_id(by_file(reps, replies[j].file)[n])
      /\ ~NamedBesides(j, id)
  BY DEF Unchallenged
<1>1. overlay = verdicts(merged) /\ channel = << >> /\ main # "read"
  BY <1>0 DEF Phases
<1>2. merged = Results /\ Len(merged) \in Nat /\ DOMAIN merged = 1..Len(merged)
  BY <1>0, <1>1, AllMerged
<1> DEFINE sel == Selected(job.findings, job.only)
           fif == by_file(reps, replies[j].file)
           raws == replies[j].text
<1>3. job.findings \in Seq(Finding) /\ sel \in Seq(Finding) /\ reps = Dedupe(sel)
  BY <1>0, <1>1, JobWork DEF Phases
<1>4. /\ reps \in Seq(Finding) /\ Distinct(reps)
      /\ \A p \in DOMAIN reps : \E i \in DOMAIN sel : reps[p] = sel[i]
  <2> HIDE DEF sel
  <2> QED BY <1>3, Deduped DEF Distinct
<1>5. raws \in Seq(Raws)
  <2>1. replies[j] \in Reply
    BY <1>a, <1>0 DEF JudgeTypes
  <2> QED BY <1>a, <2>1, AnswerSeq DEF Reply
<1>6. PICK k \in DOMAIN merged : merged[k] = Made(replies[j])
  BY <1>a, <1>0, <1>2 DEF Answered
<1>7. /\ merged[k].verdicts = Judged(sel, reps, replies[j].file, replies[j].for, raws).verdicts
      /\ merged[k].file = replies[j].file /\ k \in Nat
  <2>1. merged[k].verdicts = Judged(sel, reps, replies[j].file, replies[j].for, raws).verdicts
    BY <1>6 DEF Made
  <2>2. merged[k].file = replies[j].file
    BY <1>6, MadeShape
  <2>3. k \in Nat
    BY <1>2
  <2> QED BY <2>1, <2>2, <2>3
<1>8. \A l \in DOMAIN merged : \A m \in DOMAIN merged[l].verdicts :
         merged[l].verdicts[m].id = id => l = k
  <2> SUFFICES ASSUME NEW l \in DOMAIN merged, NEW m \in DOMAIN merged[l].verdicts,
                      merged[l].verdicts[m].id = id
               PROVE  l = k
    OBVIOUS
  <2>1. merged[l].file = replies[j].file
    BY <1>1, VerdictsOfId
  <2> QED BY <1>0, <1>2, <1>7, <2>1 DEF Accounts
<1>9. ByPosition(sel, reps, replies[j].file, replies[j].for, raws)
  <2>1. Len(raws) = Len(by_file(reps, replies[j].file))
    BY <1>a
  <2> HIDE DEF sel, raws
  <2> QED BY <1>4, <1>5, <2>1, JudgedByPosition
<1> DEFINE vs == merged[k].verdicts
<1>10. /\ DOMAIN vs \subseteq Nat
       /\ \A i \in DOMAIN vs :
             /\ vs[i].at \in DOMAIN fif /\ raws[vs[i].at].class \in Classes
             /\ vs[i].id = finding_id(fif[vs[i].at]) /\ vs[i].from = replies[j].for
             /\ vs[i].lines = lines_by_id(sel, vs[i].id)
       /\ \A i, m \in DOMAIN vs : vs[i].at = vs[m].at => i = m
       /\ \A q \in DOMAIN fif : raws[q].class \in Classes => \E i \in DOMAIN vs : vs[i].at = q
  <2> HIDE DEF sel, raws
  <2> QED BY <1>7, <1>9 DEF ByPosition
<1>11. n \in DOMAIN fif /\ id = finding_id(fif[n])
  BY <1>a
<1>12. \A p, q \in DOMAIN fif : finding_id(fif[p]) = finding_id(fif[q]) => p = q
  BY <1>4, FileFindings
<1>13. PICK s \in DOMAIN sel : finding_id(sel[s]) = id
  <2>1. PICK p \in DOMAIN reps : fif[n] = reps[p]
    BY <1>11, <1>4, FileFindings
  <2>2. PICK i \in DOMAIN sel : reps[p] = sel[i]
    BY <1>4
  <2> QED BY <1>11, <2>1, <2>2
<1>14. Len(lines_by_id(sel, id)) =
         Cardinality({m \in DOMAIN job.findings : finding_id(job.findings[m]) = id})
  BY <1>3, <1>13, LinesCounted
<1> HIDE DEF sel, fif, raws, vs
<1>15. \A i \in DOMAIN vs : vs[i].id = id => vs[i].at = n
  BY <1>10, <1>11, <1>12
<1>16. CASE raws[n].class \in Classes
  <2>1. PICK i \in DOMAIN vs : vs[i].at = n
    BY <1>10, <1>11, <1>16
  <2>2. vs[i].id = id /\ vs[i].from = replies[j].file /\ vs[i].lines = lines_by_id(sel, id) /\ i \in Nat
    BY <1>10, <1>a, <1>11, <2>1 DEF OwnAnswers
  <2>3. \A l \in DOMAIN merged : \A m \in DOMAIN merged[l].verdicts :
           merged[l].verdicts[m].id = id => l = k /\ m = i
    BY <1>8, <1>10, <1>15, <2>1 DEF vs
  <2>4. id \in DOMAIN verdicts(merged) /\ verdicts(merged)[id] = merged[k].verdicts[i]
    BY <1>7, <2>2, <2>3, VerdictsAt DEF vs
  <2> QED BY <1>1, <1>14, <1>16, <2>1, <2>2, <2>4 DEF vs, raws
<1>17. CASE raws[n].class \notin Classes
  <2>1. \A l \in DOMAIN merged : \A m \in DOMAIN merged[l].verdicts : merged[l].verdicts[m].id # id
    BY <1>8, <1>10, <1>15, <1>17 DEF vs
  <2>2. id \notin DOMAIN overlay
    BY <1>1, <2>1, VerdictsWithout
  <2> QED BY <1>17, <2>2 DEF raws
<1> QED BY <1>16, <1>17

\* In every run a finding that was answered by position has that verdict in the
\* overlay, or none if its class is invalid, with the lines of all its occurrences;
\* the order in which the results were merged decides nothing about it
\* (pair_verdicts 144-189, merge 587-592).
THEOREM OverlayIsByPosition == JudgeSpec => []OverlayByPosition
<1>1. JudgeInv => OverlayByPosition
  BY OverlayOfFinding DEF OverlayByPosition, NamedBesides, Unchallenged
<1> QED BY <1>1, JudgeInductive, PTL
=============================================================================
