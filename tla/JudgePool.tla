----------------------------- MODULE JudgePool ------------------------------
(***************************************************************************)
(* `o7 judge` (src/judge.rs): the findings of a scan are deduplicated and  *)
(* grouped by file; a pool of workers takes the files in order, asks a     *)
(* backend about each one, pairs the verdicts it answers with finding ids  *)
(* and sends one result per file through a channel; when the workers are   *)
(* done one thread merges the results into the overlay, writes it with the *)
(* run's meta.json, and exits non-zero if a file was skipped.              *)
(*                                                                         *)
(* A finding id is the triple it is hashed from: two findings that differ  *)
(* in their line only are one, and two with the same path, line and rule   *)
(* but another message are two ids with one key.                           *)
(***************************************************************************)
EXTENDS Integers, Sequences, FiniteSets, FiniteSetsExt, Functions

CONSTANTS
    Workers,        \* --jobs
    Inputs,         \* the findings files: sequences of [path, line, rule, message]
    Only,           \* the values of --only: paths, or None
    MaxFiles,       \* the values of --max-files, 0 for no cap
    Retries,        \* JUDGE_RETRIES
    Raws,           \* verdicts a backend may answer: [echo, class]
    MaxVerdicts,    \* the longest answer considered
    Stamps,         \* clock readings that name codex's last-message files
    None

\* What the scan reports of a finding.
Finding == [path : STRING, line : Int, rule : STRING, message : STRING]

ASSUME JudgeAssumption ==
    /\ IsFiniteSet(Workers) /\ Workers # {}
    /\ Inputs \subseteq Seq(Finding)
    /\ MaxFiles \subseteq Nat /\ MaxVerdicts \in Nat
    /\ None \notin {"real", "false_positive", "uncertain"}

Providers == {"claude", "codex"}
Classes == {"real", "false_positive", "uncertain"}

\* A backend's answer: an array of verdicts, or None for text with no such array.
Answers == (UNION {[1..n -> Raws] : n \in 0..MaxVerdicts}) \cup {None}

VARIABLES
    job,        \* what the command line gave: findings, only, max_files, dry_run, provider
    reps,       \* one finding for each id
    files,      \* the files to judge
    main,       \* where the main thread is
    next,       \* the index of the next file to hand out, from 1
    wpc,        \* where each worker is
    wfile,      \* the file it works on
    attempt,    \* the backend calls that failed for that file
    stamp,      \* the name of codex's last-message file
    tmp,        \* what is in those files: who wrote it and the answer
    replies,    \* the answers that were read, by file: the text and the file it was for
    channel,    \* results sent and not merged
    merged,     \* results merged, in order
    overlay,    \* fp-verdicts.json in the run record, None before it is written
    meta        \* meta.json, likewise

workerVars == <<next, wpc, wfile, attempt, stamp, tmp, replies>>
mainVars == <<main, merged, overlay, meta>>
jobVars == <<job, reps, files>>
poolVars == <<jobVars, workerVars, mainVars, channel>>

-----------------------------------------------------------------------------
\* From findings to work

\* A finite set of numbers as a sequence, the smallest first.
Ascending(S) ==
    [n \in 1..Cardinality(S) |-> CHOOSE i \in S : Cardinality({j \in S : j < i}) = n - 1]

\* What is left of a sequence when only some of its places are kept.
Pick(s, places) == [n \in 1..Cardinality(places) |-> s[Ascending(places)[n]]]

finding_id(f) == <<f.path, f.rule, f.message>>

Key(f) == <<f.path, f.line, f.rule>>

\* The findings that count: the ones --only selects.
Selected(from, only) ==
    Pick(from, {i \in DOMAIN from : only = None \/ from[i].path = only})

\* The places of the keys that differ from all before them.
FirstSeen(keys) == {i \in DOMAIN keys : \A j \in 1..(i - 1) : keys[j] # keys[i]}

\* One representative per id, the first one seen.
Dedupe(selected) ==
    Pick(selected, FirstSeen([i \in DOMAIN selected |-> finding_id(selected[i])]))

lines_by_id(selected, id) ==
    LET same == Pick(selected, {i \in DOMAIN selected : finding_id(selected[i]) = id})
    IN  [i \in DOMAIN same |-> same[i].line]

\* The files in first-seen order, cut to --max-files.
Group(of, max_files) ==
    LET seen == Pick(of, FirstSeen([i \in DOMAIN of |-> of[i].path]))
        paths == [n \in DOMAIN seen |-> seen[n].path]
    IN  IF max_files > 0 /\ Len(paths) > max_files THEN SubSeq(paths, 1, max_files) ELSE paths

by_file(of, file) == Pick(of, {i \in DOMAIN of : of[i].path = file})

\* The last representative with a key gives the key its id; the ones in files
\* that --max-files cut off are in the map too.
key_to_id(of, key) ==
    LET same == {i \in DOMAIN of : Key(of[i]) = key}
    IN  IF same = {} THEN None ELSE finding_id(of[Max(same)])

JudgeInit ==
    /\ job \in [findings : Inputs, only : Only, max_files : MaxFiles,
                dry_run : BOOLEAN, provider : Providers]
    /\ reps = <<>>
    /\ files = <<>>
    /\ main = "read"
    /\ next = 1
    /\ wpc = [w \in Workers |-> "none"]
    /\ wfile = [w \in Workers |-> None]
    /\ attempt = [w \in Workers |-> 0]
    /\ stamp = [w \in Workers |-> None]
    /\ tmp = [s \in Stamps |-> None]
    /\ replies = <<>>
    /\ channel = <<>>
    /\ merged = <<>>
    /\ overlay = None
    /\ meta = None

\* run, up to the pool: unreadable inputs and a model of the wrong family are
\* errors, so is an empty list; a dry run stops here.
Start ==
    /\ main = "read"
    /\ reps' = Dedupe(Selected(job.findings, job.only))
    /\ files' = Group(reps', job.max_files)
    /\ \/ main' = "error" /\ UNCHANGED wpc
       \/ /\ reps' # <<>> /\ job.dry_run
          /\ main' = "ok" /\ UNCHANGED wpc
       \/ /\ reps' # <<>> /\ ~job.dry_run
          /\ main' = "pool"
          /\ \E crew \in SUBSET Workers :
                /\ Cardinality(crew) = Min({Cardinality(Workers), Len(files')})
                /\ wpc' = [w \in Workers |-> IF w \in crew THEN "claim" ELSE "none"]
    /\ UNCHANGED <<job, next, wfile, attempt, stamp, tmp, replies, channel, merged, overlay, meta>>

-----------------------------------------------------------------------------
\* Pairing

\* Mutant: repair by key even when the counts match.
pair_verdicts_bug(raws, fif, of) ==
    LET id(i) == key_to_id(of, raws[i].echo)
    IN  IF Len(raws) = Len(fif)
        THEN [i \in DOMAIN raws |->
                <<IF raws[i].echo # None /\ id(i) # None THEN id(i) ELSE finding_id(fif[i]),
                  raws[i], i>>]
        ELSE Pick([i \in DOMAIN raws |-> <<id(i), raws[i], i>>],
                  {i \in DOMAIN raws : id(i) # None})

\* By position when the answer has one verdict per finding; by key otherwise, and
\* a verdict with no complete echo, or an unknown one, is dropped.
pair_verdicts(raws, fif, of) ==
    LET id(i) == key_to_id(of, raws[i].echo)
    IN  IF Len(raws) = Len(fif)
        THEN [i \in DOMAIN raws |-> <<finding_id(fif[i]), raws[i], i>>]
        ELSE Pick([i \in DOMAIN raws |-> <<id(i), raws[i], i>>],
                  {i \in DOMAIN raws : id(i) # None})

normalized_class(class) == IF class \in Classes THEN class ELSE None

\* A FileResult; a verdict remembers the file and the place of the answer it was
\* read from, which stand for its confidence, reason and evidence.
Skipped(file) == [file |-> file, verdicts |-> <<>>, skipped |-> TRUE, malformed |-> 0]

Judged(selected, of, file, from, raws) ==
    LET paired == pair_verdicts(raws, by_file(of, file), of)
        good == Pick(paired, {i \in DOMAIN paired : normalized_class(paired[i][2].class) # None})
    IN  [file |-> file,
         verdicts |-> [i \in DOMAIN good |->
                         [id |-> good[i][1], class |-> good[i][2].class, from |-> from,
                          at |-> good[i][3], lines |-> lines_by_id(selected, good[i][1])]],
         skipped |-> FALSE,
         malformed |-> Len(paired) - Len(good)]

-----------------------------------------------------------------------------
\* Workers

At(w, step) == wpc[w] = step

Proceed(w, step) == wpc' = [wpc EXCEPT ![w] = step]

\* tx.send: the receiver outlives the workers, so it never fails.
Send(w, result) ==
    /\ channel' = Append(channel, result)
    /\ Proceed(w, "claim")

\* Mutant: the loop stops before the last file.
Claim_bug(w) ==
    /\ At(w, "claim")
    /\ next' = next + 1
    /\ \/ /\ next < Len(files)
          /\ wfile' = [wfile EXCEPT ![w] = files[next]]
          /\ attempt' = [attempt EXCEPT ![w] = 0]
          /\ Proceed(w, "source")
       \/ /\ next >= Len(files)
          /\ Proceed(w, "left")
          /\ UNCHANGED <<wfile, attempt>>
    /\ UNCHANGED <<jobVars, stamp, tmp, replies, channel, mainVars>>

\* next.fetch_add: the next file, or the end of the loop.
Claim(w) ==
    /\ At(w, "claim")
    /\ next' = next + 1
    /\ \/ /\ next <= Len(files)
          /\ wfile' = [wfile EXCEPT ![w] = files[next]]
          /\ attempt' = [attempt EXCEPT ![w] = 0]
          /\ Proceed(w, "source")
       \/ /\ next > Len(files)
          /\ Proceed(w, "left")
          /\ UNCHANGED <<wfile, attempt>>
    /\ UNCHANGED <<jobVars, stamp, tmp, replies, channel, mainVars>>

\* The source is missing, outside the repository or not text.
SourceSkipped(w) ==
    /\ At(w, "source")
    /\ Send(w, Skipped(wfile[w]))
    /\ UNCHANGED <<jobVars, next, wfile, attempt, stamp, tmp, replies, mainVars>>

\* The prompt is built and the backend started; codex is told to leave its last
\* message in a file named after the clock.
CallBackend(w) ==
    /\ At(w, "source") \/ At(w, "again")
    /\ Proceed(w, "call")
    /\ IF job.provider = "codex" THEN \E s \in Stamps : stamp' = [stamp EXCEPT ![w] = s]
       ELSE UNCHANGED stamp
    /\ UNCHANGED <<jobVars, next, wfile, attempt, tmp, replies, channel, mainVars>>

\* Mutant: a failed call is retried without a bound.
CallFailed_bug(w) ==
    /\ Proceed(w, "again")
    /\ UNCHANGED <<attempt, channel>>

\* call_agent_retry's answer to an error: again after a pause, or a skip.
CallFailed(w) ==
    \/ /\ attempt[w] < Retries
       /\ attempt' = [attempt EXCEPT ![w] = @ + 1]
       /\ Proceed(w, "again")
       /\ UNCHANGED channel
    \/ /\ attempt[w] >= Retries
       /\ Send(w, Skipped(wfile[w]))
       /\ UNCHANGED attempt

\* What is made of an answer: text without an array of verdicts is a skip, and any
\* array is not, the empty one included.  The text also goes to raw.<file>.txt, which
\* holds the last of the replies whose files share its sanitized name; nothing reads
\* it, and a write that fails is a warning.
Deliver(w, answer) ==
    /\ replies' = Append(replies, [file |-> wfile[w], for |-> answer.for, text |-> answer.text])
    /\ Send(w, IF answer.text = None THEN Skipped(wfile[w])
               ELSE Judged(Selected(job.findings, job.only), reps,
                           wfile[w], answer.for, answer.text))
    /\ UNCHANGED attempt

\* The backend could not be started, could not be fed, could not be waited for or
\* exits with an error.  The last-message file is removed, except by a start or a
\* wait that failed.
BackendFails(w) ==
    /\ At(w, "call") \/ At(w, "spoken")
    /\ CallFailed(w)
    /\ \/ UNCHANGED tmp
       \/ stamp[w] # None /\ tmp' = [tmp EXCEPT ![stamp[w]] = None]
    /\ stamp' = [stamp EXCEPT ![w] = None]
    /\ UNCHANGED <<jobVars, next, wfile, replies, mainVars>>

\* claude's answer comes with its exit.
ClaudeAnswers(w, text) ==
    /\ At(w, "call") /\ job.provider = "claude"
    /\ Deliver(w, [for |-> wfile[w], text |-> text])
    /\ UNCHANGED <<jobVars, next, wfile, stamp, tmp, mainVars>>

\* codex writes its last message, or none, and exits.
CodexWrites(w, text) ==
    /\ At(w, "call") /\ job.provider = "codex"
    /\ tmp' = [tmp EXCEPT ![stamp[w]] = [for |-> wfile[w], text |-> text]]
    /\ Proceed(w, "spoken")
    /\ UNCHANGED <<jobVars, next, wfile, attempt, stamp, replies, channel, mainVars>>

CodexSilent(w) ==
    /\ At(w, "call") /\ job.provider = "codex"
    /\ Proceed(w, "spoken")
    /\ UNCHANGED <<jobVars, next, wfile, attempt, stamp, tmp, replies, channel, mainVars>>

\* The message is read from the file and the file removed; nothing in it is a
\* failed call.
CodexRead(w) ==
    /\ At(w, "spoken")
    /\ \/ /\ tmp[stamp[w]] # None
          /\ Deliver(w, tmp[stamp[w]])
       \/ /\ tmp[stamp[w]] = None
          /\ CallFailed(w)
          /\ UNCHANGED replies
    /\ tmp' = [tmp EXCEPT ![stamp[w]] = None]
    /\ stamp' = [stamp EXCEPT ![w] = None]
    /\ UNCHANGED <<jobVars, next, wfile, mainVars>>

Work(w) ==
    \/ Claim(w) \/ SourceSkipped(w) \/ CallBackend(w) \/ BackendFails(w) \/ CodexSilent(w)
    \/ CodexRead(w)
    \/ \E text \in Answers : ClaudeAnswers(w, text) \/ CodexWrites(w, text)

-----------------------------------------------------------------------------
\* The merge and the record

\* The scope's end joins the workers; the original sender is dropped.
JoinWorkers ==
    /\ main = "pool"
    /\ \A w \in Workers : wpc[w] \in {"none", "left"}
    /\ main' = "merge"
    /\ UNCHANGED <<jobVars, workerVars, merged, overlay, meta, channel>>

Merge ==
    /\ main = "merge"
    /\ channel # <<>>
    /\ merged' = Append(merged, Head(channel))
    /\ channel' = Tail(channel)
    /\ UNCHANGED <<jobVars, workerVars, main, overlay, meta>>

\* The verdicts of the overlay: of two for one id, the one merged later.
verdicts(results) ==
    LET Of(id, r) == {i \in DOMAIN r.verdicts : r.verdicts[i].id = id}
        With(id) == {j \in DOMAIN results : Of(id, results[j]) # {}}
        ids == UNION {{r.verdicts[i].id : i \in DOMAIN r.verdicts} : r \in Range(results)}
    IN  [id \in ids |-> LET r == results[Max(With(id))] IN r.verdicts[Max(Of(id, r))]]

files_skipped(results) == Cardinality({i \in DOMAIN results : results[i].skipped})

\* The verdicts that were paired with a finding and dropped for their class.
findings_malformed(results) ==
    MapThenSumSet(LAMBDA i : results[i].malformed, DOMAIN results)

\* The channel is empty and closed: the overlay goes into the record and to --out;
\* a write that fails ends the run.
WriteOverlay ==
    /\ main = "merge"
    /\ channel = <<>>
    /\ \/ overlay' = verdicts(merged) /\ main' = "meta"
       \/ overlay' \in {None, verdicts(merged)} /\ main' = "error"
    /\ UNCHANGED <<jobVars, workerVars, merged, meta, channel>>

\* The counters go into meta.json; a skipped file makes the exit code non-zero, a
\* dropped verdict or a finding without one does not.
WriteJudgeMeta ==
    /\ main = "meta"
    /\ \/ main' = "error" /\ UNCHANGED meta
       \/ /\ meta' = [files_judged |-> Len(files) - files_skipped(merged),
                      files_skipped |-> files_skipped(merged),
                      findings_malformed |-> findings_malformed(merged),
                      ids_total |-> Len(reps)]
          /\ main' = IF files_skipped(merged) > 0 THEN "partial" ELSE "ok"
    /\ UNCHANGED <<jobVars, workerVars, merged, overlay, channel>>

Over == {"ok", "partial", "error"}

JudgeNext ==
    \/ Start \/ JoinWorkers \/ Merge \/ WriteOverlay \/ WriteJudgeMeta
    \/ \E w \in Workers : Work(w)

\* The threads run, and a backend that was asked answers or exits.
Fairness ==
    /\ WF_poolVars(Start \/ JoinWorkers \/ Merge \/ WriteOverlay \/ WriteJudgeMeta)
    /\ \A w \in Workers : WF_poolVars(Work(w))

JudgeSpec == JudgeInit /\ [][JudgeNext]_poolVars /\ Fairness

-----------------------------------------------------------------------------
\* Properties

\* The file a worker asked about is the file its answer was for.
OwnAnswers == \A i \in DOMAIN replies : replies[i].file = replies[i].for

\* Every file the run set out to judge reaches the merge exactly once, however the
\* workers interleave; the exit code tells the runs in which each of them was answered
\* by an array of verdicts from the others, and the two counters of meta.json say how
\* many were (run 516-593 and 621-659).  An array that is empty, too short or full of
\* invalid classes counts as an answer: see CleanRunIsComplete.
EveryFileAccounted ==
    main \in {"ok", "partial"} /\ ~job.dry_run =>
        /\ Len(merged) = Len(files)
        /\ \A i \in DOMAIN files : \E j \in DOMAIN merged : merged[j].file = files[i]
        /\ (main = "ok") = (\A i \in DOMAIN files :
                              \E j \in DOMAIN replies : replies[j].file = files[i]
                                                     /\ replies[j].text # None)
        /\ meta.files_judged = Cardinality({replies[j].file : j \in {k \in DOMAIN replies :
                                                        replies[k].text # None}})
        /\ meta.files_judged + meta.files_skipped = Len(files)

\* What the comments of the code want of the counters ("so the overlay/meta can't
\* silently pass as complete", 504-506; "can't read a silently-incomplete triage as a
\* clean, complete run", 648-650): a run that exits with success and reports no skipped
\* file and no malformed verdict has a verdict for every finding of the files it
\* judged.  The code does not keep it: the answer [] and an answer that is too short
\* are counted nowhere.
CleanRunIsComplete ==
    main = "ok" /\ ~job.dry_run /\ meta.findings_malformed = 0 =>
        \A f \in Range(reps) : f.path \in Range(files) => finding_id(f) \in DOMAIN overlay

\* An answer with one verdict per finding is the last word on its findings unless
\* another file's answer, of the wrong length, names one of them: each id has the
\* verdict at its own place, or none if that one's class is invalid, with all the
\* lines of the finding, in whatever order the files were answered (pair_verdicts
\* 144-189, merge 587-592).
OverlayByPosition ==
    overlay # None /\ OwnAnswers =>
        \A j \in DOMAIN replies :
            LET fif == by_file(reps, replies[j].file)
                Named(id) == \E k \in DOMAIN replies \ {j} :
                                /\ replies[k].text # None
                                /\ Len(replies[k].text) # Len(by_file(reps, replies[k].file))
                                /\ \E n \in DOMAIN replies[k].text :
                                        key_to_id(reps, replies[k].text[n].echo) = id
            IN  replies[j].text # None /\ Len(replies[j].text) = Len(fif) =>
                    \A n \in DOMAIN fif :
                        LET id == finding_id(fif[n])
                            v == replies[j].text[n]
                        IN  ~Named(id) =>
                                IF v.class \in Classes
                                THEN id \in DOMAIN overlay
                                     /\ overlay[id].from = replies[j].file /\ overlay[id].at = n
                                     /\ Len(overlay[id].lines) =
                                          Cardinality({m \in DOMAIN job.findings :
                                                        finding_id(job.findings[m]) = id})
                                ELSE id \notin DOMAIN overlay

\* The run ends: no worker waits for another, the merge sees the end of the
\* channel, and a backend that keeps failing is given up on (call_agent_retry
\* 823-842, the pool 537-569).
JudgeEnds == <>(main \in Over)
=============================================================================
